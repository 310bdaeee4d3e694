------------------------- MODULE OutputLayoutProofs -------------------------
(***************************************************************************)
(* The layout of the output file is correct for every set of sections, for *)
(* every page size and image base: addresses and offsets are as            *)
(* OutputLayout promises, and the rounds implement Placement.              *)
(*                                                                         *)
(* What is hard is that the rounds are repeated, with the addresses and    *)
(* offsets of the last round still there.  AddressInv says that an address *)
(* that is there is the one this round will compute: it depends on nothing *)
(* that a round changes.  OffsetInv speaks of the positions that the loop  *)
(* over the list has passed.  Both need the order of the list, ListInv.    *)
(***************************************************************************)
EXTENDS OutputLayout, LayoutLemmas

\* The list is sorted, but for the index table that comes last; it has the ELF
\* header and the section headers.
ListInv ==
    /\ phase = "sort" <=> list = <<>>
    /\ phase # "sort" => Ehdr \in InList /\ Shdr \in InList
    /\ phase \in {"headers", "indices"} => SymtabShndx \notin InList
    /\ shdrSize # 0
    /\ \A i, j \in DOMAIN list : i < j => list[i] # SymtabShndx
    /\ \A i, j \in DOMAIN list : i < j => list[j] = SymtabShndx \/ Before(list[i], list[j])
    /\ \A i \in DOMAIN list : list[i] \in DOMAIN section \union Headers \union {SymtabShndx}
    /\ phase \notin {"addresses", "offsets", "copy", "incompatible"} => at = 1
    /\ phase \notin {"offsets", "program headers"} => run = 0

LoadedAt(i) == i \in DOMAIN list /\ Alloc(list[i])

\* The end of the chunk at position i, in memory and in the file.
EndAt(i) == addr[list[i]] + SizeOf(list[i])
FileEndAt(i) == offset[list[i]] + SizeOf(list[i])

\* pos and Separate(pos) when the loop of Set_virtual_addresses is at position i.
PosAt(i) == IF LoadedAt(i-1) THEN EndAt(i-1) ELSE ImageBase
StartAt(i) ==
    IF i # 1 /\ PhdrFlags(list[i-1]) # PhdrFlags(list[i]) /\ PosAt(i) % Page # 0
    THEN PosAt(i) + Page ELSE PosAt(i)

ComputedAt(i) == AlignTo(StartAt(i), Alignment(list[i]))

\* Addresses are given in the order of the list, and an address that is there is
\* what this round, too, computes.
AddressInv ==
    /\ \A c \in Ids : addr[c] # Unplaced => \E i \in DOMAIN list : LoadedAt(i) /\ list[i] = c
    /\ \A i, j \in DOMAIN list :
         LoadedAt(i) /\ i < j /\ addr[list[j]] # Unplaced => addr[list[i]] # Unplaced
    /\ \A i \in DOMAIN list : LoadedAt(i) /\ addr[list[i]] # Unplaced =>
         addr[list[i]] = ComputedAt(i)
    /\ \A i \in DOMAIN list : LoadedAt(i) =>
         \/ addr[list[i]] # Unplaced
         \/ phase \in {"headers", "indices"}
         \/ phase = "addresses" /\ i >= at
    /\ phase = "addresses" /\ (\E i \in DOMAIN list : at <= i /\ LoadedAt(i)) =>
         pos = PosAt(at)
    /\ phase \in {"sort", "headers", "indices"} =>
         pos = ImageBase /\ \A c \in Ids : addr[c] = Unplaced

\* Set_file_offsets has come past position i, and the sizes are still the same.
Written(i) ==
    /\ i \in DOMAIN list
    /\ \/ phase = "offsets" /\ i < at
       \/ phase \in {"program headers", "symbols", "copy", "done", "null symbol", "incompatible"}

OffsetInv ==
    /\ \A i \in DOMAIN list : Written(i) =>
         /\ offset[list[i]] # Unplaced
         /\ i = 1 => offset[list[i]] = 0
         /\ i > 1 => FileEndAt(i-1) <= offset[list[i]]
         /\ LoadedAt(i) => offset[list[i]] % Page = addr[list[i]] % Page
    /\ phase = "offsets" /\ run # 0 =>
         /\ run < at
         /\ \A i \in run .. at - 1 :
              /\ LoadedAt(i)
              /\ offset[list[i]] - offset[list[run]] = addr[list[i]] - addr[list[run]]

\* The PT_TLS that are written are aligned for what they have.
TlsInv ==
    phase \in {"symbols", "copy", "done", "null symbol", "incompatible"} =>
        \A s \in segments : s.type = "tls" =>
            /\ s.vaddr % s.align = 0
            /\ \A c \in {d \in Loaded : Tls(d)} : s.align % AlignOf(c) = 0

IInv == TypeOK /\ ListInv /\ AddressInv /\ OffsetInv /\ TlsInv

-----------------------------------------------------------------------------
(***************************************************************************)
(* Chunks and their order.                                                 *)
(***************************************************************************)
LEMMA Constants ==
    /\ NumNames \in Nat /\ Bss \in Nat /\ Stable \in Nat /\ Reserve \in Nat /\ HalfMax \in Nat
    /\ ImageBase \in Nat /\ Page \in Nat \ {0} /\ ImageBase % Page = 0
    /\ HeaderAlign \in Nat \ {0} /\ EhdrSize \in Nat \ {0}
    /\ PhdrEntry \in Nat \ {0} /\ ShdrEntry \in Nat \ {0}
    /\ Names = 1 .. NumNames /\ Ids = 1 .. NumNames + 4
    /\ Ehdr = NumNames + 1 /\ Phdr = NumNames + 2 /\ Shdr = NumNames + 3
    /\ SymtabShndx = NumNames + 4 /\ Headers = {Ehdr, Phdr, Shdr}
    /\ {Ehdr, Phdr, Shdr, SymtabShndx} \subseteq Ids
    /\ SymtabShndx \notin Names /\ SymtabShndx \notin Headers
<1>1. NumNames \in Nat
  BY LayoutAssumption
<1>2. SymtabShndx \notin Names /\ SymtabShndx \notin Headers
  BY <1>1 DEF Names, Headers, Ehdr, Phdr, Shdr, SymtabShndx
<1>3. {Ehdr, Phdr, Shdr, SymtabShndx} \subseteq Ids
  BY <1>1 DEF Ids, Ehdr, Phdr, Shdr, SymtabShndx
<1>4. Ids = 1 .. NumNames + 4
  BY <1>1 DEF Ids, SymtabShndx
<1>5. QED
  BY <1>2, <1>3, <1>4, LayoutAssumption DEF Names, Ehdr, Phdr, Shdr, SymtabShndx, Headers

LEMMA ChunkTypes ==
    ASSUME SectionTypes, NEW c \in Ids
    PROVE  /\ FlagsOf(c) \in SUBSET Flags /\ PhdrFlags(c) \in SUBSET Flags
           /\ AlignOf(c) \in Nat \ {0}
           /\ c \in DOMAIN section => section[c] \in Shapes /\ section[c] \in Shape
           /\ Alloc(c) => c \in DOMAIN section /\ c \in Names /\ c \notin Headers
           /\ Tls(c) => FlagsOf(c) = {"alloc", "write", "tls"} /\ Alloc(c)
<1>1. c \in DOMAIN section => section[c] \in Shapes /\ section[c] \in Shape /\ c \in Names
  BY LayoutAssumption DEF SectionTypes
<1>2. FlagsOf(c) \in SUBSET Flags
  BY <1>1 DEF FlagsOf, Shape
<1>3. PhdrFlags(c) \in SUBSET Flags
  BY <1>2 DEF PhdrFlags
<1>4. AlignOf(c) \in Nat \ {0}
  BY <1>1, Constants DEF AlignOf, Shape
<1>5. Alloc(c) => c \in DOMAIN section /\ c \in Names /\ c \notin Headers
  <2>1. Alloc(c) => c \in DOMAIN section /\ c \in Names
    BY <1>1 DEF Alloc, FlagsOf
  <2>2. c \in Names => c \notin Headers
    <3>1. NumNames \in Nat
      BY Constants
    <3>2. QED
      BY <3>1 DEF Names, Headers, Ehdr, Phdr, Shdr
  <2>3. QED
    BY <2>1, <2>2
<1>6. Tls(c) => FlagsOf(c) = {"alloc", "write", "tls"} /\ Alloc(c)
  BY <1>1, TlsAssumption DEF Tls, Alloc, FlagsOf
<1>7. QED
  BY <1>1, <1>2, <1>3, <1>4, <1>5, <1>6

LEMMA SizeTyped ==
    ASSUME SectionTypes, SizeTypes, NEW c \in Ids
    PROVE  SizeOf(c) \in Nat
BY ChunkTypes, Constants DEF SizeOf, SizeTypes, Shape

\* The ranks tell the chunks that are loaded, and the thread-local ones, from the
\* others.
LEMMA Ranks ==
    ASSUME SectionTypes, NEW c \in Ids
    PROVE  /\ RankOf(c) \in Nat
           /\ c = Ehdr <=> RankOf(c) = 0
           /\ c = Shdr <=> RankOf(c) = 2048
           /\ Alloc(c) <=> RankOf(c) \in 1024 .. 1535
           /\ Tls(c) <=> RankOf(c) = 1280
           /\ RankOf(c) <= 2048
<1> DEFINE a == IF ~Alloc(c) THEN 512 ELSE 0
           w == IF "write" \in FlagsOf(c) THEN 256 ELSE 0
           e == IF "exec" \in FlagsOf(c) THEN 128 ELSE 0
           t == IF ~Tls(c) THEN 64 ELSE 0
<1>1. Ehdr # Phdr /\ Ehdr # Shdr /\ Phdr # Shdr /\ (c \in Headers => c \in {Ehdr, Phdr, Shdr})
  BY Constants
<1>2. Alloc(c) => c \notin Headers
  BY ChunkTypes
<1>3. Tls(c) => "write" \in FlagsOf(c) /\ "exec" \notin FlagsOf(c) /\ Alloc(c)
  BY ChunkTypes
<1>4. CASE c \notin Headers
  <2>1. RankOf(c) = 1024 + a + w + e + t
    BY <1>4, Constants DEF RankOf
  <2>2. /\ a = (IF ~Alloc(c) THEN 512 ELSE 0) /\ w \in {0, 256}
        /\ e \in {0, 128} /\ t = (IF ~Tls(c) THEN 64 ELSE 0)
        /\ Tls(c) => w = 256 /\ e = 0
    BY <1>3
  <2> HIDE DEF a, w, e, t
  <2>3. RankOf(c) \in Nat /\ RankOf(c) <= 2047 /\ RankOf(c) >= 1024
    BY <2>1, <2>2
  <2>4. Alloc(c) <=> RankOf(c) \in 1024 .. 1535
    BY <2>1, <2>2
  <2>5. Tls(c) <=> RankOf(c) = 1280
    BY <1>3, <2>1, <2>2
  <2>6. c # Ehdr /\ c # Shdr
    BY <1>4, Constants
  <2>7. QED
    BY <2>3, <2>4, <2>5, <2>6
<1>5. CASE c \in Headers
  <2>1. RankOf(c) \in {0, 1, 2048} /\ (c = Ehdr <=> RankOf(c) = 0) /\ (c = Shdr <=> RankOf(c) = 2048)
    <3> HIDE DEF a, w, e, t
    <3>1. CASE c = Ehdr
      BY <1>1, <3>1 DEF RankOf
    <3>2. CASE c = Phdr
      BY <1>1, <3>2 DEF RankOf
    <3>3. CASE c = Shdr
      BY <1>1, <3>3 DEF RankOf
    <3>4. QED
      BY <1>1, <1>5, <3>1, <3>2, <3>3
  <2>2. ~Alloc(c) /\ ~Tls(c)
    BY <1>2, <1>3, <1>5
  <2>3. QED
    BY <2>1, <2>2
<1>6. QED
  BY <1>4, <1>5

LEMMA LoadedRanks ==
    ASSUME SectionTypes
    PROVE  \A c \in Ids : Alloc(c) <=> RankOf(c) \in 1024 .. 1535
BY Ranks

LEMMA BeforeOrders ==
    ASSUME SectionTypes, NEW c \in Ids, NEW d \in Ids, NEW e \in Ids
    PROVE  /\ ~Before(c, c)
           /\ Before(c, d) /\ Before(d, e) => Before(c, e)
           /\ c # d => Before(c, d) \/ Before(d, c)
           /\ Before(c, d) => RankOf(c) <= RankOf(d)
<1>1. RankOf(c) \in Nat /\ RankOf(d) \in Nat /\ RankOf(e) \in Nat
  BY Ranks
<1>2. c \in Nat /\ d \in Nat /\ e \in Nat
  BY Constants
<1>3. QED
  BY <1>1, <1>2 DEF Before

\* Sorted has every chunk once, in the order of Before.
LEMMA SortedFacts ==
    ASSUME SectionTypes, NEW S \in SUBSET Ids
    PROVE  /\ Sorted(S) \in Seq(S)
           /\ \A i, j \in DOMAIN Sorted(S) : i < j => Before(Sorted(S)[i], Sorted(S)[j])
           /\ \A c \in S : \E i \in DOMAIN Sorted(S) : Sorted(S)[i] = c
<1> DEFINE N == Cardinality(S)
           r == [i \in 1 .. N |->
                   CHOOSE c \in S : Cardinality({d \in S : Before(d, c)}) = i - 1]
<1>1. IsFiniteSet(S)
  <2>1. IsFiniteSet(1 .. NumNames + 4)
    BY Constants, FS_Interval
  <2>2. QED
    BY <2>1, Constants, FS_Subset
<1>2. PICK below : below = [c \in S |-> {d \in S : Before(d, c)}]
  OBVIOUS
<1>3. below \in [S -> SUBSET S] /\ \A c, d \in S : d \in below[c] <=> Before(d, c)
  BY <1>2
<1>4. /\ \A c \in S : c \notin below[c]
      /\ \A c, d, e \in S : c \in below[d] /\ d \in below[e] => c \in below[e]
      /\ \A c, d \in S : c # d => c \in below[d] \/ d \in below[c]
  BY <1>3, BeforeOrders
<1>5. /\ N \in Nat
      /\ \A c \in S : Cardinality(below[c]) \in 0 .. N - 1
      /\ \A c, d \in S : Cardinality(below[c]) < Cardinality(below[d]) <=> c \in below[d]
      /\ \A c, d \in S : Cardinality(below[c]) = Cardinality(below[d]) => c = d
      /\ \A n \in 0 .. N - 1 : \E c \in S : Cardinality(below[c]) = n
  BY <1>1, <1>3, <1>4, Enumeration
<1>6. \A i \in 1 .. N : r[i] \in S /\ Cardinality(below[r[i]]) = i - 1
  <2> TAKE i \in 1 .. N
  <2>1. \A c \in S : below[c] = {d \in S : Before(d, c)}
    BY <1>2
  <2>2. i - 1 \in 0 .. N - 1
    BY <1>5
  <2>3. \E c \in S : Cardinality(below[c]) = i - 1
    BY <1>5, <2>2
  <2>4. \E c \in S : Cardinality({d \in S : Before(d, c)}) = i - 1
    BY <2>1, <2>3
  <2>5. r[i] \in S /\ Cardinality({d \in S : Before(d, r[i])}) = i - 1
    BY <2>4
  <2>6. QED
    BY <2>1, <2>5
<1>7. Sorted(S) = r /\ r \in [1 .. N -> S] /\ DOMAIN r = 1 .. N
  BY <1>6 DEF Sorted
<1> HIDE DEF N, r
<1>8. r \in Seq(S)
  BY <1>5, <1>7
<1>9. ASSUME NEW i \in 1 .. N, NEW j \in 1 .. N, i < j PROVE Before(r[i], r[j])
  <2>1. Cardinality(below[r[i]]) < Cardinality(below[r[j]])
    BY <1>5, <1>6, <1>9
  <2>2. QED
    BY <1>3, <1>5, <1>6, <2>1
<1>10. ASSUME NEW c \in S PROVE \E i \in 1 .. N : r[i] = c
  <2>1. PICK k \in 0 .. N - 1 : k = Cardinality(below[c])
    BY <1>5
  <2>2. k + 1 \in 1 .. N /\ (k + 1) - 1 = k
    BY <1>5
  <2>3. r[k + 1] \in S /\ Cardinality(below[r[k + 1]]) = Cardinality(below[c])
    BY <1>6, <2>1, <2>2
  <2>4. QED
    BY <1>5, <2>2, <2>3
<1>11. QED
  BY <1>7, <1>8, <1>9, <1>10

-----------------------------------------------------------------------------
(***************************************************************************)
(* The list, and the addresses along it.                                   *)
(***************************************************************************)
LEMMA ListFacts ==
    ASSUME SectionTypes, LoopTypes, ListInv
    PROVE  /\ Len(list) \in Nat /\ DOMAIN list = 1 .. Len(list)
           /\ \A i \in DOMAIN list : list[i] \in Ids
           /\ \A i, j \in DOMAIN list : i < j => Before(list[i], list[j]) \/ ~Alloc(list[j])
           /\ \A i, j \in DOMAIN list : i # j => list[i] # list[j]
           /\ phase # "sort" => 1 \in DOMAIN list /\ list[1] = Ehdr
<1>1. Len(list) \in Nat /\ DOMAIN list = 1 .. Len(list) /\ \A i \in DOMAIN list : list[i] \in Ids
  BY DEF LoopTypes
<1>2. ASSUME NEW i \in DOMAIN list, NEW j \in DOMAIN list, i < j
      PROVE  (Before(list[i], list[j]) \/ ~Alloc(list[j])) /\ list[i] # list[j]
  <2>1. list[i] # SymtabShndx /\ (list[j] = SymtabShndx \/ Before(list[i], list[j]))
    BY <1>2 DEF ListInv
  <2>2. ~Before(list[i], list[i])
    BY <1>1, BeforeOrders
  <2>3. SymtabShndx \in Ids /\ SymtabShndx \notin Names
    BY Constants
  <2>4. ~Alloc(SymtabShndx)
    BY <2>3, ChunkTypes
  <2>5. QED
    BY <2>1, <2>2, <2>4
<1>3. ASSUME NEW i \in DOMAIN list, NEW j \in DOMAIN list, i # j PROVE list[i] # list[j]
  <2>1. i < j \/ j < i
    BY <1>1, <1>3
  <2>2. QED
    BY <1>2, <2>1
<1>4. ASSUME phase # "sort" PROVE 1 \in DOMAIN list /\ list[1] = Ehdr
  <2>1. PICK i \in DOMAIN list : list[i] = Ehdr
    BY <1>1, <1>4 DEF ListInv, InList
  <2>2. 1 \in DOMAIN list /\ (i = 1 \/ 1 < i)
    BY <1>1
  <2>3. ASSUME 1 < i PROVE FALSE
    <3>1. Ehdr # SymtabShndx /\ Ehdr \in Ids
      BY Constants
    <3>2. Before(list[1], Ehdr)
      BY <2>1, <2>2, <2>3, <3>1 DEF ListInv
    <3>3. RankOf(list[1]) \in Nat /\ RankOf(list[1]) <= RankOf(Ehdr) /\ RankOf(Ehdr) = 0
      BY <1>1, <2>2, <3>1, <3>2, Ranks, BeforeOrders
    <3>4. list[1] = Ehdr
      BY <1>1, <2>2, <3>3, Ranks
    <3>5. QED
      BY <3>1, <3>2, <3>4, BeforeOrders
  <2>4. QED
    BY <2>1, <2>2, <2>3
<1>5. QED
  BY <1>1, <1>2, <1>3, <1>4

\* The chunks that are loaded follow each other in the list, and so do the
\* thread-local ones.
LEMMA Contiguous ==
    ASSUME SectionTypes, LoopTypes, ListInv,
           NEW i \in DOMAIN list, NEW j \in DOMAIN list, NEW k \in DOMAIN list,
           i <= j, j <= k
    PROVE  /\ LoadedAt(i) /\ LoadedAt(k) => LoadedAt(j)
           /\ Tls(list[i]) /\ Tls(list[k]) => Tls(list[j])
<1>1. i \in Nat /\ j \in Nat /\ k \in Nat
  BY ListFacts
<1>2. CASE i = j \/ j = k
  BY <1>2
<1>3. CASE i < j /\ j < k
  <2>1. list[i] \in Ids /\ list[j] \in Ids /\ list[k] \in Ids
    BY ListFacts
  <2>2. Before(list[i], list[j])
    <3>1. list[j] # SymtabShndx
      BY <1>3 DEF ListInv
    <3>2. QED
      BY <1>3, <3>1 DEF ListInv
  <2>3. Before(list[j], list[k]) \/ ~Alloc(list[k])
    BY <1>3, ListFacts
  <2>4. Tls(list[k]) => Alloc(list[k])
    BY <2>1, ChunkTypes
  <2>5. /\ RankOf(list[i]) <= RankOf(list[j])
        /\ Alloc(list[k]) => RankOf(list[j]) <= RankOf(list[k])
    BY <2>1, <2>2, <2>3, BeforeOrders
  <2>6. RankOf(list[i]) \in Nat /\ RankOf(list[j]) \in Nat /\ RankOf(list[k]) \in Nat
    BY <2>1, Ranks
  <2>7. LoadedAt(i) /\ LoadedAt(k) => LoadedAt(j)
    <3>1. /\ Alloc(list[i]) <=> RankOf(list[i]) \in 1024 .. 1535
          /\ Alloc(list[j]) <=> RankOf(list[j]) \in 1024 .. 1535
          /\ Alloc(list[k]) <=> RankOf(list[k]) \in 1024 .. 1535
      <4>1. Alloc(list[i]) <=> RankOf(list[i]) \in 1024 .. 1535
        BY <2>1, LoadedRanks
      <4>2. Alloc(list[j]) <=> RankOf(list[j]) \in 1024 .. 1535
        BY <2>1, LoadedRanks
      <4>3. Alloc(list[k]) <=> RankOf(list[k]) \in 1024 .. 1535
        BY <2>1, LoadedRanks
      <4>4. QED
        BY <4>1, <4>2, <4>3
    <3>2. Alloc(list[i]) /\ Alloc(list[k]) => Alloc(list[j])
      BY <2>5, <2>6, <3>1
    <3>3. QED
      BY <3>2 DEF LoadedAt
  <2>8. Tls(list[i]) /\ Tls(list[k]) => Tls(list[j])
    <3>1. \A c \in {list[i], list[j], list[k]} : Tls(c) <=> RankOf(c) = 1280
      BY <2>1, Ranks
    <3>2. QED
      BY <2>4, <2>5, <2>6, <3>1
  <2>9. QED
    BY <2>7, <2>8
<1>4. QED
  BY <1>1, <1>2, <1>3

\* Of two alignments the lesser divides the greater.
LEMMA AlignmentsDivide ==
    ASSUME SectionTypes, NEW c \in Ids, NEW d \in Ids, Alloc(c), Alloc(d),
           AlignOf(c) <= AlignOf(d)
    PROVE  AlignOf(d) % AlignOf(c) = 0
<1>1. c \in DOMAIN section /\ d \in DOMAIN section /\ section[c] \in Shapes /\ section[d] \in Shapes
  BY ChunkTypes
<1>2. AlignOf(c) = section[c].align /\ AlignOf(d) = section[d].align
  BY <1>1 DEF AlignOf
<1>3. QED
  BY <1>1, <1>2, LayoutAssumption

LEMMA AlignmentFacts ==
    ASSUME SectionTypes, LoopTypes, NEW i \in DOMAIN list, LoadedAt(i)
    PROVE  /\ Alignment(list[i]) \in Nat \ {0}
           /\ Alignment(list[i]) % AlignOf(list[i]) = 0
           /\ \A j \in TlsPositions :
                IsFirstTls(list[i]) => Alignment(list[i]) % AlignOf(list[j]) = 0
<1>1. Len(list) \in Nat /\ DOMAIN list = 1 .. Len(list) /\ \A j \in DOMAIN list : list[j] \in Ids
  BY DEF LoopTypes
<1>2. AlignOf(list[i]) \in Nat \ {0} /\ Alloc(list[i])
  BY <1>1, ChunkTypes DEF LoadedAt
<1>3. CASE ~IsFirstTls(list[i])
  <2>1. Alignment(list[i]) = AlignOf(list[i])
    BY <1>3 DEF Alignment
  <2>2. AlignOf(list[i]) % AlignOf(list[i]) = 0
    BY <1>1, <1>2, AlignmentsDivide
  <2>3. QED
    BY <1>2, <1>3, <2>1, <2>2
<1>4. CASE IsFirstTls(list[i])
  <2> DEFINE S == {AlignOf(list[j]) : j \in TlsPositions}
  <2>1. \A j \in TlsPositions : AlignOf(list[j]) \in Nat \ {0} /\ Alloc(list[j])
    BY <1>1, ChunkTypes DEF TlsPositions
  <2>2. \E j \in TlsPositions : list[j] = list[i]
    BY <1>4 DEF IsFirstTls
  <2>3. IsFiniteSet(S)
    <3>1. IsFiniteSet(1 .. Len(list))
      BY <1>1, FS_Interval
    <3>2. IsFiniteSet(TlsPositions)
      BY <3>1, FS_Subset DEF TlsPositions
    <3>3. PICK f : f = [j \in TlsPositions |-> AlignOf(list[j])]
      OBVIOUS
    <3>4. S = {f[j] : j \in TlsPositions} /\ DOMAIN f = TlsPositions
      BY <3>3
    <3> HIDE DEF S
    <3>5. QED
      BY <3>2, <3>4, ImageFinite
  <2>4. S \in SUBSET Nat /\ S # {}
    BY <2>1, <2>2
  <2>5. Max(S) \in S /\ \A n \in S : n <= Max(S)
    <3> HIDE DEF S
    <3>1. QED
      BY <2>3, <2>4, MaxOfFinite
  <2>6. Alignment(list[i]) = Max(S)
    BY <1>4 DEF Alignment
  <2>7. PICK m \in TlsPositions : Max(S) = AlignOf(list[m])
    BY <2>5
  <2>8. \A j \in TlsPositions : AlignOf(list[j]) <= AlignOf(list[m])
    BY <2>5, <2>7
  <2> HIDE DEF S
  <2>9. \A j \in TlsPositions : AlignOf(list[m]) % AlignOf(list[j]) = 0
    BY <1>1, <2>1, <2>8, AlignmentsDivide DEF TlsPositions
  <2>10. QED
    BY <2>1, <2>2, <2>6, <2>7, <2>9
<1>5. QED
  BY <1>3, <1>4

\* Everything known of addresses.
Addressed == SectionTypes /\ LoopTypes /\ SizeTypes /\ PlaceTypes /\ ListInv /\ AddressInv

LEMMA EndTyped ==
    ASSUME Addressed, NEW i \in DOMAIN list, addr[list[i]] # Unplaced
    PROVE  /\ addr[list[i]] \in Nat /\ SizeOf(list[i]) \in Nat
           /\ EndAt(i) = addr[list[i]] + SizeOf(list[i])
           /\ EndAt(i) \in Nat /\ addr[list[i]] <= EndAt(i)
<1>1. list[i] \in Ids
  BY ListFacts DEF Addressed
<1>2. SizeOf(list[i]) \in Nat
  BY <1>1, SizeTyped DEF Addressed
<1>3. addr[list[i]] \in Nat
  BY <1>1 DEF Addressed, PlaceTypes
<1>4. QED
  BY <1>2, <1>3 DEF EndAt

\* A loaded chunk has been given the address that the loop computes there.
LEMMA AddressFacts ==
    ASSUME Addressed, NEW i \in DOMAIN list, LoadedAt(i), addr[list[i]] # Unplaced
    PROVE  /\ PosAt(i) \in Nat /\ StartAt(i) \in Nat /\ addr[list[i]] \in Nat
           /\ PosAt(i) <= StartAt(i) /\ StartAt(i) <= addr[list[i]]
           /\ addr[list[i]] < StartAt(i) + Alignment(list[i])
           /\ addr[list[i]] % Alignment(list[i]) = 0
           /\ addr[list[i]] % AlignOf(list[i]) = 0
           /\ LoadedAt(i - 1) => i - 1 \in DOMAIN list /\ addr[list[i-1]] # Unplaced
<1>1. Len(list) \in Nat /\ DOMAIN list = 1 .. Len(list) /\ list[i] \in Ids
  BY ListFacts DEF Addressed
<1>2. Page \in Nat \ {0} /\ ImageBase \in Nat
  BY Constants
<1>3. ASSUME LoadedAt(i - 1) PROVE i - 1 \in DOMAIN list /\ addr[list[i-1]] # Unplaced
  <2>1. i - 1 \in DOMAIN list /\ i - 1 < i
    BY <1>1, <1>3 DEF LoadedAt
  <2>2. QED
    BY <1>3, <2>1 DEF Addressed, AddressInv
<1>4. PosAt(i) \in Nat
  BY <1>2, <1>3, EndTyped DEF PosAt
<1>5. StartAt(i) \in Nat /\ PosAt(i) <= StartAt(i)
  BY <1>2, <1>4 DEF StartAt
<1>6. Alignment(list[i]) \in Nat \ {0} /\ Alignment(list[i]) % AlignOf(list[i]) = 0
  BY AlignmentFacts DEF Addressed
<1>7. addr[list[i]] = AlignTo(StartAt(i), Alignment(list[i]))
  BY DEF Addressed, AddressInv, ComputedAt
<1>8. PICK n : n = AlignTo(StartAt(i), Alignment(list[i]))
  OBVIOUS
<1>9. n \in Nat /\ StartAt(i) <= n /\ n < StartAt(i) + Alignment(list[i]) /\ n % Alignment(list[i]) = 0
  BY <1>5, <1>6, <1>8, AlignedUp DEF AlignTo
<1>10. AlignOf(list[i]) \in Nat \ {0}
  BY <1>1, ChunkTypes DEF Addressed
<1>11. n % AlignOf(list[i]) = 0
  BY <1>6, <1>9, <1>10, DividesTransitive
<1>12. QED
  BY <1>3, <1>4, <1>5, <1>7, <1>8, <1>9, <1>11

\* A chunk is behind all that are before it in the list.
LEMMA Chain ==
    ASSUME Addressed, NEW i \in DOMAIN list, NEW j \in DOMAIN list, i < j,
           LoadedAt(i), LoadedAt(j), addr[list[j]] # Unplaced
    PROVE  /\ addr[list[i]] # Unplaced
           /\ EndAt(i) <= PosAt(j) /\ PosAt(j) <= addr[list[j]]
<1> DEFINE Reached(k) == k \in DOMAIN list /\ i < k /\ LoadedAt(k) /\ addr[list[k]] # Unplaced
           Done == {n \in Nat : \A k \in 0 .. n : Reached(k) => EndAt(i) <= PosAt(k)}
<1>1. Len(list) \in Nat /\ DOMAIN list = 1 .. Len(list) /\ i \in Nat /\ j \in Nat
  BY ListFacts DEF Addressed
<1>2. addr[list[i]] # Unplaced
  BY DEF Addressed, AddressInv
<1>3. 0 \in Done
  BY <1>1
<1>4. ASSUME NEW n \in Done PROVE n + 1 \in Done
  <2>1. SUFFICES ASSUME Reached(n + 1) PROVE EndAt(i) <= PosAt(n + 1)
    OBVIOUS
  <2>2. n \in Nat /\ n + 1 \in DOMAIN list /\ i < n + 1
    BY <2>1
  <2>3. n \in DOMAIN list /\ i <= n /\ n <= n + 1 /\ (n + 1) - 1 = n
    BY <1>1, <2>2
  <2>4. LoadedAt(n)
    BY <2>1, <2>3, Contiguous DEF Addressed
  <2>5. PosAt(n + 1) = EndAt(n)
    BY <2>3, <2>4 DEF PosAt
  <2>6. CASE i = n
    BY <1>2, <2>5, <2>6, EndTyped
  <2>7. CASE i # n
    <3>1. addr[list[n]] # Unplaced
      BY <2>1, <2>2, <2>3, <2>4 DEF Addressed, AddressInv
    <3>2. Reached(n)
      BY <1>1, <2>3, <2>4, <2>7, <3>1
    <3>3. EndAt(i) <= PosAt(n)
      BY <2>2, <3>2
    <3>4. PosAt(n) \in Nat /\ PosAt(n) <= addr[list[n]] /\ addr[list[n]] <= EndAt(n) /\ EndAt(n) \in Nat
          /\ addr[list[n]] \in Nat
      <4>1. /\ PosAt(n) \in Nat /\ StartAt(n) \in Nat /\ addr[list[n]] \in Nat
            /\ PosAt(n) <= StartAt(n) /\ StartAt(n) <= addr[list[n]]
        BY <2>3, <2>4, <3>1, AddressFacts
      <4>2. addr[list[n]] <= EndAt(n) /\ EndAt(n) \in Nat
        BY <2>3, <3>1, EndTyped
      <4>3. QED
        BY <4>1, <4>2
    <3>5. EndAt(i) \in Nat
      BY <1>2, EndTyped
    <3>6. QED
      BY <2>5, <3>3, <3>4, <3>5
  <2>8. QED
    BY <2>6, <2>7
<1>5. j \in Done
  <2>1. Done \in SUBSET Nat
    OBVIOUS
  <2> HIDE DEF Done
  <2>2. QED
    BY <1>1, <1>3, <1>4, <2>1, Induction
<1>6. EndAt(i) <= PosAt(j)
  BY <1>1, <1>5
<1>7. PosAt(j) <= addr[list[j]]
  <2>1. /\ PosAt(j) \in Nat /\ StartAt(j) \in Nat /\ addr[list[j]] \in Nat
        /\ PosAt(j) <= StartAt(j) /\ StartAt(j) <= addr[list[j]]
    BY AddressFacts
  <2>2. QED
    BY <2>1
<1>8. QED
  BY <1>2, <1>6, <1>7

LEMMA AddressesOrdered ==
    ASSUME Addressed, NEW i \in DOMAIN list, NEW j \in DOMAIN list, i <= j,
           LoadedAt(i), LoadedAt(j), addr[list[j]] # Unplaced
    PROVE  /\ addr[list[i]] \in Nat /\ addr[list[j]] \in Nat
           /\ addr[list[i]] <= addr[list[j]]
<1>1. CASE i = j
  BY <1>1, EndTyped
<1>2. CASE i < j
  <2>1. addr[list[i]] # Unplaced /\ EndAt(i) <= PosAt(j) /\ PosAt(j) <= addr[list[j]]
    BY <1>2, Chain
  <2>2. addr[list[i]] \in Nat /\ EndAt(i) \in Nat /\ addr[list[i]] <= EndAt(i) /\ addr[list[j]] \in Nat
    BY <2>1, EndTyped
  <2>3. PosAt(j) \in Nat
    BY AddressFacts
  <2>4. QED
    BY <2>1, <2>2, <2>3
<1>3. QED
  <2>1. i \in Nat /\ j \in Nat
    BY ListFacts DEF Addressed
  <2>2. QED
    BY <1>1, <1>2, <2>1

\* Where the flags change between two chunks, a new page begins between them.
LEMMA PagesApart ==
    ASSUME Addressed, NEW i \in DOMAIN list, NEW j \in DOMAIN list, i < j,
           LoadedAt(i), LoadedAt(j), addr[list[j]] # Unplaced,
           PhdrFlags(list[i]) # PhdrFlags(list[j]),
           NEW x \in Nat, x < EndAt(i)
    PROVE  x \div Page < addr[list[j]] \div Page
<1> DEFINE Reached(k) == /\ k \in DOMAIN list /\ i < k /\ LoadedAt(k) /\ addr[list[k]] # Unplaced
                         /\ PhdrFlags(list[i]) # PhdrFlags(list[k])
           Done == {n \in Nat : \A k \in 0 .. n :
                      Reached(k) => x \div Page < addr[list[k]] \div Page}
<1>1. Len(list) \in Nat /\ DOMAIN list = 1 .. Len(list) /\ i \in Nat /\ j \in Nat
  BY ListFacts DEF Addressed
<1>2. addr[list[i]] # Unplaced /\ EndAt(i) \in Nat
  BY Chain, EndTyped
<1>3. 0 \in Done
  BY <1>1
<1>4. ASSUME NEW n \in Done PROVE n + 1 \in Done
  <2>1. SUFFICES ASSUME Reached(n + 1)
                 PROVE  x \div Page < addr[list[n + 1]] \div Page
    OBVIOUS
  <2>2. n \in Nat /\ n + 1 \in DOMAIN list /\ i < n + 1
    BY <2>1
  <2>3. n \in DOMAIN list /\ i <= n /\ n <= n + 1 /\ (n + 1) - 1 = n /\ n < n + 1 /\ n + 1 # 1
    BY <1>1, <2>2
  <2>4. LoadedAt(n)
    BY <2>1, <2>3, Contiguous DEF Addressed
  <2>5. PosAt(n + 1) = EndAt(n)
    BY <2>3, <2>4 DEF PosAt
  <2>6. addr[list[n]] # Unplaced
    BY <2>1, <2>2, <2>3, <2>4 DEF Addressed, AddressInv
  <2>7. Page \in Nat \ {0} /\ EndAt(n) \in Nat
    BY <2>3, <2>6, Constants, EndTyped
  <2>8. StartAt(n + 1) <= addr[list[n + 1]] /\ addr[list[n + 1]] \in Nat
    BY <2>1, AddressFacts
  <2>9. CASE PhdrFlags(list[n]) # PhdrFlags(list[n + 1])
    <3>1. StartAt(n + 1) = IF EndAt(n) % Page # 0 THEN EndAt(n) + Page ELSE EndAt(n)
      BY <2>3, <2>5, <2>9 DEF StartAt
    <3>2. x < EndAt(n)
      <4>1. CASE i = n
        BY <4>1
      <4>2. CASE i < n
        <5>1. EndAt(i) <= PosAt(n) /\ PosAt(n) <= addr[list[n]]
          BY <2>3, <2>4, <2>6, <4>2, Chain
        <5>2. addr[list[n]] <= EndAt(n) /\ addr[list[n]] \in Nat
          BY <2>3, <2>6, EndTyped
        <5>3. PosAt(n) \in Nat
          BY <2>3, <2>4, <2>6, AddressFacts
        <5>4. QED
          BY <1>2, <2>7, <5>1, <5>2, <5>3
      <4>3. QED
        BY <1>1, <2>2, <2>3, <4>1, <4>2
    <3>3. PICK v \in Nat : v = EndAt(n)
      BY <2>7
    <3>4. PICK w \in Nat : w = addr[list[n + 1]]
      BY <2>8
    <3>5. (IF v % Page # 0 THEN v + Page ELSE v) <= w /\ x < v
      BY <2>8, <3>1, <3>2, <3>3, <3>4
    <3>6. QED
      BY <2>7, <3>4, <3>5, NextPage
  <2>10. CASE PhdrFlags(list[n]) = PhdrFlags(list[n + 1])
    <3>1. i # n
      BY <2>1, <2>10
    <3>2. Reached(n)
      BY <1>1, <2>1, <2>3, <2>4, <2>6, <2>10, <3>1
    <3>3. x \div Page < addr[list[n]] \div Page
      BY <2>2, <3>2
    <3>4. addr[list[n]] \in Nat /\ addr[list[n]] <= addr[list[n + 1]]
      BY <2>1, <2>3, <2>4, AddressesOrdered
    <3>5. addr[list[n]] \div Page <= addr[list[n + 1]] \div Page
      BY <2>7, <2>8, <3>4, QuotientMonotonic
    <3>6. \A m \in Nat : m \div Page \in Int
      BY <2>7, QuotientTyped
    <3>7. QED
      BY <2>8, <3>3, <3>4, <3>5, <3>6
  <2>11. QED
    BY <2>9, <2>10
<1>5. j \in Done
  <2>1. Done \in SUBSET Nat
    OBVIOUS
  <2> HIDE DEF Done
  <2>2. QED
    BY <1>1, <1>3, <1>4, <2>1, Induction
<1>6. QED
  BY <1>1, <1>5

LEMMA FromBase ==
    ASSUME Addressed, NEW j \in DOMAIN list, LoadedAt(j), addr[list[j]] # Unplaced
    PROVE  ImageBase <= addr[list[j]]
<1> DEFINE Reached(k) == k \in DOMAIN list /\ LoadedAt(k) /\ addr[list[k]] # Unplaced
           Done == {n \in Nat : \A k \in 0 .. n : Reached(k) => ImageBase <= addr[list[k]]}
<1>1. Len(list) \in Nat /\ DOMAIN list = 1 .. Len(list) /\ j \in Nat /\ ImageBase \in Nat
  BY ListFacts, Constants DEF Addressed
<1>2. 0 \in Done
  BY <1>1
<1>3. ASSUME NEW n \in Done PROVE n + 1 \in Done
  <2>1. SUFFICES ASSUME Reached(n + 1) PROVE ImageBase <= addr[list[n + 1]]
    OBVIOUS
  <2>2. n \in Nat /\ (n + 1) - 1 = n
    OBVIOUS
  <2>3. /\ PosAt(n + 1) \in Nat /\ StartAt(n + 1) \in Nat /\ addr[list[n + 1]] \in Nat
        /\ PosAt(n + 1) <= StartAt(n + 1) /\ StartAt(n + 1) <= addr[list[n + 1]]
    BY <2>1, AddressFacts
  <2>4. CASE LoadedAt(n)
    <3>1. n \in DOMAIN list /\ addr[list[n]] # Unplaced
      BY <2>1, <2>2, <2>4, AddressFacts
    <3>2. ImageBase <= addr[list[n]]
      BY <2>2, <2>4, <3>1
    <3>3. addr[list[n]] <= EndAt(n) /\ EndAt(n) \in Nat /\ addr[list[n]] \in Nat
      BY <3>1, EndTyped
    <3>4. PosAt(n + 1) = EndAt(n)
      BY <2>2, <2>4 DEF PosAt
    <3>5. QED
      BY <1>1, <2>3, <3>2, <3>3, <3>4
  <2>5. CASE ~LoadedAt(n)
    <3>1. PosAt(n + 1) = ImageBase
      BY <2>2, <2>5 DEF PosAt
    <3>2. QED
      BY <2>3, <3>1
  <2>6. QED
    BY <2>4, <2>5
<1>4. j \in Done
  <2>1. Done \in SUBSET Nat
    OBVIOUS
  <2> HIDE DEF Done
  <2>2. QED
    BY <1>1, <1>2, <1>3, <2>1, Induction
<1>5. QED
  BY <1>1, <1>4

\* The pages of two chunks of which the flags are different.
LEMMA PagesDisjoint ==
    ASSUME Addressed, NEW i \in DOMAIN list, NEW j \in DOMAIN list, i < j,
           LoadedAt(i), LoadedAt(j), addr[list[j]] # Unplaced,
           PhdrFlags(list[i]) # PhdrFlags(list[j])
    PROVE  PagesOf(list[i]) \intersect PagesOf(list[j]) = {}
<1>1. addr[list[i]] # Unplaced
  BY Chain
<1>2. PICK v \in Nat, s \in Nat : v = addr[list[i]] /\ s = SizeOf(list[i]) /\ EndAt(i) = v + s
  BY <1>1, EndTyped
<1>3. PICK w \in Nat, t \in Nat : w = addr[list[j]] /\ t = SizeOf(list[j])
  BY EndTyped
<1>4. CASE s = 0
  BY <1>2, <1>4 DEF PagesOf
<1>5. CASE t = 0
  BY <1>3, <1>5 DEF PagesOf
<1>6. CASE s # 0 /\ t # 0
  <2>1. PICK x \in Nat : x = v + s - 1
    BY <1>6
  <2>2. x \div Page < w \div Page
    BY <1>2, <1>3, <2>1, PagesApart
  <2>3. /\ PagesOf(list[i]) = (v \div Page) .. (x \div Page)
        /\ PagesOf(list[j]) = (w \div Page) .. ((w + t - 1) \div Page)
    BY <1>2, <1>3, <1>6, <2>1 DEF PagesOf
  <2>4. x \div Page \in Int /\ w \div Page \in Int
    BY Constants, QuotientTyped
  <2>5. ASSUME NEW p, p \in PagesOf(list[i]), p \in PagesOf(list[j]) PROVE FALSE
    <3>1. p \in Int /\ p <= x \div Page /\ w \div Page <= p
      BY <2>3, <2>5
    <3>2. QED
      BY <2>2, <2>4, <3>1
  <2>6. QED
    BY <2>5
<1>7. QED
  BY <1>4, <1>5, <1>6

LEMMA Positions ==
    ASSUME LoopTypes, NEW c \in InList
    PROVE  \E i \in DOMAIN list : list[i] = c
BY DEF LoopTypes, InList

LEMMA ElementsListed ==
    ASSUME LoopTypes
    PROVE  \A i \in DOMAIN list : list[i] \in InList
<1>1. DOMAIN list = 1 .. Len(list)
  BY DEF LoopTypes
<1>2. QED
  BY <1>1 DEF InList

LEMMA Separation ==
    ASSUME Addressed, phase \notin {"sort", "headers", "indices", "addresses"}
    PROVE  /\ \A c \in Loaded : addr[c] \in Nat /\ addr[c] >= ImageBase /\ addr[c] % AlignOf(c) = 0
           /\ \A p \in LoadedPairs :
                /\ \/ addr[p[1]] + SizeOf(p[1]) <= addr[p[2]]
                   \/ addr[p[2]] + SizeOf(p[2]) <= addr[p[1]]
                /\ PhdrFlags(p[1]) # PhdrFlags(p[2]) => PagesOf(p[1]) \intersect PagesOf(p[2]) = {}
<1>1. \A i \in DOMAIN list : LoadedAt(i) => addr[list[i]] # Unplaced
  <2> TAKE i \in DOMAIN list
  <2>1. phase # "headers" /\ phase # "indices" /\ phase # "addresses"
    OBVIOUS
  <2>2. QED
    BY <2>1 DEF Addressed, AddressInv
<1>2. ASSUME NEW c \in Loaded
      PROVE  \E i \in DOMAIN list : list[i] = c /\ LoadedAt(i) /\ addr[list[i]] # Unplaced
  <2>1. PICK i \in DOMAIN list : list[i] = c
    BY Positions DEF Loaded, Addressed
  <2>2. LoadedAt(i)
    BY <2>1 DEF Loaded, LoadedAt
  <2>3. QED
    BY <1>1, <2>1, <2>2
<1>3. ASSUME NEW c \in Loaded
      PROVE  addr[c] \in Nat /\ addr[c] >= ImageBase /\ addr[c] % AlignOf(c) = 0
  <2>1. PICK i \in DOMAIN list : list[i] = c /\ LoadedAt(i) /\ addr[list[i]] # Unplaced
    BY <1>2
  <2>2. addr[c] \in Nat /\ addr[c] % AlignOf(c) = 0
    BY <2>1, AddressFacts
  <2>3. ImageBase <= addr[c]
    BY <2>1, FromBase
  <2>4. QED
    BY <2>2, <2>3, Constants
<1>4. ASSUME NEW i \in DOMAIN list, NEW j \in DOMAIN list, i < j, LoadedAt(i), LoadedAt(j)
      PROVE  /\ addr[list[i]] + SizeOf(list[i]) <= addr[list[j]]
             /\ PhdrFlags(list[i]) # PhdrFlags(list[j]) =>
                  PagesOf(list[i]) \intersect PagesOf(list[j]) = {}
  <2>1. addr[list[i]] # Unplaced /\ addr[list[j]] # Unplaced
    BY <1>1, <1>4
  <2>2. EndAt(i) <= PosAt(j) /\ PosAt(j) <= addr[list[j]] /\ PosAt(j) \in Nat
    BY <1>4, <2>1, Chain, AddressFacts
  <2>3. EndAt(i) = addr[list[i]] + SizeOf(list[i]) /\ EndAt(i) \in Nat /\ addr[list[j]] \in Nat
    BY <2>1, EndTyped
  <2>4. addr[list[i]] + SizeOf(list[i]) <= addr[list[j]]
    BY <2>2, <2>3
  <2>5. QED
    BY <1>4, <2>1, <2>4, PagesDisjoint
<1>5. ASSUME NEW p \in LoadedPairs
      PROVE  /\ \/ addr[p[1]] + SizeOf(p[1]) <= addr[p[2]]
                \/ addr[p[2]] + SizeOf(p[2]) <= addr[p[1]]
             /\ PhdrFlags(p[1]) # PhdrFlags(p[2]) => PagesOf(p[1]) \intersect PagesOf(p[2]) = {}
  <2>1. p[1] \in Loaded /\ p[2] \in Loaded /\ p[1] # p[2]
    BY DEF LoadedPairs
  <2>2. PICK i \in DOMAIN list : list[i] = p[1] /\ LoadedAt(i)
    BY <1>2, <2>1
  <2>3. PICK j \in DOMAIN list : list[j] = p[2] /\ LoadedAt(j)
    BY <1>2, <2>1
  <2>4. i < j \/ j < i
    <3>1. i \in Nat /\ j \in Nat
      BY ListFacts DEF Addressed
    <3>2. QED
      BY <2>1, <2>2, <2>3, <3>1
  <2>5. CASE i < j
    BY <1>4, <2>2, <2>3, <2>5
  <2>6. CASE j < i
    BY <1>4, <2>2, <2>3, <2>6
  <2>7. QED
    BY <2>4, <2>5, <2>6
<1>6. QED
  BY <1>3, <1>5

-----------------------------------------------------------------------------
(***************************************************************************)
(* Offsets in the file.                                                    *)
(***************************************************************************)
Filed == SectionTypes /\ LoopTypes /\ SizeTypes /\ PlaceTypes /\ ListInv /\ OffsetInv

LEMMA FileFacts ==
    ASSUME Filed, NEW i \in DOMAIN list, Written(i)
    PROVE  /\ offset[list[i]] \in Nat /\ SizeOf(list[i]) \in Nat
           /\ FileEndAt(i) = offset[list[i]] + SizeOf(list[i]) /\ FileEndAt(i) \in Nat
           /\ \A j \in DOMAIN list : j <= i => Written(j)
<1>1. list[i] \in Ids /\ DOMAIN list = 1 .. Len(list) /\ Len(list) \in Nat
  BY ListFacts DEF Filed
<1>2. SizeOf(list[i]) \in Nat
  BY <1>1, SizeTyped DEF Filed
<1>3. offset[list[i]] # Unplaced
  BY DEF Filed, OffsetInv
<1>4. offset[list[i]] \in Nat
  BY <1>1, <1>3 DEF Filed, PlaceTypes
<1>5. ASSUME NEW j \in DOMAIN list, j <= i PROVE Written(j)
  <2>1. CASE phase = "offsets"
    <3>1. i < at
      BY <2>1 DEF Written
    <3>2. at \in Nat /\ i \in Nat /\ j \in Nat
      BY <1>1 DEF Filed, LoopTypes
    <3>3. QED
      BY <1>5, <2>1, <3>1, <3>2 DEF Written
  <2>2. CASE phase # "offsets"
    BY <2>2 DEF Written
  <2>3. QED
    BY <2>1, <2>2
<1>6. QED
  BY <1>2, <1>4, <1>5 DEF FileEndAt

\* In the file, too, a chunk is behind all that are before it in the list.
LEMMA FileChain ==
    ASSUME Filed, NEW i \in DOMAIN list, NEW j \in DOMAIN list, i < j, Written(j)
    PROVE  FileEndAt(i) <= offset[list[j]]
<1> DEFINE Reached(k) == k \in DOMAIN list /\ i < k /\ Written(k)
           Done == {n \in Nat : \A k \in 0 .. n : Reached(k) => FileEndAt(i) <= offset[list[k]]}
<1>1. Len(list) \in Nat /\ DOMAIN list = 1 .. Len(list) /\ i \in Nat /\ j \in Nat
  BY ListFacts DEF Filed
<1>2. Written(i) /\ FileEndAt(i) \in Nat
  BY <1>1, FileFacts
<1>3. 0 \in Done
  BY <1>1
<1>4. ASSUME NEW n \in Done PROVE n + 1 \in Done
  <2>1. SUFFICES ASSUME Reached(n + 1) PROVE FileEndAt(i) <= offset[list[n + 1]]
    OBVIOUS
  <2>2. n \in Nat /\ n + 1 \in DOMAIN list /\ i < n + 1
    BY <2>1
  <2>3. n \in DOMAIN list /\ i <= n /\ n <= n + 1 /\ (n + 1) - 1 = n /\ n + 1 > 1
    BY <1>1, <2>2
  <2>4. FileEndAt(n) <= offset[list[n + 1]]
    <3>1. FileEndAt((n + 1) - 1) <= offset[list[n + 1]]
      BY <2>1, <2>2, <2>3 DEF Filed, OffsetInv
    <3>2. QED
      BY <2>3, <3>1
  <2>5. CASE i = n
    BY <2>4, <2>5
  <2>6. CASE i # n
    <3>1. Written(n) /\ offset[list[n + 1]] \in Nat
      BY <2>1, <2>2, <2>3, FileFacts
    <3>2. Reached(n)
      BY <1>1, <2>3, <2>6, <3>1
    <3>3. FileEndAt(i) <= offset[list[n]]
      BY <2>2, <3>2
    <3>4. /\ offset[list[n]] \in Nat /\ SizeOf(list[n]) \in Nat
          /\ FileEndAt(n) = offset[list[n]] + SizeOf(list[n])
      BY <2>3, <3>1, FileFacts
    <3>5. QED
      BY <1>2, <2>4, <3>1, <3>3, <3>4
  <2>7. QED
    BY <2>5, <2>6
<1>5. j \in Done
  <2>1. Done \in SUBSET Nat
    OBVIOUS
  <2> HIDE DEF Done
  <2>2. QED
    BY <1>1, <1>3, <1>4, <2>1, Induction
<1>6. QED
  BY <1>1, <1>5

LEMMA FileLaidOut ==
    ASSUME Filed
    PROVE  FileDisjoint /\ Congruent
<1> USE DEF Filed
<1>1. ASSUME phase = "done"
      PROVE  /\ offset[Ehdr] = 0
             /\ \A c \in InList : offset[c] + SizeOf(c) <= FileSize
             /\ \A p \in InList \X InList : p[1] # p[2] =>
                 \/ offset[p[1]] + SizeOf(p[1]) <= offset[p[2]]
                 \/ offset[p[2]] + SizeOf(p[2]) <= offset[p[1]]
  <2>1. Len(list) \in Nat /\ DOMAIN list = 1 .. Len(list) /\ 1 \in DOMAIN list /\ list[1] = Ehdr
    BY <1>1, ListFacts
  <2>2. \A i \in DOMAIN list : Written(i)
    BY <1>1 DEF Written
  <2>3. offset[Ehdr] = 0
    BY <2>1, <2>2 DEF OffsetInv
  <2>4. ASSUME NEW c \in InList PROVE offset[c] + SizeOf(c) <= FileSize
    <3>1. PICK i \in DOMAIN list : list[i] = c
      BY Positions
    <3>2. Len(list) \in DOMAIN list
      BY <2>1
    <3>3. FileSize = FileEndAt(Len(list)) /\ offset[c] + SizeOf(c) = FileEndAt(i)
      BY <3>1 DEF FileSize, FileEndAt
    <3>4. FileEndAt(i) \in Nat
      BY <2>2, FileFacts
    <3>5. CASE i = Len(list)
      BY <3>3, <3>4, <3>5
    <3>6. CASE i < Len(list)
      <4>1. FileEndAt(i) <= offset[list[Len(list)]]
        BY <2>2, <3>2, <3>6, FileChain
      <4>2. /\ offset[list[Len(list)]] \in Nat /\ SizeOf(list[Len(list)]) \in Nat
            /\ FileEndAt(Len(list)) = offset[list[Len(list)]] + SizeOf(list[Len(list)])
        BY <2>2, <3>2, FileFacts
      <4>3. QED
        BY <3>3, <3>4, <4>1, <4>2
    <3>7. QED
      BY <2>1, <3>5, <3>6
  <2>5. ASSUME NEW p \in InList \X InList, p[1] # p[2]
        PROVE  \/ offset[p[1]] + SizeOf(p[1]) <= offset[p[2]]
               \/ offset[p[2]] + SizeOf(p[2]) <= offset[p[1]]
    <3>1. PICK i \in DOMAIN list : list[i] = p[1]
      BY Positions
    <3>2. PICK j \in DOMAIN list : list[j] = p[2]
      BY Positions
    <3>3. i < j \/ j < i
      BY <2>1, <2>5, <3>1, <3>2
    <3>4. /\ i < j => FileEndAt(i) <= offset[list[j]]
          /\ j < i => FileEndAt(j) <= offset[list[i]]
      BY <2>2, FileChain
    <3>5. QED
      BY <3>1, <3>2, <3>3, <3>4 DEF FileEndAt
  <2>6. QED
    BY <2>3, <2>4, <2>5
<1>2. ASSUME phase \in {"program headers", "symbols", "done"}, NEW c \in Loaded
      PROVE  offset[c] % Page = addr[c] % Page
  <2>1. PICK i \in DOMAIN list : list[i] = c
    BY Positions DEF Loaded
  <2>2. LoadedAt(i) /\ Written(i)
    BY <1>2, <2>1 DEF LoadedAt, Written, Loaded
  <2>3. QED
    BY <2>1, <2>2 DEF OffsetInv
<1>3. QED
  BY <1>1, <1>2 DEF FileDisjoint, Congruent

-----------------------------------------------------------------------------
(***************************************************************************)
(* Thread-local sections.                                                  *)
(***************************************************************************)
\* The address of the first thread-local section is aligned for all of them.
LEMMA TlsStart ==
    ASSUME Addressed, NEW i \in DOMAIN list, NEW j \in DOMAIN list,
           Tls(list[i]), Tls(list[j]), IsFirstTls(list[i]), addr[list[i]] # Unplaced
    PROVE  addr[list[i]] \in Nat /\ addr[list[i]] % AlignOf(list[j]) = 0
<1>1. list[i] \in Ids /\ list[j] \in Ids /\ DOMAIN list = 1 .. Len(list)
  BY ListFacts DEF Addressed
<1>2. LoadedAt(i) /\ j \in TlsPositions
  BY <1>1, ChunkTypes DEF Addressed, LoadedAt, TlsPositions
<1>3. addr[list[i]] \in Nat /\ addr[list[i]] % Alignment(list[i]) = 0
  BY <1>2, AddressFacts
<1>4. Alignment(list[i]) \in Nat \ {0} /\ Alignment(list[i]) % AlignOf(list[j]) = 0
  BY <1>2, AlignmentFacts DEF Addressed
<1>5. AlignOf(list[j]) \in Nat \ {0}
  BY <1>1, ChunkTypes DEF Addressed
<1>6. QED
  BY <1>3, <1>4, <1>5, DividesTransitive

LEMMA DifferenceDivides ==
    ASSUME NEW m \in Int, NEW n \in Int, NEW a \in Nat \ {0}, m % a = 0, n % a = 0
    PROVE  (m - n) % a = 0
<1>1. PICK p \in Int : m = p * a
  BY DivisionFacts
<1>2. PICK q \in Int : n = q * a
  BY DivisionFacts
<1>3. PICK d \in Int : d = p - q
  OBVIOUS
<1>4. m - n = d * a
  BY <1>1, <1>2, <1>3
<1>5. QED
  BY <1>4, MultipleDivides

LEMMA TlsOffsets ==
    ASSUME Addressed, phase \notin {"sort", "headers", "indices", "addresses"},
           NEW c \in Loaded, NEW first \in Loaded, Tls(c), Tls(first), IsFirstTls(first)
    PROVE  (addr[c] - addr[first]) % AlignOf(c) = 0
<1>1. PICK i \in DOMAIN list : list[i] = first
  BY Positions DEF Loaded, Addressed
<1>2. PICK j \in DOMAIN list : list[j] = c
  BY Positions DEF Loaded, Addressed
<1>3. addr[c] \in Nat /\ addr[c] % AlignOf(c) = 0 /\ addr[first] \in Nat
  BY Separation
<1>4. addr[first] # Unplaced
  BY <1>3 DEF Unplaced
<1>5. addr[first] % AlignOf(c) = 0
  BY <1>1, <1>2, <1>4, TlsStart
<1>6. AlignOf(c) \in Nat \ {0}
  BY <1>2, ListFacts, ChunkTypes DEF Addressed
<1>7. QED
  BY <1>3, <1>5, <1>6, DifferenceDivides

-----------------------------------------------------------------------------
(***************************************************************************)
(* The program headers.                                                    *)
(***************************************************************************)
\* The recursive function of Loads exists, and it is the function that is chosen.
LEMMA StartExists ==
    ASSUME NEW order, NEW n \in Nat
    PROVE  \E f : f = [i \in 1 .. n |->
                         IF i > 1 /\ Joins(order[f[i-1]], order[i]) THEN f[i-1] ELSE i]
<1> DEFINE Good(f, k) == \A i \in 1 .. k :
             /\ f[i] = (IF i > 1 /\ Joins(order[f[i-1]], order[i]) THEN f[i-1] ELSE i)
             /\ f[i] \in 1 .. i
           Done == {k \in Nat : \E f \in [1 .. k -> Nat] : Good(f, k)}
<1>1. 0 \in Done
  <2>1. [i \in 1 .. 0 |-> 0] \in [1 .. 0 -> Nat] /\ Good([i \in 1 .. 0 |-> 0], 0)
    OBVIOUS
  <2>2. QED
    BY <2>1
<1>2. ASSUME NEW k \in Done PROVE k + 1 \in Done
  <2>1. PICK f \in [1 .. k -> Nat] : Good(f, k)
    OBVIOUS
  <2>2. k \in Nat
    OBVIOUS
  <2> DEFINE last == IF k + 1 > 1 /\ Joins(order[f[k]], order[k + 1]) THEN f[k] ELSE k + 1
             g == [i \in 1 .. k + 1 |-> IF i = k + 1 THEN last ELSE f[i]]
  <2>3. last \in 1 .. k + 1
    <3>1. k >= 1 => f[k] \in 1 .. k
      BY <2>1, <2>2
    <3>2. QED
      BY <2>2, <3>1
  <2> HIDE DEF last
  <2>4. g \in [1 .. k + 1 -> Nat]
    BY <2>2, <2>3
  <2>5. g[k + 1] = last /\ (\A i \in 1 .. k : g[i] = f[i])
    BY <2>2
  <2>6. ASSUME NEW i \in 1 .. k + 1
        PROVE  /\ g[i] = (IF i > 1 /\ Joins(order[g[i-1]], order[i]) THEN g[i-1] ELSE i)
               /\ g[i] \in 1 .. i
    <3>1. CASE i = k + 1
      <4>1. i > 1 => i - 1 = k /\ g[k] = f[k]
        BY <2>2, <2>5, <3>1
      <4>2. g[i] = last
        BY <2>5, <3>1
      <4> HIDE DEF g
      <4>3. QED
        BY <2>3, <3>1, <4>1, <4>2 DEF last
    <3>2. CASE i \in 1 .. k
      <4>1. i > 1 => i - 1 \in 1 .. k
        BY <2>2, <3>2
      <4>2. g[i] = f[i] /\ (i > 1 => g[i-1] = f[i-1])
        BY <2>5, <3>2, <4>1
      <4> HIDE DEF g
      <4>3. QED
        BY <2>1, <3>2, <4>2
    <3>3. QED
      BY <2>2, <3>1, <3>2
  <2> HIDE DEF g
  <2>7. Good(g, k + 1) /\ k + 1 \in Nat
    BY <2>2, <2>6
  <2> HIDE DEF Good
  <2>8. QED
    BY <2>4, <2>7
<1>3. n \in Done
  <2>1. Done \in SUBSET Nat
    OBVIOUS
  <2> HIDE DEF Done
  <2>2. QED
    BY <1>1, <1>2, <2>1, Induction
<1>4. PICK f \in [1 .. n -> Nat] : Good(f, n)
  BY <1>3
<1>5. f = [i \in 1 .. n |-> IF i > 1 /\ Joins(order[f[i-1]], order[i]) THEN f[i-1] ELSE i]
  BY <1>4
<1>6. QED
  BY <1>5

\* A PT_LOAD begins before it ends.
LEMMA StartBefore ==
    ASSUME NEW order, NEW n \in Nat, NEW f,
           f = [i \in 1 .. n |->
                  IF i > 1 /\ Joins(order[f[i-1]], order[i]) THEN f[i-1] ELSE i]
    PROVE  \A i \in 1 .. n : f[i] \in 1 .. i
<1> DEFINE Done == {k \in Nat : \A i \in 1 .. k : i <= n => f[i] \in 1 .. i}
<1>1. 0 \in Done
  OBVIOUS
<1>2. ASSUME NEW k \in Done PROVE k + 1 \in Done
  <2>1. k \in Nat /\ \A i \in 1 .. k : i <= n => f[i] \in 1 .. i
    OBVIOUS
  <2>2. ASSUME k + 1 <= n PROVE f[k + 1] \in 1 .. k + 1
    <3>1. k + 1 \in 1 .. n /\ (k + 1) - 1 = k /\ (k + 1 > 1 => k \in 1 .. k /\ k <= n)
      BY <2>1, <2>2
    <3>2. f[k + 1] = k + 1 \/ (k + 1 > 1 /\ f[k + 1] = f[k])
      BY <3>1
    <3>3. QED
      BY <2>1, <3>1, <3>2
  <2>3. QED
    BY <2>1, <2>2
<1>3. Done = Nat
  <2>1. Done \in SUBSET Nat
    OBVIOUS
  <2> HIDE DEF Done
  <2>2. QED
    BY <1>1, <1>2, <2>1, Induction
<1>4. ASSUME NEW i \in 1 .. n PROVE f[i] \in 1 .. i
  <2>1. i \in Done /\ i \in 1 .. i /\ i <= n
    BY <1>3
  <2>2. QED
    BY <2>1
<1>5. QED
  BY <1>4

\* A PT_LOAD or PT_TLS of the chunks from position a to b.
LEMMA SegmentTyped ==
    ASSUME SectionTypes, SizeTypes, PlaceTypes, NEW order \in Seq(Ids),
           NEW a \in 1 .. Len(order), NEW b \in 1 .. Len(order), a <= b,
           AddrOf(order[a]) <= AddrOf(order[b]),
           NEW type \in {"load", "tls"}, NEW flags \in SUBSET Flags,
           NEW s, s = Segment(type, flags, SubSeq(order, a, b))
    PROVE  /\ s \in SegmentType /\ s.type = type /\ s.vaddr = AddrOf(order[a])
           /\ \A k \in a .. b : s.align >= AlignOf(order[k])
           /\ type = "tls" => \E k \in a .. b : s.align = AlignOf(order[k])
<1> DEFINE chunks == SubSeq(order, a, b)
           n == b - a + 1
           aligns == {AlignOf(chunks[i]) : i \in DOMAIN chunks}
                     \union (IF type = "load" THEN {Page} ELSE {})
<1>1. n \in Nat \ {0} /\ a \in Nat /\ b \in Nat /\ a \in 1 .. Len(order)
  OBVIOUS
<1>2. /\ chunks \in Seq(Ids) /\ Len(chunks) = n /\ DOMAIN chunks = 1 .. n
      /\ \A i \in 1 .. n : chunks[i] = order[i + a - 1]
  <2>1. PICK A : A = Ids
    OBVIOUS
  <2>2. order \in Seq(A)
    BY <2>1
  <2> HIDE <2>1
  <2>3. /\ chunks \in Seq(A) /\ Len(chunks) = b - a + 1 /\ DOMAIN chunks = 1 .. b - a + 1
        /\ \A i \in 1 .. b - a + 1 : chunks[i] = order[i + a - 1]
    BY <2>2, SubSeqFacts
  <2>4. QED
    BY <2>1, <2>3
<1> HIDE DEF chunks
<1>3. chunks[1] = order[a] /\ chunks[Len(chunks)] = order[b] /\ order[a] \in Ids /\ order[b] \in Ids
  BY <1>1, <1>2
<1>4. \A i \in DOMAIN chunks : AlignOf(chunks[i]) \in Nat \ {0}
  <2>1. \A i \in DOMAIN chunks : chunks[i] \in Ids
    BY <1>2
  <2>2. QED
    BY <2>1, ChunkTypes, Zenon
<1>5. aligns \in SUBSET Nat /\ aligns # {}
  <2>1. 1 \in DOMAIN chunks /\ Page \in Nat
    BY <1>1, <1>2, Constants
  <2>2. QED
    BY <1>4, <2>1
<1>6. IsFiniteSet(aligns)
  <2>1. PICK f : f = [i \in DOMAIN chunks |-> AlignOf(chunks[i])]
    OBVIOUS
  <2>2. PICK T : T = {AlignOf(chunks[i]) : i \in DOMAIN chunks}
    OBVIOUS
  <2>3. T = {f[i] : i \in DOMAIN chunks} /\ DOMAIN f = DOMAIN chunks
    BY <2>1, <2>2
  <2>4. IsFiniteSet(DOMAIN chunks)
    <3>1. 1 \in Int /\ n \in Int /\ DOMAIN chunks = 1 .. n
      BY <1>1, <1>2
    <3> HIDE DEF n
    <3>2. IsFiniteSet(1 .. n)
      BY <3>1, FS_Interval, Zenon
    <3>3. QED
      BY <3>1, <3>2, Zenon
  <2>5. IsFiniteSet(T)
    BY <2>3, <2>4, ImageFinite
  <2>6. IsFiniteSet(IF type = "load" THEN {Page} ELSE {})
    BY FS_Singleton, FS_EmptySet
  <2>7. QED
    BY <2>2, <2>5, <2>6, FS_Union
<1>7. Max(aligns) \in aligns /\ \A m \in aligns : m <= Max(aligns)
  <2> HIDE DEF aligns
  <2>1. QED
    BY <1>5, <1>6, MaxOfFinite
<1>8. AddrOf(order[a]) \in Nat /\ AddrOf(order[b]) \in Nat /\ SizeOf(order[b]) \in Nat
      /\ offset[order[a]] \in Nat \union {Unplaced}
  BY <1>3, SizeTyped DEF AddrOf, PlaceTypes
<1>9. s = [type |-> type, flags |-> flags, vaddr |-> AddrOf(order[a]), offset |-> offset[order[a]],
           memsz |-> AddrOf(order[b]) + SizeOf(order[b]) - AddrOf(order[a]),
           align |-> Max(aligns)]
  BY <1>3 DEF Segment, chunks
<1>10. AddrOf(order[b]) + SizeOf(order[b]) - AddrOf(order[a]) \in Nat
  BY <1>8
<1>11. s \in SegmentType /\ s.type = type /\ s.vaddr = AddrOf(order[a]) /\ s.align = Max(aligns)
  <2>1. Max(aligns) \in Nat
    BY <1>5, <1>7
  <2> HIDE DEF aligns
  <2>2. QED
    BY <1>8, <1>9, <1>10, <2>1 DEF SegmentType
<1>12. \A k \in a .. b : AlignOf(order[k]) \in aligns
  <2> TAKE k \in a .. b
  <2>1. PICK i \in 1 .. n : i + a - 1 = k
    <3>1. k - a + 1 \in 1 .. n /\ (k - a + 1) + a - 1 = k
      BY <1>1
    <3>2. QED
      BY <3>1
  <2>2. QED
    BY <1>2, <2>1
<1>13. ASSUME type = "tls" PROVE \E k \in a .. b : s.align = AlignOf(order[k])
  <2>1. PICK i \in 1 .. n : Max(aligns) = AlignOf(chunks[i])
    BY <1>2, <1>7, <1>13
  <2>2. i + a - 1 \in a .. b /\ chunks[i] = order[i + a - 1]
    BY <1>1, <1>2
  <2>3. QED
    BY <1>11, <2>1, <2>2
<1>14. \A k \in a .. b : s.align >= AlignOf(order[k])
  <2>1. Max(aligns) \in Nat /\ aligns \in SUBSET Nat
    BY <1>5, <1>7
  <2> HIDE DEF aligns
  <2>2. QED
    BY <1>7, <1>11, <1>12, <2>1
<1>15. QED
  BY <1>11, <1>13, <1>14

LEMMA LoadsTyped ==
    ASSUME SectionTypes, SizeTypes, PlaceTypes, NEW order \in Seq(Ids),
           \A i, j \in 1 .. Len(order) : i <= j => AddrOf(order[i]) <= AddrOf(order[j])
    PROVE  /\ IsFiniteSet(Loads(order))
           /\ \A s \in Loads(order) : s \in SegmentType /\ s.type = "load"
<1>0. PICK n \in Nat : n = Len(order)
  OBVIOUS
<1>1. PICK f : f = CHOOSE g : g = [i \in 1 .. n |->
                  IF i > 1 /\ Joins(order[g[i-1]], order[i]) THEN g[i-1] ELSE i]
  OBVIOUS
<1>2. f = [i \in 1 .. n |-> IF i > 1 /\ Joins(order[f[i-1]], order[i]) THEN f[i-1] ELSE i]
  <2>1. \E g : g = [i \in 1 .. n |->
                  IF i > 1 /\ Joins(order[g[i-1]], order[i]) THEN g[i-1] ELSE i]
    BY StartExists, Zenon
  <2>2. QED
    BY <1>1, <2>1, Zenon
<1>3. \A i \in 1 .. n : f[i] \in 1 .. i
  <2>1. PICK m \in Nat : m = n
    BY <1>0
  <2>2. f = [i \in 1 .. m |-> IF i > 1 /\ Joins(order[f[i-1]], order[i]) THEN f[i-1] ELSE i]
    BY <1>2, <2>1, Zenon
  <2>3. \A i \in 1 .. m : f[i] \in 1 .. i
    BY <2>2, StartBefore, Zenon
  <2>4. QED
    BY <2>1, <2>3, Zenon
<1>4. \A i \in 1 .. n : order[i] \in Ids
  BY <1>0
<1> DEFINE ends == {j \in 1 .. n : j = n \/ f[j+1] # f[j]}
           seg == [j \in ends |-> Segment("load", PhdrFlags(order[j]), SubSeq(order, f[j], j))]
<1>5. Loads(order) = {Segment("load", PhdrFlags(order[j]), SubSeq(order, f[j], j)) : j \in ends}
  BY <1>0, <1>1 DEF Loads
<1>6. Loads(order) = {seg[j] : j \in DOMAIN seg} /\ DOMAIN seg = ends
  BY <1>5
<1>7. IsFiniteSet(ends)
  <2>1. IsFiniteSet(1 .. n)
    BY FS_Interval
  <2>2. QED
    BY <2>1, FS_Subset
<1>8. IsFiniteSet(Loads(order))
  <2> HIDE DEF seg, ends
  <2>1. QED
    BY <1>6, <1>7, ImageFinite
<1>9. ASSUME NEW s \in Loads(order) PROVE s \in SegmentType /\ s.type = "load"
  <2>1. PICK j \in 1 .. n : s = Segment("load", PhdrFlags(order[j]), SubSeq(order, f[j], j))
    BY <1>5
  <2>2. f[j] \in 1 .. Len(order) /\ j \in 1 .. Len(order) /\ f[j] <= j
    BY <1>0, <1>3
  <2>3. AddrOf(order[f[j]]) <= AddrOf(order[j])
    BY <1>0, <2>2
  <2>4. PhdrFlags(order[j]) \in SUBSET Flags
    BY <1>4, ChunkTypes
  <2>5. QED
    BY <2>1, <2>2, <2>3, <2>4, SegmentTyped
<1>10. QED
  BY <1>8, <1>9

LEMMA AddrOfOrdered ==
    ASSUME Addressed, phase # "addresses",
           NEW i \in DOMAIN list, NEW j \in DOMAIN list, i <= j, LoadedAt(i), LoadedAt(j)
    PROVE  AddrOf(list[i]) <= AddrOf(list[j])
<1>1. list[i] \in Ids /\ list[j] \in Ids
  BY ListFacts DEF Addressed
<1>2. CASE phase \in {"sort", "headers", "indices"}
  <2>1. addr[list[i]] = Unplaced /\ addr[list[j]] = Unplaced
    BY <1>1, <1>2 DEF Addressed, AddressInv
  <2>2. QED
    BY <2>1 DEF AddrOf
<1>3. CASE phase \notin {"sort", "headers", "indices"}
  <2>1. addr[list[j]] # Unplaced /\ addr[list[i]] # Unplaced
    <3>1. phase # "headers" /\ phase # "indices" /\ phase # "addresses"
      BY <1>3
    <3>2. QED
      BY <3>1 DEF Addressed, AddressInv
  <2>2. addr[list[i]] <= addr[list[j]]
    BY <2>1, AddressesOrdered
  <2>3. QED
    BY <2>1, <2>2 DEF AddrOf
<1>4. QED
  BY <1>2, <1>3

LEMMA OrdersTyped ==
    ASSUME SectionTypes, LoopTypes, PlaceTypes, NEW order \in Orders
    PROVE  /\ order \in Seq(Ids)
           /\ \A i, j \in 1 .. Len(order) : i <= j => AddrOf(order[i]) <= AddrOf(order[j])
<1>1. PICK chunks : chunks = Loadable
  OBVIOUS
<1>2. chunks \in Seq(Ids)
  <2>1. chunks \in Seq(Ids \intersect {c \in Ids : Alloc(c)})
    BY <1>1, SelectFacts DEF Loadable, LoopTypes
  <2>2. QED
    BY <2>1
<1>3. PICK n \in Nat : n = Len(chunks)
  BY <1>2
<1>4. PICK p \in [1 .. n -> 1 .. n] :
        /\ order = [i \in 1 .. n |-> chunks[p[i]]]
        /\ \A i, j \in 1 .. n : i < j =>
             \/ AddrOf(chunks[p[i]]) < AddrOf(chunks[p[j]])
             \/ AddrOf(chunks[p[i]]) = AddrOf(chunks[p[j]])
  BY <1>1, <1>3 DEF Orders
<1>5. \A i \in 1 .. n : chunks[p[i]] \in Ids
  BY <1>2, <1>3
<1>6. order \in Seq(Ids) /\ Len(order) = n
  BY <1>4, <1>5
<1>7. \A i \in 1 .. n : AddrOf(order[i]) \in Nat /\ order[i] = chunks[p[i]]
  BY <1>4, <1>5 DEF AddrOf, PlaceTypes
<1>8. ASSUME NEW i \in 1 .. n, NEW j \in 1 .. n, i <= j
      PROVE  AddrOf(order[i]) <= AddrOf(order[j])
  <2>1. CASE i = j
    BY <1>7, <2>1
  <2>2. CASE i < j
    <3>1. AddrOf(order[i]) < AddrOf(order[j]) \/ AddrOf(order[i]) = AddrOf(order[j])
      <4>1. \/ AddrOf(chunks[p[i]]) < AddrOf(chunks[p[j]])
            \/ AddrOf(chunks[p[i]]) = AddrOf(chunks[p[j]])
        BY <1>4, <2>2
      <4>2. order[i] = chunks[p[i]] /\ order[j] = chunks[p[j]]
        BY <1>7
      <4>3. QED
        BY <4>1, <4>2
    <3>2. PICK u \in Nat, v \in Nat : u = AddrOf(order[i]) /\ v = AddrOf(order[j])
      BY <1>7
    <3>3. QED
      BY <3>1, <3>2
  <2>3. QED
    BY <1>8, <2>1, <2>2
<1>9. QED
  BY <1>6, <1>8

\* PT_TLS: of every run of thread-local sections.
LEMMA TlsSegmentFacts ==
    ASSUME Addressed, phase # "addresses"
    PROVE  /\ IsFiniteSet(TlsSegments)
           /\ \A s \in TlsSegments :
                /\ s \in SegmentType /\ s.type = "tls"
                /\ \E a, b \in DOMAIN list :
                     /\ a <= b
                     /\ \A i \in a .. b : Tls(list[i])
                     /\ a = 1 \/ ~Tls(list[a-1])
                     /\ b = Len(list) \/ ~Tls(list[b+1])
                     /\ s.vaddr = AddrOf(list[a])
                     /\ \A k \in a .. b : s.align >= AlignOf(list[k])
                     /\ \E k \in a .. b : s.align = AlignOf(list[k])
<1>1. PICK n \in Nat : n = Len(list) /\ DOMAIN list = 1 .. n /\ list \in Seq(Ids)
  BY ListFacts DEF Addressed, LoopTypes
<1> DEFINE runs == {r \in (1 .. n) \X (1 .. n) :
                     /\ r[1] <= r[2]
                     /\ \A i \in r[1] .. r[2] : Tls(list[i])
                     /\ r[1] = 1 \/ ~Tls(list[r[1]-1])
                     /\ r[2] = n \/ ~Tls(list[r[2]+1])}
           seg == [r \in runs |-> Segment("tls", {}, SubSeq(list, r[1], r[2]))]
<1>2. TlsSegments = {Segment("tls", {}, SubSeq(list, r[1], r[2])) : r \in runs}
  BY <1>1 DEF TlsSegments
<1>3. TlsSegments = {seg[r] : r \in DOMAIN seg} /\ DOMAIN seg = runs
  BY <1>2
<1>4. IsFiniteSet(runs)
  <2>1. IsFiniteSet(1 .. n)
    BY FS_Interval
  <2>2. IsFiniteSet((1 .. n) \X (1 .. n))
    BY <2>1, FS_Product
  <2>3. runs \in SUBSET ((1 .. n) \X (1 .. n))
    OBVIOUS
  <2> HIDE DEF runs
  <2>4. QED
    BY <2>2, <2>3, FS_Subset
<1>5. IsFiniteSet(TlsSegments)
  <2> HIDE DEF seg, runs
  <2>1. QED
    BY <1>3, <1>4, ImageFinite
<1>6. ASSUME NEW s \in TlsSegments
      PROVE  /\ s \in SegmentType /\ s.type = "tls"
             /\ \E a, b \in DOMAIN list :
                /\ a <= b
                /\ \A i \in a .. b : Tls(list[i])
                /\ a = 1 \/ ~Tls(list[a-1])
                /\ b = Len(list) \/ ~Tls(list[b+1])
                /\ s.vaddr = AddrOf(list[a])
                /\ \A k \in a .. b : s.align >= AlignOf(list[k])
                /\ \E k \in a .. b : s.align = AlignOf(list[k])
  <2>1. PICK r \in runs : s = Segment("tls", {}, SubSeq(list, r[1], r[2]))
    BY <1>2
  <2>2. PICK a \in 1 .. n, b \in 1 .. n :
           /\ a = r[1] /\ b = r[2] /\ a <= b
           /\ \A i \in a .. b : Tls(list[i])
           /\ a = 1 \/ ~Tls(list[a-1])
           /\ b = n \/ ~Tls(list[b+1])
    OBVIOUS
  <2> HIDE DEF runs, seg
  <2>3. LoadedAt(a) /\ LoadedAt(b)
    <3>1. a \in a .. b /\ b \in a .. b
      BY <2>2
    <3>2. Tls(list[a]) /\ Tls(list[b]) /\ list[a] \in Ids /\ list[b] \in Ids
      BY <1>1, <2>2, <3>1
    <3>3. QED
      BY <1>1, <3>2, ChunkTypes DEF LoadedAt, Addressed
  <2>4. AddrOf(list[a]) <= AddrOf(list[b])
    BY <1>1, <2>2, <2>3, AddrOfOrdered
  <2>5. PICK type \in {"load", "tls"}, flags \in SUBSET Flags : type = "tls" /\ flags = {}
    OBVIOUS
  <2>6. s = Segment(type, flags, SubSeq(list, a, b)) /\ a \in 1 .. Len(list) /\ b \in 1 .. Len(list)
    BY <1>1, <2>1, <2>2, <2>5
  <2>7. /\ s \in SegmentType /\ s.type = "tls" /\ s.vaddr = AddrOf(list[a])
        /\ \A k \in a .. b : s.align >= AlignOf(list[k])
        /\ \E k \in a .. b : s.align = AlignOf(list[k])
    <3>1. SectionTypes /\ SizeTypes /\ PlaceTypes /\ list \in Seq(Ids)
      BY <1>1 DEF Addressed
    <3>2. PICK order \in Seq(Ids) : order = list
      BY <3>1
    <3>3. /\ s = Segment(type, flags, SubSeq(order, a, b))
          /\ a \in 1 .. Len(order) /\ b \in 1 .. Len(order)
          /\ a <= b /\ AddrOf(order[a]) <= AddrOf(order[b])
      BY <2>2, <2>4, <2>6, <3>2
    <3> HIDE <2>6
    <3>4. /\ s \in SegmentType /\ s.type = type /\ s.vaddr = AddrOf(order[a])
          /\ \A k \in a .. b : s.align >= AlignOf(order[k])
          /\ type = "tls" => \E k \in a .. b : s.align = AlignOf(order[k])
      BY <3>1, <3>3, SegmentTyped
    <3>5. QED
      BY <2>5, <3>2, <3>4
  <2>8. QED
    BY <1>1, <2>2, <2>7
<1>7. QED
  BY <1>5, <1>6

LEMMA SegmentsTyped ==
    ASSUME Addressed, phase # "addresses", UpdatePhdr
    PROVE  SegmentTypes' /\ phdrSize' \in Nat
<1>1. PICK order \in Orders : segments' = Loads(order) \union TlsSegments
  BY DEF UpdatePhdr
<1>2. /\ order \in Seq(Ids)
      /\ \A i, j \in 1 .. Len(order) : i <= j => AddrOf(order[i]) <= AddrOf(order[j])
  BY OrdersTyped DEF Addressed
<1>3. IsFiniteSet(Loads(order)) /\ \A s \in Loads(order) : s \in SegmentType
  BY <1>2, LoadsTyped DEF Addressed
<1>4. IsFiniteSet(TlsSegments) /\ \A s \in TlsSegments : s \in SegmentType
  BY TlsSegmentFacts
<1>5. IsFiniteSet(segments') /\ \A s \in segments' : s \in SegmentType
  BY <1>1, <1>3, <1>4, FS_Union
<1>6. Cardinality(segments') \in Nat
  BY <1>5, FS_CardinalityType
<1>7. phdrSize' \in Nat
  BY <1>6, Constants DEF UpdatePhdr
<1>8. QED
  BY <1>5, <1>7 DEF SegmentTypes, SegmentType

\* PT_TLS begins at a multiple of its alignment, which is enough for each section.
LEMMA TlsSegmentAligned ==
    ASSUME Addressed, phase \notin {"sort", "headers", "indices", "addresses"},
           NEW s \in TlsSegments
    PROVE  /\ s.vaddr % s.align = 0
           /\ \A c \in {d \in Loaded : Tls(d)} : s.align % AlignOf(c) = 0
<1>1. PICK a \in DOMAIN list, b \in DOMAIN list :
        /\ a <= b
        /\ \A i \in a .. b : Tls(list[i])
        /\ a = 1 \/ ~Tls(list[a-1])
        /\ b = Len(list) \/ ~Tls(list[b+1])
        /\ s.vaddr = AddrOf(list[a])
        /\ \A k \in a .. b : s.align >= AlignOf(list[k])
        /\ \E k \in a .. b : s.align = AlignOf(list[k])
  BY TlsSegmentFacts
<1>2. /\ Len(list) \in Nat /\ DOMAIN list = 1 .. Len(list)
      /\ \A i \in DOMAIN list : list[i] \in Ids
  BY ListFacts DEF Addressed
<1>3. a \in a .. b /\ b \in a .. b
  BY <1>1, <1>2
<1>4. ASSUME NEW j \in DOMAIN list, Tls(list[j]) PROVE j \in a .. b
  <2>1. ASSUME j < a PROVE FALSE
    <3>1. a # 1 /\ a - 1 \in DOMAIN list /\ j <= a - 1 /\ a - 1 <= a
      BY <1>2, <2>1
    <3>2. Tls(list[a-1])
      BY <1>1, <1>3, <1>4, <3>1, Contiguous DEF Addressed
    <3>3. QED
      BY <1>1, <3>1, <3>2
  <2>2. ASSUME b < j PROVE FALSE
    <3>1. b # Len(list) /\ b + 1 \in DOMAIN list /\ b <= b + 1 /\ b + 1 <= j
      BY <1>2, <2>2
    <3>2. Tls(list[b+1])
      BY <1>1, <1>3, <1>4, <3>1, Contiguous DEF Addressed
    <3>3. QED
      BY <1>1, <3>1, <3>2
  <2>3. QED
    BY <1>2, <2>1, <2>2
<1>5. PICK m \in a .. b : s.align = AlignOf(list[m])
  BY <1>1
<1>6. m \in DOMAIN list /\ Tls(list[m]) /\ Tls(list[a])
  BY <1>1, <1>2, <1>3
<1>7. IsFirstTls(list[a])
  <2>1. a \in TlsPositions /\ \A j \in TlsPositions : a <= j
    BY <1>2, <1>4, <1>6 DEF TlsPositions
  <2>2. QED
    BY <2>1 DEF IsFirstTls
<1>8. addr[list[a]] # Unplaced
  <2>1. LoadedAt(a)
    BY <1>2, <1>6, ChunkTypes DEF LoadedAt, Addressed
  <2>2. phase # "headers" /\ phase # "indices" /\ phase # "addresses"
    OBVIOUS
  <2>3. QED
    BY <2>1, <2>2 DEF Addressed, AddressInv
<1>9. s.vaddr % s.align = 0
  <2>1. s.vaddr = addr[list[a]]
    BY <1>1, <1>8 DEF AddrOf
  <2>2. addr[list[a]] % AlignOf(list[m]) = 0
    BY <1>6, <1>7, <1>8, TlsStart
  <2>3. QED
    BY <1>5, <2>1, <2>2
<1>10. ASSUME NEW c \in Loaded, Tls(c) PROVE s.align % AlignOf(c) = 0
  <2>1. PICK j \in DOMAIN list : list[j] = c
    BY Positions DEF Loaded, Addressed
  <2>2. AlignOf(c) <= AlignOf(list[m])
    <3>1. j \in a .. b
      BY <1>4, <1>10, <2>1
    <3>2. AlignOf(c) \in Nat /\ AlignOf(list[m]) \in Nat
      BY <1>2, <1>6, <2>1, ChunkTypes DEF Addressed
    <3>3. QED
      BY <1>1, <1>5, <2>1, <3>1, <3>2
  <2>3. Alloc(c) /\ Alloc(list[m]) /\ c \in Ids /\ list[m] \in Ids
    BY <1>2, <1>6, <1>10, <2>1, ChunkTypes DEF Addressed
  <2>4. QED
    BY <1>5, <2>2, <2>3, AlignmentsDivide DEF Addressed
<1>11. QED
  BY <1>9, <1>10

-----------------------------------------------------------------------------
(***************************************************************************)
(* The invariant: what a step leaves as it was.                            *)
(***************************************************************************)
\* What a section is never changes.
LEMMA Static ==
    ASSUME section' = section, NEW c
    PROVE  /\ FlagsOf(c)' = FlagsOf(c) /\ PhdrFlags(c)' = PhdrFlags(c)
           /\ Alloc(c)' <=> Alloc(c)
           /\ Tls(c)' <=> Tls(c)
           /\ AlignOf(c)' = AlignOf(c)
           /\ RankOf(c)' = RankOf(c)
           /\ Alloc(c) => SizeOf(c)' = SizeOf(c)
<1>1. FlagsOf(c)' = FlagsOf(c)
  BY DEF FlagsOf
<1>2. Alloc(c)' <=> Alloc(c)
  BY DEF Alloc, FlagsOf
<1>3. Tls(c)' <=> Tls(c)
  BY DEF Tls, FlagsOf
<1>4. PhdrFlags(c)' = PhdrFlags(c)
  BY DEF PhdrFlags, FlagsOf
<1>5. AlignOf(c)' = AlignOf(c)
  BY DEF AlignOf
<1>6. RankOf(c)' = RankOf(c)
  BY <1>1, <1>2, <1>3 DEF RankOf
<1>7. Alloc(c) => SizeOf(c)' = SizeOf(c)
  <2>1. Alloc(c) => c \in DOMAIN section
    BY DEF Alloc, FlagsOf
  <2>2. QED
    BY <2>1 DEF SizeOf
<1>8. QED
  BY <1>1, <1>2, <1>3, <1>4, <1>5, <1>6, <1>7

LEMMA StaticOrder ==
    ASSUME section' = section, NEW c, NEW d
    PROVE  Before(c, d)' <=> Before(c, d)
BY Static DEF Before

LEMMA PlacesKept ==
    ASSUME SectionTypes, LoopTypes, section' = section, list' = list, NEW i \in Int,
           LoadedAt(i - 1) => addr'[list[i-1]] = addr[list[i-1]]
    PROVE  /\ LoadedAt(i)' <=> LoadedAt(i)
           /\ PosAt(i)' = PosAt(i)
           /\ StartAt(i)' = StartAt(i)
           /\ ComputedAt(i)' = ComputedAt(i)
<1>1. PICK l : l = list
  OBVIOUS
<1>2. \A j \in Int : LoadedAt(j)' <=> LoadedAt(j)
  <2> TAKE j \in Int
  <2>1. PICK c : c = list[j]
    OBVIOUS
  <2>2. Alloc(c)' <=> Alloc(c)
    BY Static
  <2>3. Alloc(list[j])' <=> Alloc(list[j])
    BY <2>1, <2>2 DEF Alloc, FlagsOf
  <2>4. QED
    BY <2>3 DEF LoadedAt
<1>3. LoadedAt(i - 1) => EndAt(i - 1)' = EndAt(i - 1)
  <2> SUFFICES ASSUME LoadedAt(i - 1) PROVE EndAt(i - 1)' = EndAt(i - 1)
    OBVIOUS
  <2>1. PICK c : c = list[i-1]
    OBVIOUS
  <2>2. c \in DOMAIN section
    BY <2>1 DEF LoadedAt, Alloc, FlagsOf
  <2>3. c \in DOMAIN section' /\ c # Ehdr /\ c # Phdr /\ c # Shdr
    BY <2>2, Constants DEF SectionTypes
  <2>4. SizeOf(list[i-1]) = section[c].size
    BY <2>1, <2>2, <2>3 DEF SizeOf
  <2>5. SizeOf(list[i-1])' = section[c].size
    BY <2>1, <2>2, <2>3 DEF SizeOf
  <2>6. EndAt(i - 1)' = addr'[c] + section[c].size
    BY <2>1, <2>5 DEF EndAt
  <2>7. QED
    BY <2>1, <2>4, <2>6 DEF EndAt
<1>4. PosAt(i)' = PosAt(i)
  BY <1>2, <1>3 DEF PosAt
<1>5. StartAt(i)' = StartAt(i)
  BY <1>4 DEF StartAt, PhdrFlags, FlagsOf
<1>6. Alignment(list[i])' = Alignment(list[i])
  BY DEF Alignment, IsFirstTls, TlsPositions, Tls, FlagsOf, AlignOf
<1>7. QED
  BY <1>2, <1>4, <1>5, <1>6 DEF ComputedAt

\* A step that gives no address: a round begins, or addresses do not matter to it.
LEMMA AddressKept ==
    ASSUME Addressed, section' = section, list' = list, addr' = addr,
           \/ phase' = "addresses" /\ at' = 1 /\ pos' = ImageBase
           \/ phase \notin {"sort", "headers", "indices", "addresses"}
              /\ phase' \notin {"sort", "headers", "indices", "addresses"}
    PROVE  AddressInv'
<1>1. DOMAIN list = 1 .. Len(list) /\ Len(list) \in Nat
  BY ListFacts DEF Addressed
<1>2. \A i \in DOMAIN list : /\ LoadedAt(i)' <=> LoadedAt(i)
                             /\ PosAt(i)' = PosAt(i)
                             /\ ComputedAt(i)' = ComputedAt(i)
  BY <1>1, PlacesKept DEF Addressed
<1>3. \A c \in Ids : addr'[c] # Unplaced => \E i \in DOMAIN list' : LoadedAt(i)' /\ list'[i] = c
  BY <1>2 DEF Addressed, AddressInv
<1>4. \A i, j \in DOMAIN list' :
        LoadedAt(i)' /\ i < j /\ addr'[list'[j]] # Unplaced => addr'[list'[i]] # Unplaced
  BY <1>2 DEF Addressed, AddressInv
<1>5. \A i \in DOMAIN list' : LoadedAt(i)' /\ addr'[list'[i]] # Unplaced =>
        addr'[list'[i]] = ComputedAt(i)'
  BY <1>2 DEF Addressed, AddressInv
<1>6. ASSUME NEW i \in DOMAIN list', LoadedAt(i)'
      PROVE  \/ addr'[list'[i]] # Unplaced
             \/ phase' \in {"headers", "indices"}
             \/ phase' = "addresses" /\ i >= at'
  <2>1. CASE phase' = "addresses" /\ at' = 1
    BY <1>1, <2>1
  <2>2. CASE phase \notin {"sort", "headers", "indices", "addresses"}
    <3>1. phase # "headers" /\ phase # "indices" /\ phase # "addresses"
      BY <2>2
    <3>2. QED
      BY <1>2, <1>6, <3>1 DEF Addressed, AddressInv
  <2>3. QED
    BY <2>1, <2>2
<1>7. phase' = "addresses" => pos' = PosAt(at)'
  <2>1. SUFFICES ASSUME phase' = "addresses" PROVE pos' = PosAt(at)'
    OBVIOUS
  <2>2. at' = 1 /\ pos' = ImageBase
    BY <2>1
  <2>3. ~LoadedAt(0)'
    BY <1>1 DEF LoadedAt
  <2>4. PosAt(1)' = ImageBase
    BY <2>3 DEF PosAt
  <2>5. PosAt(at)' = PosAt(1)'
    BY <2>2 DEF PosAt, LoadedAt, EndAt
  <2>6. QED
    BY <2>2, <2>4, <2>5
<1>8. phase' \notin {"sort", "headers", "indices"}
  OBVIOUS
<1>9. QED
  BY <1>3, <1>4, <1>5, <1>6, <1>7, <1>8 DEF AddressInv

\* Set_virtual_addresses: the chunk gets the address that it has got in the round
\* before, or the first one behind all the others.
LEMMA SetVirtualAddressPlaces ==
    ASSUME Addressed, SetVirtualAddress, LoadedAt(at)
    PROVE  /\ at \in DOMAIN list /\ list[at] \in Ids
           /\ addr' = [addr EXCEPT ![list[at]] = ComputedAt(at)]
           /\ pos' = ComputedAt(at) + SizeOf(list[at])
           /\ ComputedAt(at) \in Nat
           /\ StartAt(at) <= ComputedAt(at) /\ PosAt(at) <= ComputedAt(at) /\ PosAt(at) \in Nat
<1>1. DOMAIN list = 1 .. Len(list) /\ Len(list) \in Nat /\ at \in DOMAIN list /\ list[at] \in Ids
  BY ListFacts DEF Addressed, LoadedAt
<1>2. phase = "addresses" /\ Alloc(list[at])
  BY DEF SetVirtualAddress, LoadedAt
<1>3. pos = PosAt(at)
  BY <1>1, <1>2 DEF Addressed, AddressInv
<1>4. Separate(pos) = StartAt(at)
  BY <1>3 DEF Separate, StartAt
<1>5. addr' = [addr EXCEPT ![list[at]] = ComputedAt(at)]
  BY <1>2, <1>4 DEF SetVirtualAddress, ComputedAt
<1>6. addr \in [Ids -> Nat \union {Unplaced}]
  BY DEF Addressed, PlaceTypes
<1>7. pos' = ComputedAt(at) + SizeOf(list[at])
  <2>1. addr'[list[at]] = ComputedAt(at)
    BY <1>1, <1>5, <1>6
  <2>2. pos' = addr'[list[at]] + SizeOf(list[at])
    BY <1>2 DEF SetVirtualAddress
  <2>3. QED
    BY <2>1, <2>2
<1>8. PosAt(at) \in Nat
  BY <1>3 DEF Addressed, PlaceTypes
<1>9. StartAt(at) \in Nat /\ PosAt(at) <= StartAt(at)
  BY <1>8, Constants DEF StartAt
<1>10. Alignment(list[at]) \in Nat \ {0}
  BY <1>1, AlignmentFacts DEF Addressed
<1>11. PICK n : n = ComputedAt(at)
  OBVIOUS
<1>12. n \in Nat /\ StartAt(at) <= n
  <2>1. n = ((StartAt(at) + Alignment(list[at]) - 1) \div Alignment(list[at])) * Alignment(list[at])
    BY <1>11 DEF ComputedAt, AlignTo
  <2>2. QED
    BY <1>9, <1>10, <2>1, AlignedUp
<1>13. QED
  BY <1>1, <1>5, <1>7, <1>8, <1>9, <1>11, <1>12

LEMMA AddressStep ==
    ASSUME Addressed, SetVirtualAddress
    PROVE  AddressInv'
<1>1. /\ DOMAIN list = 1 .. Len(list) /\ Len(list) \in Nat
      /\ \A i \in DOMAIN list : list[i] \in Ids
      /\ \A i, j \in DOMAIN list : i # j => list[i] # list[j]
      /\ phase # "sort" => 1 \in DOMAIN list
  BY ListFacts DEF Addressed
<1>2. phase = "addresses" /\ section' = section /\ list' = list
  BY DEF SetVirtualAddress
<1>3. at \in DOMAIN list /\ at \in Nat
  BY <1>1, <1>2 DEF Addressed, LoopTypes
<1>4. /\ phase' = IF at = Len(list) THEN "offsets" ELSE "addresses"
      /\ at' = IF at = Len(list) THEN 1 ELSE at + 1
  BY <1>2 DEF SetVirtualAddress, NextChunk
<1>5. \A c \in Ids : addr[c] # Unplaced => \E i \in DOMAIN list : LoadedAt(i) /\ list[i] = c
  BY DEF Addressed, AddressInv
<1>6. \A i, j \in DOMAIN list :
         LoadedAt(i) /\ i < j /\ addr[list[j]] # Unplaced => addr[list[i]] # Unplaced
  BY DEF Addressed, AddressInv
<1>7. \A i \in DOMAIN list : LoadedAt(i) /\ i < at => addr[list[i]] # Unplaced
  <2> TAKE i \in DOMAIN list
  <2>1. i < at => ~(i >= at)
    BY <1>1, <1>3
  <2>2. QED
    BY <1>2, <2>1 DEF Addressed, AddressInv
<1>8. \A i \in DOMAIN list : LoadedAt(i)' <=> LoadedAt(i)
  BY <1>2 DEF LoadedAt, Alloc, FlagsOf
<1>9. /\ \A i \in DOMAIN list : i # at => addr'[list[i]] = addr[list[i]]
      /\ LoadedAt(at) => addr'[list[at]] # Unplaced /\ addr'[list[at]] = ComputedAt(at)
      /\ \A c \in Ids : addr'[c] # Unplaced => addr[c] # Unplaced \/ (c = list[at] /\ LoadedAt(at))
  <2>1. addr \in [Ids -> Nat \union {Unplaced}]
    BY DEF Addressed, PlaceTypes
  <2>2. CASE LoadedAt(at)
    <3>1. addr' = [addr EXCEPT ![list[at]] = ComputedAt(at)] /\ ComputedAt(at) \in Nat
      BY <2>2, SetVirtualAddressPlaces
    <3>2. ComputedAt(at) # Unplaced
      BY <3>1 DEF Unplaced
    <3>3. \A i \in DOMAIN list : i # at => list[i] # list[at]
      BY <1>1, <1>3
    <3>4. \A c \in Ids : c # list[at] => addr'[c] = addr[c]
      BY <2>1, <3>1
    <3>5. addr'[list[at]] = ComputedAt(at)
      BY <1>1, <1>3, <2>1, <3>1
    <3>6. QED
      BY <1>1, <2>2, <3>2, <3>3, <3>4, <3>5
  <2>3. CASE ~LoadedAt(at)
    <3>1. addr' = addr
      BY <1>3, <2>3 DEF SetVirtualAddress, LoadedAt
    <3>2. QED
      BY <2>3, <3>1
  <2>4. QED
    BY <2>2, <2>3
<1>10. LoadedAt(at) /\ addr[list[at]] # Unplaced => addr'[list[at]] = addr[list[at]]
  BY <1>3, <1>9 DEF Addressed, AddressInv
<1>11. ASSUME NEW i \in DOMAIN list, LoadedAt(i), i <= at \/ addr[list[at]] # Unplaced \/ ~LoadedAt(at)
       PROVE  ComputedAt(i)' = ComputedAt(i)
  <2>1. i \in Int /\ i - 1 # i
    BY <1>1
  <2>2. LoadedAt(i - 1) => addr'[list[i-1]] = addr[list[i-1]]
    <3>1. CASE i - 1 = at
      <4>1. ~(i <= at)
        BY <1>3, <2>1, <3>1
      <4>2. QED
        BY <1>10, <1>11, <3>1, <4>1
    <3>2. CASE i - 1 # at
      BY <1>9, <3>2 DEF LoadedAt
    <3>3. QED
      BY <3>1, <3>2
  <2>3. QED
    BY <1>2, <2>1, <2>2, PlacesKept DEF Addressed
<1>12. \A c \in Ids : addr'[c] # Unplaced => \E i \in DOMAIN list' : LoadedAt(i)' /\ list'[i] = c
  BY <1>2, <1>3, <1>5, <1>8, <1>9
<1>13. ASSUME NEW i \in DOMAIN list, NEW j \in DOMAIN list, LoadedAt(i), i < j,
              addr'[list[j]] # Unplaced
       PROVE  addr'[list[i]] # Unplaced
  <2>1. CASE j = at
    <3>1. addr[list[i]] # Unplaced /\ i # at
      BY <1>1, <1>7, <1>13, <2>1
    <3>2. QED
      BY <1>9, <3>1
  <2>2. CASE j # at
    <3>1. addr[list[j]] # Unplaced
      BY <1>9, <1>13, <2>2
    <3>2. addr[list[i]] # Unplaced
      BY <1>6, <1>13, <3>1
    <3>3. QED
      BY <1>9, <1>13, <3>2
  <2>3. QED
    BY <2>1, <2>2
<1>14. ASSUME NEW i \in DOMAIN list, LoadedAt(i), addr'[list[i]] # Unplaced
       PROVE  addr'[list[i]] = ComputedAt(i)'
  <2>1. CASE i = at
    <3>1. i <= at
      BY <1>3, <2>1
    <3>2. ComputedAt(i)' = ComputedAt(i)
      BY <1>11, <1>14, <3>1
    <3>3. QED
      BY <1>9, <1>14, <2>1, <3>2
  <2>2. CASE i # at
    <3>1. addr'[list[i]] = addr[list[i]] /\ addr[list[i]] # Unplaced
      BY <1>9, <1>14, <2>2
    <3>2. i <= at \/ addr[list[at]] # Unplaced \/ ~LoadedAt(at)
      BY <1>1, <1>3, <1>6, <3>1
    <3>3. ComputedAt(i)' = ComputedAt(i)
      BY <1>11, <1>14, <3>2
    <3>4. addr[list[i]] = ComputedAt(i)
      BY <1>14, <3>1 DEF Addressed, AddressInv
    <3>5. QED
      BY <3>1, <3>3, <3>4
  <2>3. QED
    BY <2>1, <2>2
<1>15. ASSUME NEW i \in DOMAIN list, LoadedAt(i)
       PROVE  addr'[list[i]] # Unplaced \/ (phase' = "addresses" /\ i >= at')
  <2>1. CASE i <= at
    <3>1. CASE i = at
      BY <1>9, <1>15, <3>1
    <3>2. CASE i < at
      BY <1>1, <1>3, <1>7, <1>9, <1>15, <3>2
    <3>3. QED
      BY <1>1, <1>3, <2>1, <3>1, <3>2
  <2>2. CASE at < i
    BY <1>1, <1>3, <1>4, <2>2
  <2>3. QED
    BY <1>1, <1>3, <2>1, <2>2
<1>16. ASSUME phase' = "addresses", NEW j \in DOMAIN list, at' <= j, LoadedAt(j)
       PROVE  pos' = PosAt(at)'
  <2>1. at' = at + 1 /\ (at + 1) - 1 = at /\ at <= j /\ at # Len(list)
    BY <1>1, <1>3, <1>4, <1>16
  <2>2. PICK k, c : k = at /\ c = list[at]
    OBVIOUS
  <2>3. PosAt(at)' = IF LoadedAt(at) THEN EndAt(k)' ELSE ImageBase
    <3>1. PosAt(k + 1)' = IF LoadedAt(k)' THEN EndAt(k)' ELSE ImageBase
      BY <1>3, <2>1, <2>2 DEF PosAt
    <3>2. PosAt(at)' = PosAt(k + 1)'
      BY <2>1, <2>2 DEF PosAt, LoadedAt, EndAt
    <3>3. LoadedAt(k)' <=> LoadedAt(at)
      BY <1>3, <1>8, <2>2
    <3>4. QED
      BY <3>1, <3>2, <3>3
  <2>4. CASE LoadedAt(at)
    <3>1. EndAt(k)' = addr'[c] + SizeOf(c)'
      BY <1>2, <2>2 DEF EndAt, SizeOf
    <3>2. SizeOf(c)' = SizeOf(c)
      BY <1>2, <2>2, <2>4, Static DEF LoadedAt
    <3>3. pos' = ComputedAt(at) + SizeOf(list[at])
      BY <2>4, SetVirtualAddressPlaces
    <3>4. addr'[c] = ComputedAt(at) /\ SizeOf(list[at]) = SizeOf(c)
      BY <1>9, <2>2, <2>4
    <3>5. QED
      BY <2>3, <2>4, <3>1, <3>2, <3>3, <3>4
  <2>5. CASE ~LoadedAt(at)
    <3>1. pos' = pos
      BY <1>3, <2>5 DEF SetVirtualAddress, LoadedAt
    <3>2. pos = PosAt(at)
      BY <1>2, <1>16, <2>1 DEF Addressed, AddressInv
    <3>3. ~LoadedAt(at - 1)
      <4>1. SUFFICES ASSUME LoadedAt(at - 1) PROVE FALSE
        OBVIOUS
      <4>2. at - 1 \in DOMAIN list /\ at - 1 <= at
        BY <1>3, <4>1 DEF LoadedAt
      <4>3. LoadedAt(at)
        BY <1>3, <1>16, <2>1, <4>1, <4>2, Contiguous DEF Addressed
      <4>4. QED
        BY <2>5, <4>3
    <3>4. QED
      BY <2>3, <2>5, <3>1, <3>2, <3>3 DEF PosAt
  <2>6. QED
    BY <2>4, <2>5
<1>17. phase' \notin {"sort", "headers", "indices"}
  BY <1>4
<1>18. QED
  BY <1>2, <1>8, <1>12, <1>13, <1>14, <1>15, <1>16, <1>17 DEF AddressInv

\* Offsets do not matter before they are given in a round.
LEMMA OffsetsForgotten ==
    ASSUME phase' \notin {"offsets", "program headers", "symbols", "copy", "done",
                          "null symbol", "incompatible"}
    PROVE  OffsetInv'
BY DEF OffsetInv, Written

LEMMA OffsetsBegin ==
    ASSUME LoopTypes', phase' = "offsets", at' = 1, run' = 0
    PROVE  OffsetInv'
<1>1. \A i \in DOMAIN list' : ~(i < at')
  BY DEF LoopTypes
<1>2. QED
  BY <1>1 DEF OffsetInv, Written

LEMMA OffsetsKept ==
    ASSUME OffsetInv, section' = section, list' = list, addr' = addr, offset' = offset,
           phdrSize' = phdrSize, shdrSize' = shdrSize, phase' # "offsets",
           phase \in {"program headers", "symbols", "copy", "done", "null symbol", "incompatible"}
    PROVE  OffsetInv'
<1>1. \A i \in DOMAIN list : Written(i)
  BY DEF Written
<1>2. \A i : LoadedAt(i)' <=> LoadedAt(i)
  BY DEF LoadedAt, Alloc, FlagsOf
<1>3. \A i : FileEndAt(i)' = FileEndAt(i)
  BY DEF FileEndAt, SizeOf
<1>4. QED
  BY <1>1, <1>2, <1>3 DEF OffsetInv

\* Set_file_offsets: the offset n is behind the chunk before and agrees with the
\* address, and if the chunk is put into the run of `first`, it is as far behind
\* the first in the file as in memory.
LEMMA OffsetGiven ==
    ASSUME Filed, phase = "offsets", NEW n \in Nat, NEW first \in 0 .. at,
           SetFileOffset(n, first),
           at = 1 => n = 0,
           at > 1 => FileEndAt(at - 1) <= n,
           LoadedAt(at) => n % Page = addr[list[at]] % Page,
           first # 0 => LoadedAt(at),
           first \notin {0, at} =>
             /\ first = run
             /\ n - offset[list[run]] = addr[list[at]] - addr[list[run]]
    PROVE  OffsetInv' /\ offset' \in [Ids -> Nat \union {Unplaced}]
<1>1. /\ DOMAIN list = 1 .. Len(list) /\ Len(list) \in Nat
      /\ \A i \in DOMAIN list : list[i] \in Ids
      /\ \A i, j \in DOMAIN list : i # j => list[i] # list[j]
      /\ phase # "sort" => 1 \in DOMAIN list
  BY ListFacts DEF Filed
<1>2. section' = section /\ list' = list /\ addr' = addr /\ phdrSize' = phdrSize
      /\ shdrSize' = shdrSize /\ run' = first /\ offset' = [offset EXCEPT ![list[at]] = n]
  BY DEF SetFileOffset
<1>3. at \in DOMAIN list /\ at \in Nat
  BY <1>1 DEF Filed, LoopTypes
<1>4. /\ phase' = IF at = Len(list) THEN "program headers" ELSE "offsets"
      /\ at' = IF at = Len(list) THEN 1 ELSE at + 1
  BY DEF SetFileOffset, NextChunk
<1>5. offset \in [Ids -> Nat \union {Unplaced}]
  BY DEF Filed, PlaceTypes
<1>6. offset' \in [Ids -> Nat \union {Unplaced}]
  BY <1>2, <1>5
<1>7. offset'[list[at]] = n /\ \A i \in DOMAIN list : i # at => offset'[list[i]] = offset[list[i]]
  BY <1>1, <1>2, <1>3, <1>5
<1>8. \A i : LoadedAt(i)' <=> LoadedAt(i)
  BY <1>2 DEF LoadedAt, Alloc, FlagsOf
<1>9. \A i \in DOMAIN list : i # at => FileEndAt(i)' = FileEndAt(i)
  <2> TAKE i \in DOMAIN list
  <2>1. SizeOf(list[i])' = SizeOf(list[i])
    BY <1>2 DEF SizeOf
  <2>2. QED
    BY <1>2, <1>7, <2>1 DEF FileEndAt
<1>10. \A i \in DOMAIN list : Written(i) <=> i < at
  BY DEF Written
<1>11. ASSUME NEW i \in DOMAIN list, Written(i)' PROVE i <= at
  <2>0. PICK m \in Nat : m = Len(list) /\ i \in 1 .. m
    BY <1>1
  <2>1. CASE at = Len(list)
    <3>1. at = m
      BY <2>0, <2>1
    <3>2. QED
      BY <2>0, <3>1
  <2>2. CASE at # Len(list)
    <3>1. phase' = "offsets" /\ at' = at + 1
      BY <1>4, <2>2
    <3>2. i < at'
      BY <1>11, <3>1 DEF Written
    <3>3. QED
      BY <1>1, <1>3, <3>1, <3>2
  <2>3. QED
    BY <2>1, <2>2
<1>12. ASSUME NEW i \in DOMAIN list, Written(i)'
       PROVE  /\ offset'[list[i]] # Unplaced
              /\ i = 1 => offset'[list[i]] = 0
              /\ i > 1 => FileEndAt(i-1)' <= offset'[list[i]]
              /\ LoadedAt(i) => offset'[list[i]] % Page = addr'[list[i]] % Page
  <2>1. i > 1 => i - 1 \in DOMAIN list /\ (i - 1 < at)
    BY <1>1, <1>3, <1>11, <1>12
  <2>2. i > 1 => FileEndAt(i-1)' = FileEndAt(i-1)
    BY <1>3, <1>9, <2>1
  <2>3. CASE i = at
    <3>1. n # Unplaced
      BY DEF Unplaced
    <3>2. QED
      BY <1>2, <1>7, <2>2, <2>3, <3>1
  <2>4. CASE i < at
    <3>1. Written(i) /\ offset'[list[i]] = offset[list[i]]
      BY <1>1, <1>3, <1>7, <1>10, <2>4
    <3>2. QED
      BY <1>2, <2>2, <3>1 DEF Filed, OffsetInv
  <2>5. QED
    BY <1>1, <1>3, <1>11, <1>12, <2>3, <2>4
<1>13. ASSUME phase' = "offsets", first # 0
       PROVE  /\ first < at'
              /\ \A i \in first .. at' - 1 :
                   /\ LoadedAt(i)
                   /\ offset'[list[i]] - offset'[list[first]] = addr[list[i]] - addr[list[first]]
  <2>1. at' - 1 = at /\ first < at' /\ first \in DOMAIN list
    BY <1>1, <1>3, <1>4, <1>13
  <2>2. CASE first = at
    <3>1. \A i \in first .. at' - 1 : i = at
      BY <1>3, <2>1, <2>2
    <3>2. addr[list[at]] \in Int
      BY <1>1, <1>3 DEF Filed, PlaceTypes, Unplaced
    <3>3. QED
      BY <1>7, <1>13, <2>1, <2>2, <3>1, <3>2
  <2>3. CASE first # at
    <3>1. first = run /\ n - offset[list[run]] = addr[list[at]] - addr[list[run]]
      BY <1>13, <2>3
    <3>2. \A i \in run .. at - 1 :
              /\ LoadedAt(i)
              /\ offset[list[i]] - offset[list[run]] = addr[list[i]] - addr[list[run]]
      BY <1>13, <3>1 DEF Filed, OffsetInv
    <3>3. offset'[list[first]] = offset[list[first]]
      BY <1>7, <2>1, <2>3
    <3>4. ASSUME NEW i \in first .. at' - 1
          PROVE  /\ LoadedAt(i)
                 /\ offset'[list[i]] - offset'[list[first]] = addr[list[i]] - addr[list[first]]
      <4>1. CASE i = at
        BY <1>7, <1>13, <3>1, <3>3, <4>1
      <4>2. CASE i # at
        <5>1. i \in run .. at - 1
          BY <1>3, <2>1, <3>1, <4>2
        <5>2. i \in DOMAIN list
          BY <1>1, <1>3, <2>1, <3>1, <5>1
        <5>3. QED
          BY <1>7, <3>1, <3>2, <3>3, <4>2, <5>1, <5>2
      <4>3. QED
        BY <4>1, <4>2
    <3>5. QED
      BY <2>1, <3>4
  <2>4. QED
    BY <2>2, <2>3
<1>14. QED
  BY <1>2, <1>6, <1>8, <1>12, <1>13 DEF OffsetInv

\* The end of the chunk before, from which the offset is computed.
LEMMA FileEndFacts ==
    ASSUME Filed, phase = "offsets"
    PROVE  /\ at \in DOMAIN list /\ at \in Nat /\ list[at] \in Ids
           /\ at = 1 => FileEnd = 0 /\ ~LoadedAt(at)
           /\ at > 1 => FileEnd = FileEndAt(at - 1) /\ Written(at - 1) /\ at - 1 \in DOMAIN list
           /\ FileEnd \in Nat
<1>1. /\ DOMAIN list = 1 .. Len(list) /\ Len(list) \in Nat
      /\ \A i \in DOMAIN list : list[i] \in Ids
      /\ 1 \in DOMAIN list /\ list[1] = Ehdr
  BY ListFacts DEF Filed
<1>2. at \in DOMAIN list /\ at \in Nat
  BY <1>1 DEF Filed, LoopTypes
<1>3. ~Alloc(Ehdr)
  BY Constants, ChunkTypes DEF Filed
<1>4. ASSUME at > 1
      PROVE  FileEnd = FileEndAt(at - 1) /\ Written(at - 1) /\ at - 1 \in DOMAIN list /\ FileEnd \in Nat
  <2>1. at - 1 \in DOMAIN list /\ at - 1 < at /\ at # 1
    BY <1>1, <1>2, <1>4
  <2>2. Written(at - 1) /\ FileEnd = FileEndAt(at - 1)
    BY <2>1 DEF Written, FileEnd, FileEndAt
  <2>3. QED
    BY <2>1, <2>2, FileFacts
<1>5. at = 1 => FileEnd = 0
  BY DEF FileEnd
<1>6. at = 1 => ~LoadedAt(at)
  BY <1>1, <1>3 DEF LoadedAt
<1>7. QED
  BY <1>1, <1>2, <1>4, <1>5, <1>6

LEMMA UnloadedOffset ==
    ASSUME Filed, SetUnloadedOffset
    PROVE  OffsetInv' /\ offset' \in [Ids -> Nat \union {Unplaced}]
<1>1. phase = "offsets" /\ ~Alloc(list[at])
  BY DEF SetUnloadedOffset
<1>2. /\ at \in DOMAIN list /\ at \in Nat /\ list[at] \in Ids
      /\ at = 1 => FileEnd = 0
      /\ at > 1 => FileEnd = FileEndAt(at - 1)
      /\ FileEnd \in Nat
  BY <1>1, FileEndFacts
<1>3. PICK a \in Nat \ {0} : a = AlignOf(list[at])
  BY <1>2, ChunkTypes DEF Filed
<1>4. PICK v \in Nat : v = FileEnd
  BY <1>2
<1>5. PICK n : n = AlignTo(FileEnd, AlignOf(list[at]))
  OBVIOUS
<1>6. n \in Nat /\ v <= n /\ n < v + a /\ n % a = 0
  <2>1. n = ((v + a - 1) \div a) * a
    BY <1>3, <1>4, <1>5 DEF AlignTo
  <2>2. QED
    BY <2>1, AlignedUp
<1>7. v = 0 => n = 0
  BY <1>6
<1>8. SetFileOffset(n, 0)
  BY <1>5 DEF SetUnloadedOffset
<1>9. /\ at = 1 => n = 0
      /\ at > 1 => FileEndAt(at - 1) <= n
      /\ ~LoadedAt(at)
      /\ 0 \in 0 .. at
  BY <1>1, <1>2, <1>4, <1>6, <1>7 DEF LoadedAt
<1>10. PICK first \in 0 .. at : first = 0
  BY <1>9
<1>11. QED
  BY <1>1, <1>6, <1>8, <1>9, <1>10, OffsetGiven

\* An alignment of more than a page is a multiple of the page.
LEMMA GreatAlignment ==
    ASSUME SectionTypes, NEW c \in Ids, Alloc(c), AlignOf(c) > Page
    PROVE  AlignOf(c) % Page = 0
<1>1. c \in DOMAIN section /\ section[c] \in Shapes /\ AlignOf(c) = section[c].align
  BY ChunkTypes DEF AlignOf
<1>2. AlignOf(c) % Page = 0 \/ Page % AlignOf(c) = 0
  BY <1>1, LayoutAssumption
<1>3. AlignOf(c) \in Nat \ {0} /\ Page \in Nat \ {0}
  BY ChunkTypes, Constants
<1>4. Page % AlignOf(c) = Page
  <2>1. PICK a \in Nat \ {0}, p \in Nat \ {0} : a = AlignOf(c) /\ p = Page
    BY <1>3
  <2>2. p \in 0 .. a - 1 /\ p = 0 * a + p
    BY <2>1
  <2>3. (0 * a + p) % a = p
    BY <2>2, RemainderUnique
  <2>4. QED
    BY <2>1, <2>2, <2>3
<1>5. QED
  BY <1>2, <1>3, <1>4

LEMMA LoadedHere ==
    ASSUME Addressed, phase = "offsets", at \in DOMAIN list, Alloc(list[at])
    PROVE  LoadedAt(at) /\ addr[list[at]] # Unplaced /\ addr[list[at]] \in Nat
<1>1. LoadedAt(at)
  BY DEF LoadedAt
<1>2. addr[list[at]] # Unplaced
  BY <1>1 DEF Addressed, AddressInv
<1>3. QED
  BY <1>1, <1>2, EndTyped

LEMMA FirstOffset ==
    ASSUME Addressed, Filed, SetFirstOffset
    PROVE  OffsetInv' /\ offset' \in [Ids -> Nat \union {Unplaced}]
<1>1. phase = "offsets" /\ Alloc(list[at])
  BY DEF SetFirstOffset
<1>2. /\ at \in DOMAIN list /\ at \in Nat /\ list[at] \in Ids
      /\ at = 1 => ~LoadedAt(at)
      /\ at > 1 => FileEnd = FileEndAt(at - 1)
      /\ FileEnd \in Nat
  BY <1>1, FileEndFacts
<1>3. LoadedAt(at) /\ addr[list[at]] # Unplaced /\ addr[list[at]] \in Nat
  BY <1>1, <1>2, LoadedHere
<1>4. PICK a \in Nat \ {0} : a = AlignOf(list[at])
  BY <1>2, ChunkTypes DEF Filed
<1>5. PICK v \in Nat : v = FileEnd
  BY <1>2
<1>6. PICK w \in Nat : w = addr[list[at]]
  BY <1>3
<1>7. PICK n : n = IF a > Page THEN AlignTo(v, a) ELSE AlignWithSkew(v, Page, w)
  OBVIOUS
<1>8. Page \in Nat \ {0}
  BY Constants
<1>9. n \in Nat /\ v <= n /\ n % Page = w % Page
  <2>1. CASE a > Page
    <3>1. n = ((v + a - 1) \div a) * a
      BY <1>7, <2>1 DEF AlignTo
    <3>2. n \in Nat /\ v <= n /\ n % a = 0
      BY <3>1, AlignedUp
    <3>3. a % Page = 0
      BY <1>1, <1>2, <1>4, <2>1, GreatAlignment DEF Filed
    <3>4. w % a = 0
      BY <1>2, <1>3, <1>4, <1>6, AddressFacts
    <3>5. n \in Int /\ w \in Int
      BY <3>2
    <3>6. n % Page = 0 /\ w % Page = 0
      BY <1>8, <3>2, <3>3, <3>4, <3>5, DividesTransitive, Zenon
    <3>7. QED
      BY <3>2, <3>6
  <2>2. CASE ~(a > Page)
    <3>0. PICK p \in Nat \ {0} : p = Page
      BY <1>8
    <3>1. PICK x \in Nat : /\ x = (v \div p) * p + (w % p)
                           /\ v < x + p
                           /\ x % p = w % p /\ (x + p) % p = w % p
      BY SkewFacts, Zenon
    <3>3. n = IF v <= x THEN x ELSE x + Page
      BY <1>7, <2>2, <3>0, <3>1 DEF AlignWithSkew
    <3>4. QED
      BY <3>0, <3>1, <3>3
  <2>3. QED
    BY <2>1, <2>2
<1>10. SetFileOffset(n, at)
  BY <1>4, <1>5, <1>6, <1>7 DEF SetFirstOffset
<1>11. /\ at # 1 /\ at \in 0 .. at
       /\ at > 1 => FileEndAt(at - 1) <= n
       /\ n % Page = addr[list[at]] % Page
  BY <1>2, <1>3, <1>5, <1>6, <1>9
<1>12. PICK first \in 0 .. at : first = at
  BY <1>11
<1>13. SetFileOffset(n, first)
  BY <1>10, <1>12
<1>14. QED
  BY <1>1, <1>3, <1>9, <1>11, <1>12, <1>13, OffsetGiven

LEMMA NextOffset ==
    ASSUME Addressed, Filed, SetNextOffset
    PROVE  OffsetInv' /\ offset' \in [Ids -> Nat \union {Unplaced}]
<1>1. /\ phase = "offsets" /\ run # 0 /\ Alloc(list[at])
      /\ addr[list[at]] - addr[list[at-1]] - SizeOf(list[at-1]) \in 0 .. Page - 1
      /\ SetFileOffset(offset[list[run]] + addr[list[at]] - addr[list[run]], run)
  BY DEF SetNextOffset, Adjoins
<1>2. /\ at \in DOMAIN list /\ at \in Nat /\ list[at] \in Ids
      /\ at = 1 => ~LoadedAt(at)
      /\ at > 1 => FileEnd = FileEndAt(at - 1) /\ Written(at - 1) /\ at - 1 \in DOMAIN list
  BY <1>1, FileEndFacts
<1>3. LoadedAt(at) /\ addr[list[at]] \in Nat
  BY <1>1, <1>2, LoadedHere
<1>4. /\ run < at
      /\ \A i \in run .. at - 1 :
           /\ LoadedAt(i)
           /\ offset[list[i]] - offset[list[run]] = addr[list[i]] - addr[list[run]]
  BY <1>1 DEF Filed, OffsetInv
<1>5. run \in Nat /\ run \in run .. at - 1 /\ at - 1 \in run .. at - 1 /\ at > 1
  BY <1>1, <1>2, <1>4 DEF Filed, LoopTypes
<1>6. run \in DOMAIN list /\ LoadedAt(run) /\ Written(run)
  BY <1>1, <1>4, <1>5 DEF LoadedAt, Written
<1>7. PICK p \in Nat, q \in Nat : p = addr[list[run]] /\ q = offset[list[run]]
  <2>1. addr[list[run]] # Unplaced
    BY <1>1, <1>6 DEF Addressed, AddressInv
  <2>2. QED
    BY <1>6, <2>1, EndTyped, FileFacts
<1>8. PICK r \in Nat, s \in Nat, t \in Nat :
         /\ r = addr[list[at-1]] /\ s = SizeOf(list[at-1]) /\ t = offset[list[at-1]]
         /\ FileEndAt(at - 1) = t + s
  <2>1. addr[list[at-1]] # Unplaced
    BY <1>1, <1>2, <1>4, <1>5 DEF Addressed, AddressInv
  <2>2. QED
    BY <1>2, <1>5, <2>1, EndTyped, FileFacts
<1>9. PICK w \in Nat : w = addr[list[at]]
  BY <1>3
<1>10. t - q = r - p
  BY <1>4, <1>5, <1>7, <1>8
<1>11. w - r - s \in 0 .. Page - 1
  BY <1>1, <1>8, <1>9
<1>12. PICK n : n = q + w - p
  OBVIOUS
<1>13. n \in Nat /\ t + s <= n /\ n - q = w - p
  <2>1. w - r - s \in Nat
    BY <1>11, Constants
  <2>2. QED
    BY <1>10, <1>12, <2>1
<1>14. n % Page = w % Page
  <2>1. q % Page = p % Page
    BY <1>6, <1>7 DEF Filed, OffsetInv
  <2>2. PICK d \in Int : d = w - p
    OBVIOUS
  <2>3. (q + d) % Page = (p + d) % Page
    <3>1. PICK m \in Nat \ {0} : m = Page
      BY Constants
    <3>2. q % m = p % m /\ q \in Int /\ p \in Int
      BY <2>1, <3>1
    <3>3. (q + d) % m = (p + d) % m
      BY <3>2, CongruentSum, Zenon
    <3>4. QED
      BY <3>1, <3>3
  <2>4. n = q + d /\ w = p + d
    BY <1>12, <2>2
  <2>5. QED
    BY <2>3, <2>4
<1>15. SetFileOffset(n, run)
  BY <1>1, <1>7, <1>9, <1>12
<1>16. PICK first \in 0 .. at : first = run
  BY <1>2, <1>4, <1>5
<1>17. SetFileOffset(n, first) /\ at # 1 /\ FileEndAt(at - 1) <= n
  BY <1>5, <1>8, <1>13, <1>15, <1>16
<1>18. n - offset[list[run]] = addr[list[at]] - addr[list[run]] /\ n % Page = addr[list[at]] % Page
  BY <1>7, <1>9, <1>13, <1>14
<1>19. QED
  BY <1>1, <1>3, <1>13, <1>16, <1>17, <1>18, OffsetGiven

-----------------------------------------------------------------------------
(***************************************************************************)
(* The invariant: the list is made.                                        *)
(***************************************************************************)
LEMMA ListKept ==
    ASSUME LoopTypes, ListInv, section' = section, list' = list, shdrSize' = shdrSize,
           phase \notin {"sort", "headers", "indices"},
           phase' \notin {"sort", "headers", "indices"},
           phase' \notin {"addresses", "offsets", "copy", "incompatible"} => at' = 1,
           phase' \notin {"offsets", "program headers"} => run' = 0
    PROVE  ListInv'
<1>1. \A c, d : Before(c, d)' <=> Before(c, d)
  BY StaticOrder
<1>2. InList' = InList
  BY DEF InList
<1>3. phase # "sort"
  OBVIOUS
<1>4. QED
  BY <1>1, <1>2, <1>3 DEF ListInv

\* A list that has no index table yet.
LEMMA ListMade ==
    ASSUME section' = section, list' \in Seq(Ids), shdrSize' # 0, shdrSize' = shdrSize,
           phase' \in {"headers", "indices"}, at' = 1, run' = 0,
           \E i \in DOMAIN list' : list'[i] = Ehdr,
           \E i \in DOMAIN list' : list'[i] = Shdr,
           \A i \in DOMAIN list' : list'[i] \in DOMAIN section \union Headers,
           \A i, j \in DOMAIN list' : i < j => Before(list'[i], list'[j]),
           DOMAIN section \subseteq Names
    PROVE  ListInv'
<1>1. \A c, d : Before(c, d)' <=> Before(c, d)
  BY StaticOrder
<1>2. InList' = {list'[i] : i \in DOMAIN list'}
  BY DEF InList
<1>3. \A i \in DOMAIN list' : list'[i] # SymtabShndx
  BY Constants
<1>4. list' # <<>>
  OBVIOUS
<1>5. SymtabShndx \notin InList'
  BY <1>2, <1>3
<1>6. Ehdr \in InList' /\ Shdr \in InList'
  BY <1>2
<1>7. phase' # "sort"
  OBVIOUS
<1>8. ASSUME NEW i \in DOMAIN list', NEW j \in DOMAIN list', i < j
      PROVE  Before(list[i], list[j])'
  <2>1. PICK c, d : c = list'[i] /\ d = list'[j]
    OBVIOUS
  <2>2. Before(c, d)'
    BY <1>1, <1>8, <2>1
  <2>3. QED
    BY <2>1, <2>2 DEF Before, RankOf, Alloc, Tls, FlagsOf
<1>9. QED
  BY <1>3, <1>4, <1>5, <1>6, <1>7, <1>8 DEF ListInv

\* No chunk has an address yet.
LEMMA AddressesBegin ==
    ASSUME list' \in Seq(Ids), \A c \in Ids : addr'[c] = Unplaced, pos' = ImageBase,
           \/ phase' \in {"headers", "indices"}
           \/ phase' = "addresses" /\ at' = 1
    PROVE  AddressInv'
<1>1. /\ DOMAIN list' = 1 .. Len(list)' /\ Len(list)' \in Nat
      /\ \A i \in DOMAIN list' : list'[i] \in Ids
  OBVIOUS
<1>2. \A i \in DOMAIN list' : addr'[list'[i]] = Unplaced
  BY <1>1
<1>3. phase' = "addresses" => pos' = PosAt(at)'
  <2>1. SUFFICES ASSUME at' = 1 PROVE PosAt(at)' = ImageBase
    OBVIOUS
  <2>2. ~LoadedAt(at - 1)'
    BY <1>1, <2>1 DEF LoadedAt
  <2>3. QED
    BY <2>2 DEF PosAt
<1>4. \A i \in DOMAIN list' : phase' = "addresses" => i >= at'
  BY <1>1
<1>5. QED
  BY <1>2, <1>3, <1>4 DEF AddressInv

LEMMA SortStep == IInv /\ SortOutputSections => IInv'
<1> SUFFICES ASSUME IInv, SortOutputSections PROVE IInv'
  OBVIOUS
<1>1. /\ SectionTypes /\ LoopTypes /\ SizeTypes /\ PlaceTypes /\ SegmentTypes /\ FileTypes
      /\ ListInv /\ AddressInv
  BY DEF IInv, TypeOK
<1>2. /\ phase = "sort" /\ phase' = "headers" /\ section' = section /\ at' = at /\ run' = run
      /\ list' = Sorted(DOMAIN section \union Headers) /\ pos' = pos /\ addr' = addr
      /\ offset' = offset /\ shndx' = shndx /\ phdrSize' = phdrSize /\ shdrSize' = shdrSize
      /\ segments' = segments /\ bssStart' = bssStart /\ eflags' = eflags /\ ehdr' = ehdr
      /\ table' = table
  BY DEF SortOutputSections, layoutVars, fileVars
<1>3. at = 1 /\ run = 0 /\ shdrSize # 0
  BY <1>1, <1>2 DEF ListInv
<1>4. DOMAIN section \subseteq Names
  BY <1>1 DEF SectionTypes
<1>5. PICK S \in SUBSET Ids : S = DOMAIN section \union Headers
  <2>1. Names \subseteq Ids /\ Headers \subseteq Ids
    BY Constants
  <2>2. QED
    BY <1>4, <2>1
<1>6. /\ list' \in Seq(S)
      /\ \A i, j \in DOMAIN list' : i < j => Before(list'[i], list'[j])
      /\ \A c \in S : \E i \in DOMAIN list' : list'[i] = c
  BY <1>1, <1>2, <1>5, SortedFacts
<1>7. list' \in Seq(Ids) /\ Len(list') \in Nat /\ \A i \in DOMAIN list' : list'[i] \in S
  BY <1>5, <1>6
<1>8. Ehdr \in S /\ Shdr \in S
  BY <1>5, Constants
<1>9. TypeOK'
  <2>1. LoopTypes'
    BY <1>2, <1>3, <1>7 DEF LoopTypes, Phases
  <2>2. SectionTypes' /\ SizeTypes' /\ PlaceTypes' /\ SegmentTypes' /\ FileTypes'
    BY <1>1, <1>2 DEF SectionTypes, SizeTypes, PlaceTypes, SegmentTypes, FileTypes
  <2>3. QED
    BY <2>1, <2>2 DEF TypeOK
<1>10. ListInv'
  BY <1>2, <1>3, <1>4, <1>5, <1>6, <1>7, <1>8, ListMade
<1>11. AddressInv'
  <2>1. pos = ImageBase /\ \A c \in Ids : addr[c] = Unplaced
    BY <1>1, <1>2 DEF AddressInv
  <2>2. QED
    BY <1>2, <1>7, <2>1, AddressesBegin
<1>12. OffsetInv' /\ TlsInv'
  BY <1>2, OffsetsForgotten DEF TlsInv
<1>13. QED
  BY <1>9, <1>10, <1>11, <1>12 DEF IInv

LEMMA RemoveStep == IInv /\ RemoveEmptyChunks => IInv'
<1> SUFFICES ASSUME IInv, RemoveEmptyChunks PROVE IInv'
  OBVIOUS
<1>1. /\ SectionTypes /\ LoopTypes /\ SizeTypes /\ PlaceTypes /\ FileTypes
      /\ ListInv /\ AddressInv /\ Addressed
  BY DEF IInv, TypeOK, Addressed
<1> DEFINE kept(c) == \/ c \in DOMAIN section /\ section[c].osec
                      \/ (IF c = Phdr THEN phdrSize' ELSE SizeOf(c)) # 0
<1>2. /\ phase = "headers" /\ phase' = "indices" /\ section' = section /\ at' = at /\ run' = run
      /\ list' = Select(list, {c \in Ids : kept(c)}) /\ pos' = pos /\ addr' = addr
      /\ offset' = offset /\ shndx' = shndx /\ shdrSize' = shdrSize
      /\ bssStart' = bssStart /\ eflags' = eflags /\ ehdr' = ehdr /\ table' = table
      /\ UpdatePhdr
  BY DEF RemoveEmptyChunks, layoutVars, fileVars
<1>3. at = 1 /\ run = 0 /\ shdrSize # 0
  BY <1>1, <1>2 DEF ListInv
<1>4. SegmentTypes' /\ phdrSize' \in Nat
  BY <1>1, <1>2, SegmentsTyped
<1>5. PICK K : K = {c \in Ids : kept(c)}
  OBVIOUS
<1>6. Ehdr \in K /\ Shdr \in K
  <2>1. Ehdr \in Ids /\ Shdr \in Ids /\ Ehdr # Phdr /\ Shdr # Phdr /\ Ehdr # Shdr
    BY Constants
  <2>2. Ehdr \notin DOMAIN section /\ Shdr \notin DOMAIN section
    BY <1>1, Constants DEF SectionTypes
  <2>3. SizeOf(Ehdr) = EhdrSize /\ SizeOf(Shdr) = shdrSize
    BY <2>1, <2>2 DEF SizeOf
  <2>4. EhdrSize # 0
    BY Constants
  <2>5. QED
    BY <1>3, <1>5, <2>1, <2>3, <2>4
<1> HIDE DEF kept
<1>7. /\ list' \in Seq(Ids \intersect K)
      /\ \E g \in [DOMAIN list' -> DOMAIN list] :
           /\ \A n \in DOMAIN list' : list'[n] = list[g[n]]
           /\ \A m, n \in DOMAIN list' : m < n => g[m] < g[n]
           /\ \A i \in DOMAIN list : list[i] \in K => \E n \in DOMAIN list' : g[n] = i
  <2>1. PICK order \in Seq(Ids) : order = list
    BY <1>1 DEF LoopTypes
  <2>2. list' = Select(order, K)
    BY <1>2, <1>5, <2>1
  <2>3. QED
    BY <2>1, <2>2, SelectFacts
<1>8. PICK g \in [DOMAIN list' -> DOMAIN list] :
           /\ \A n \in DOMAIN list' : list'[n] = list[g[n]]
           /\ \A m, n \in DOMAIN list' : m < n => g[m] < g[n]
           /\ \A i \in DOMAIN list : list[i] \in K => \E n \in DOMAIN list' : g[n] = i
  BY <1>7
<1>9. list' \in Seq(Ids) /\ Len(list') \in Nat
  BY <1>7
<1>10. ASSUME NEW c \in K, c \in InList PROVE \E n \in DOMAIN list' : list'[n] = c
  <2>1. PICK i \in DOMAIN list : list[i] = c
    BY <1>1, <1>10, Positions
  <2>2. QED
    BY <1>8, <1>10, <2>1
<1>11. Ehdr \in InList /\ Shdr \in InList /\ SymtabShndx \notin InList
  BY <1>1, <1>2 DEF ListInv
<1>12. \A i \in DOMAIN list : list[i] # SymtabShndx
  <2>1. \A i \in DOMAIN list : list[i] \in InList
    BY <1>1, ElementsListed, Zenon
  <2>2. QED
    BY <1>11, <2>1, Zenon
<1>13. \A n \in DOMAIN list' : list'[n] \in DOMAIN section \union Headers
  <2>1. \A i \in DOMAIN list : list[i] \in DOMAIN section \union Headers
    BY <1>1, <1>12 DEF ListInv
  <2>2. \A n \in DOMAIN list' : g[n] \in DOMAIN list /\ list'[n] = list[g[n]]
    BY <1>8
  <2>3. QED
    BY <2>1, <2>2
<1>14. ASSUME NEW m \in DOMAIN list', NEW n \in DOMAIN list', m < n
       PROVE  Before(list'[m], list'[n])
  <2>1. g[m] \in DOMAIN list /\ g[n] \in DOMAIN list /\ g[m] < g[n]
    BY <1>8, <1>14
  <2>2. Before(list[g[m]], list[g[n]])
    BY <1>1, <1>12, <2>1 DEF ListInv
  <2>3. list'[m] = list[g[m]] /\ list'[n] = list[g[n]]
    BY <1>8
  <2>4. QED
    BY <2>2, <2>3
<1>15. ListInv'
  BY <1>1, <1>2, <1>3, <1>6, <1>9, <1>10, <1>11, <1>13, <1>14, ListMade DEF SectionTypes
<1>16. TypeOK'
  <2>1. LoopTypes'
    BY <1>2, <1>3, <1>9 DEF LoopTypes, Phases
  <2>2. SectionTypes' /\ SizeTypes' /\ PlaceTypes' /\ FileTypes'
    BY <1>1, <1>2, <1>4 DEF SectionTypes, SizeTypes, PlaceTypes, FileTypes
  <2>3. QED
    BY <1>4, <2>1, <2>2 DEF TypeOK
<1>17. AddressInv'
  <2>1. pos = ImageBase /\ \A c \in Ids : addr[c] = Unplaced
    BY <1>1, <1>2 DEF AddressInv
  <2>2. QED
    BY <1>2, <1>9, <2>1, AddressesBegin
<1>18. OffsetInv' /\ TlsInv'
  BY <1>2, OffsetsForgotten DEF TlsInv
<1>19. QED
  BY <1>15, <1>16, <1>17, <1>18 DEF IInv

LEMMA IndicesStep == IInv /\ SetSectionIndices => IInv'
<1> SUFFICES ASSUME IInv, SetSectionIndices PROVE IInv'
  OBVIOUS
<1>1. /\ SectionTypes /\ LoopTypes /\ SizeTypes /\ PlaceTypes /\ FileTypes
      /\ ListInv /\ AddressInv /\ Addressed
  BY DEF IInv, TypeOK, Addressed
<1>2. /\ phase = "indices" /\ phase' = "addresses" /\ section' = section /\ at' = at /\ run' = run
      /\ pos' = pos /\ addr' = addr /\ offset' = offset
      /\ bssStart' = bssStart /\ eflags' = eflags /\ ehdr' = ehdr /\ table' = table
      /\ UpdatePhdr
  BY DEF SetSectionIndices, layoutVars, fileVars
<1>3. at = 1 /\ run = 0
  BY <1>1, <1>2 DEF ListInv
<1>4. SegmentTypes' /\ phdrSize' \in Nat
  BY <1>1, <1>2, SegmentsTyped
<1>5. PICK order \in Seq(Ids) : order = list
  BY <1>1 DEF LoopTypes
<1>6. PICK named : named = Select(order, Ids \ Headers)
  OBVIOUS
<1>7. PICK more \in {<<>>, <<SymtabShndx>>} :
         more = IF Len(named) + 1 >= Reserve THEN <<SymtabShndx>> ELSE <<>>
  OBVIOUS
<1>8. PICK all : all = named \o more
  OBVIOUS
<1>9. /\ order = list /\ list' = order \o more
      /\ all = Select(order, Ids \ Headers) \o more
      /\ shdrSize' = ShdrEntry * (Len(all) + 1)
      /\ shndx' = [c \in Ids |-> IF \E i \in 1 .. Len(all) : all[i] = c
                                 THEN CHOOSE i \in 1 .. Len(all) : all[i] = c
                                 ELSE 0]
  BY <1>5, <1>6, <1>7, <1>8 DEF SetSectionIndices
<1>10. SymtabShndx \in Ids
  BY Constants
<1>11. PICK n \in Nat : n = Len(all)
  <2>1. Select(order, Ids \ Headers) \in Seq(Ids \intersect (Ids \ Headers))
    BY SelectFacts
  <2>2. more \in Seq(Ids)
    <3>1. <<SymtabShndx>> \in Seq(Ids) /\ <<>> \in Seq(Ids)
      BY <1>10
    <3>2. QED
      BY <3>1
  <2>3. Select(order, Ids \ Headers) \in Seq(Ids)
    BY <2>1
  <2>4. all \in Seq(Ids)
    <3>1. PICK s \in Seq(Ids) : s = Select(order, Ids \ Headers)
      BY <2>3
    <3>2. s \o more \in Seq(Ids)
      BY <2>2
    <3>3. QED
      BY <1>9, <3>1, <3>2
  <2>5. QED
    BY <2>4
<1>12. shdrSize' \in Nat /\ shdrSize' # 0
  <2>1. PICK e \in Nat \ {0} : e = ShdrEntry
    BY Constants
  <2>2. PICK m \in Nat \ {0} : m = n + 1
    OBVIOUS
  <2>3. e * m \in Nat /\ e * m # 0
    OBVIOUS
  <2>4. QED
    BY <1>9, <1>11, <2>1, <2>2, <2>3
<1>13. SizeTypes'
  <2>1. shndx' \in [Ids -> Nat]
    <3>1. \A c \in Ids : (\E i \in 1 .. n : all[i] = c) => (CHOOSE i \in 1 .. n : all[i] = c) \in 1 .. n
      OBVIOUS
    <3>2. ASSUME NEW c \in Ids PROVE shndx'[c] \in Nat
      <4>1. shndx'[c] = IF \E i \in 1 .. n : all[i] = c THEN CHOOSE i \in 1 .. n : all[i] = c ELSE 0
        BY <1>9, <1>11
      <4>2. QED
        BY <3>1, <4>1
    <3>3. QED
      BY <1>9, <3>2
  <2>2. QED
    BY <1>4, <1>12, <2>1 DEF SizeTypes
<1>14. PICK k \in Nat : k = Len(order) /\ DOMAIN list = 1 .. k
  BY <1>9
<1>15. /\ list' \in Seq(Ids) /\ Len(list') \in Nat /\ DOMAIN list' = 1 .. Len(list')
       /\ Len(list') = k \/ Len(list') = k + 1
       /\ \A i \in 1 .. k : i \in DOMAIN list' /\ list'[i] = list[i]
       /\ \A i \in DOMAIN list' : i \in 1 .. k \/ (i = k + 1 /\ list'[i] = SymtabShndx)
  <2>1. CASE more = <<>>
    <3>1. list' = order
      BY <1>9, <2>1
    <3>2. QED
      BY <1>9, <1>14, <3>1
  <2>2. CASE more = <<SymtabShndx>>
    <3>1. list' = Append(order, SymtabShndx)
      BY <1>9, <2>2
    <3>2. QED
      BY <1>9, <1>10, <1>14, <3>1
  <2>3. QED
    BY <1>9, <2>1, <2>2
<1>16. PICK m \in Nat : m = Len(list') /\ DOMAIN list' = 1 .. m /\ (m = k \/ m = k + 1)
  BY <1>15
<1>17. TypeOK'
  <2>1. LoopTypes'
    <3>1. 0 \in 0 .. m
      OBVIOUS
    <3>2. run' \in 0 .. Len(list')
      BY <1>2, <1>3, <1>16, <3>1
    <3>3. list' \in Seq(Ids) /\ at' = 1
      BY <1>2, <1>3, <1>15
    <3>4. QED
      BY <1>2, <3>2, <3>3 DEF LoopTypes, Phases
  <2>2. SectionTypes' /\ PlaceTypes' /\ FileTypes'
    BY <1>1, <1>2 DEF SectionTypes, PlaceTypes, FileTypes
  <2>3. QED
    BY <1>4, <1>13, <2>1, <2>2 DEF TypeOK
<1>18. ListInv'
  <2>1. Ehdr \in InList /\ Shdr \in InList /\ SymtabShndx \notin InList
    BY <1>1, <1>2 DEF ListInv
  <2>2. \A i \in 1 .. k : list[i] # SymtabShndx
    BY <1>9, <1>14, <2>1 DEF InList
  <2>3. Ehdr \in InList' /\ Shdr \in InList'
    BY <1>1, <1>15, <2>1, <1>9, <1>14 DEF InList
  <2>4. list' # <<>> /\ phase' # "sort"
    <3>1. 1 .. m # {}
      BY <1>16, <2>3 DEF InList
    <3>2. DOMAIN list' # DOMAIN <<>>
      BY <1>16, <3>1
    <3>3. QED
      BY <1>2, <3>2
  <2>5. ASSUME NEW i \in DOMAIN list', NEW j \in DOMAIN list', i < j
        PROVE  list'[i] # SymtabShndx
    <3>1. i \in 1 .. k
      BY <1>16, <2>5
    <3>2. QED
      BY <1>15, <2>2, <3>1
  <2>6. ASSUME NEW i \in DOMAIN list', NEW j \in DOMAIN list', i < j
        PROVE  list'[j] = SymtabShndx \/ Before(list[i], list[j])'
    <3>1. SUFFICES ASSUME j \in 1 .. k PROVE Before(list[i], list[j])'
      BY <1>15
    <3>2. i \in 1 .. k
      BY <1>15, <2>6, <3>1
    <3>3. PICK c, d : c = list[i] /\ d = list[j] /\ c = list'[i] /\ d = list'[j]
      BY <1>15, <3>1, <3>2
    <3>4. Before(list[i], list[j])
      BY <1>1, <1>14, <2>2, <2>6, <3>1, <3>2 DEF ListInv
    <3>5. Before(c, d)'
      BY <1>2, <3>3, <3>4, StaticOrder
    <3>6. QED
      BY <3>3, <3>5 DEF Before, RankOf, Alloc, Tls, FlagsOf
  <2>7. \A i \in DOMAIN list' : list'[i] \in DOMAIN section \union Headers \union {SymtabShndx}
    BY <1>1, <1>14, <1>15 DEF ListInv
  <2>8. QED
    BY <1>2, <1>3, <1>12, <2>3, <2>4, <2>5, <2>6, <2>7 DEF ListInv
<1>19. AddressInv'
  <2>1. pos = ImageBase /\ \A c \in Ids : addr[c] = Unplaced
    BY <1>1, <1>2 DEF AddressInv
  <2>2. QED
    BY <1>2, <1>3, <1>15, <2>1, AddressesBegin
<1>20. OffsetInv' /\ TlsInv'
  BY <1>2, OffsetsForgotten DEF TlsInv
<1>21. QED
  BY <1>17, <1>18, <1>19, <1>20 DEF IInv

-----------------------------------------------------------------------------
(***************************************************************************)
(* The invariant: every step.                                              *)
(***************************************************************************)
\* A loop over the list ends, or goes on inside it.
LEMMA Advanced ==
    ASSUME SectionTypes, LoopTypes, ListInv, phase # "sort", NEW then, NextChunk(then)
    PROVE  /\ at \in DOMAIN list /\ Len(list) \in Nat /\ DOMAIN list = 1 .. Len(list)
           /\ \/ phase' = then /\ at' = 1
              \/ phase' = phase /\ at' \in 1 .. Len(list)
<1>1. PICK m \in Nat : m = Len(list) /\ DOMAIN list = 1 .. m /\ 1 \in DOMAIN list
  BY ListFacts
<1>2. at \in 1 .. m
  BY <1>1 DEF LoopTypes
<1>3. at # m => at + 1 \in 1 .. m
  BY <1>2
<1>4. QED
  BY <1>1, <1>2, <1>3 DEF NextChunk

LEMMA AddressesStep == IInv /\ SetVirtualAddress => IInv'
<1> SUFFICES ASSUME IInv, SetVirtualAddress PROVE IInv'
  OBVIOUS
<1>1. /\ SectionTypes /\ LoopTypes /\ SizeTypes /\ PlaceTypes /\ SegmentTypes /\ FileTypes
      /\ ListInv /\ AddressInv /\ Addressed
  BY DEF IInv, TypeOK, Addressed
<1>2. /\ phase = "addresses" /\ section' = section /\ list' = list /\ run' = run
      /\ offset' = offset /\ shndx' = shndx /\ phdrSize' = phdrSize /\ shdrSize' = shdrSize
      /\ segments' = segments /\ bssStart' = bssStart /\ eflags' = eflags /\ ehdr' = ehdr
      /\ table' = table /\ NextChunk("offsets")
  BY DEF SetVirtualAddress, fileVars
<1>3. /\ at \in DOMAIN list
      /\ \/ phase' = "offsets" /\ at' = 1
         \/ phase' = "addresses" /\ at' \in 1 .. Len(list)
  BY <1>1, <1>2, Advanced
<1>4. run = 0
  BY <1>1, <1>2 DEF ListInv
<1>5. LoopTypes'
  BY <1>1, <1>2, <1>3 DEF LoopTypes, Phases
<1>6. PlaceTypes'
  <2>1. CASE LoadedAt(at)
    <3>1. /\ addr' = [addr EXCEPT ![list[at]] = ComputedAt(at)] /\ list[at] \in Ids
          /\ pos' = ComputedAt(at) + SizeOf(list[at]) /\ ComputedAt(at) \in Nat
      BY <1>1, <2>1, SetVirtualAddressPlaces
    <3>2. SizeOf(list[at]) \in Nat
      BY <1>1, <3>1, SizeTyped
    <3>3. pos' \in Nat
      BY <3>1, <3>2
    <3>4. addr' \in [Ids -> Nat \union {Unplaced}]
      BY <1>1, <3>1 DEF PlaceTypes
    <3>5. QED
      BY <1>1, <1>2, <3>3, <3>4 DEF PlaceTypes
  <2>2. CASE ~LoadedAt(at)
    <3>1. addr' = addr /\ pos' = pos
      BY <1>3, <2>2 DEF SetVirtualAddress, LoadedAt
    <3>2. QED
      BY <1>1, <1>2, <3>1 DEF PlaceTypes
  <2>3. QED
    BY <2>1, <2>2
<1>7. TypeOK'
  <2>1. SectionTypes' /\ SizeTypes' /\ SegmentTypes' /\ FileTypes'
    BY <1>1, <1>2 DEF SectionTypes, SizeTypes, SegmentTypes, FileTypes
  <2>2. QED
    BY <1>5, <1>6, <2>1 DEF TypeOK
<1>8. ListInv'
  BY <1>1, <1>2, <1>3, <1>4, ListKept
<1>9. AddressInv'
  BY <1>1, AddressStep
<1>10. OffsetInv'
  BY <1>2, <1>3, <1>4, <1>5, OffsetsForgotten, OffsetsBegin
<1>11. TlsInv'
  BY <1>3 DEF TlsInv
<1>12. QED
  BY <1>7, <1>8, <1>9, <1>10, <1>11 DEF IInv

\* What every step of Set_file_offsets leaves as it was.
LEMMA OffsetStep ==
    ASSUME IInv, phase = "offsets", NEW n, NEW first \in 0 .. Len(list),
           SetFileOffset(n, first), OffsetInv', offset' \in [Ids -> Nat \union {Unplaced}]
    PROVE  IInv'
<1>1. /\ SectionTypes /\ LoopTypes /\ SizeTypes /\ PlaceTypes /\ SegmentTypes /\ FileTypes
      /\ ListInv /\ AddressInv /\ Addressed
  BY DEF IInv, TypeOK, Addressed
<1>2. /\ section' = section /\ list' = list /\ run' = first /\ pos' = pos /\ addr' = addr
      /\ shndx' = shndx /\ phdrSize' = phdrSize /\ shdrSize' = shdrSize
      /\ segments' = segments /\ bssStart' = bssStart /\ eflags' = eflags /\ ehdr' = ehdr
      /\ table' = table /\ NextChunk("program headers")
  BY DEF SetFileOffset, fileVars
<1>3. \/ phase' = "program headers" /\ at' = 1
      \/ phase' = "offsets" /\ at' \in 1 .. Len(list)
  BY <1>1, <1>2, Advanced
<1>4. TypeOK'
  <2>1. LoopTypes'
    BY <1>1, <1>2, <1>3 DEF LoopTypes, Phases
  <2>2. SectionTypes' /\ SizeTypes' /\ PlaceTypes' /\ SegmentTypes' /\ FileTypes'
    BY <1>1, <1>2 DEF SectionTypes, SizeTypes, PlaceTypes, SegmentTypes, FileTypes
  <2>3. QED
    BY <2>1, <2>2 DEF TypeOK
<1>5. ListInv'
  BY <1>1, <1>2, <1>3, ListKept
<1>6. AddressInv'
  <2>1. phase \notin {"sort", "headers", "indices", "addresses"}
    OBVIOUS
  <2>2. phase' \notin {"sort", "headers", "indices", "addresses"}
    BY <1>3
  <2>3. QED
    BY <1>1, <1>2, <2>1, <2>2, AddressKept
<1>7. TlsInv'
  BY <1>3 DEF TlsInv
<1>8. QED
  BY <1>4, <1>5, <1>6, <1>7 DEF IInv

LEMMA OffsetsStep ==
    IInv /\ (SetUnloadedOffset \/ SetFirstOffset \/ SetNextOffset) => IInv'
<1> SUFFICES ASSUME IInv PROVE SetUnloadedOffset \/ SetFirstOffset \/ SetNextOffset => IInv'
  OBVIOUS
<1>1. Addressed /\ Filed /\ LoopTypes
  BY DEF IInv, TypeOK, Addressed, Filed
<1>2. PICK m \in Nat : m = Len(list)
  BY <1>1 DEF LoopTypes
<1>3. 0 \in 0 .. m
  OBVIOUS
<1>4. phase = "offsets" => at \in 0 .. m /\ run \in 0 .. m
  <2>1. phase = "offsets" => at \in DOMAIN list
    BY <1>1, FileEndFacts
  <2>2. QED
    BY <1>1, <1>2, <2>1 DEF LoopTypes
<1>5. ASSUME SetUnloadedOffset PROVE IInv'
  <2>1. OffsetInv' /\ offset' \in [Ids -> Nat \union {Unplaced}]
    BY <1>1, <1>5, UnloadedOffset
  <2>2. phase = "offsets" /\ SetFileOffset(AlignTo(FileEnd, AlignOf(list[at])), 0)
    BY <1>5 DEF SetUnloadedOffset
  <2>3. QED
    BY <1>2, <1>3, <2>1, <2>2, OffsetStep
<1>6. ASSUME SetFirstOffset PROVE IInv'
  <2>1. OffsetInv' /\ offset' \in [Ids -> Nat \union {Unplaced}]
    BY <1>1, <1>6, FirstOffset
  <2>2. PICK n : n = IF AlignOf(list[at]) > Page
                     THEN AlignTo(FileEnd, AlignOf(list[at]))
                     ELSE AlignWithSkew(FileEnd, Page, addr[list[at]])
    OBVIOUS
  <2>3. phase = "offsets" /\ SetFileOffset(n, at)
    BY <1>6, <2>2 DEF SetFirstOffset
  <2>4. PICK first \in 0 .. Len(list) : first = at
    BY <1>2, <1>4, <2>3
  <2>5. QED
    BY <2>1, <2>3, <2>4, OffsetStep
<1>7. ASSUME SetNextOffset PROVE IInv'
  <2>1. OffsetInv' /\ offset' \in [Ids -> Nat \union {Unplaced}]
    BY <1>1, <1>7, NextOffset
  <2>2. PICK n : n = offset[list[run]] + addr[list[at]] - addr[list[run]]
    OBVIOUS
  <2>3. phase = "offsets" /\ SetFileOffset(n, run)
    BY <1>7, <2>2 DEF SetNextOffset
  <2>4. PICK first \in 0 .. Len(list) : first = run
    BY <1>2, <1>4, <2>3
  <2>5. QED
    BY <2>1, <2>3, <2>4, OffsetStep
<1>8. QED
  BY <1>5, <1>6, <1>7

\* The program headers are made again; if they keep their number, they are those
\* that are written.
LEMMA RepeatStep == IInv /\ Repeat => IInv'
<1> SUFFICES ASSUME IInv, Repeat PROVE IInv'
  OBVIOUS
<1>1. /\ SectionTypes /\ LoopTypes /\ SizeTypes /\ PlaceTypes /\ FileTypes
      /\ ListInv /\ AddressInv /\ OffsetInv /\ Addressed
  BY DEF IInv, TypeOK, Addressed
<1>2. /\ phase = "program headers" /\ section' = section /\ list' = list /\ at' = at
      /\ shndx' = shndx /\ shdrSize' = shdrSize /\ addr' = addr /\ offset' = offset
      /\ bssStart' = bssStart /\ eflags' = eflags /\ ehdr' = ehdr /\ table' = table
      /\ pos' = ImageBase /\ run' = 0 /\ UpdatePhdr
      /\ phase' = IF Converged THEN "symbols" ELSE "addresses"
  BY DEF Repeat, StartAddress, fileVars
<1>3. at = 1
  BY <1>1, <1>2 DEF ListInv
<1>4. SegmentTypes' /\ phdrSize' \in Nat
  BY <1>1, <1>2, SegmentsTyped
<1>5. (phase' = "symbols" /\ phdrSize' = phdrSize) \/ phase' = "addresses"
  BY <1>2 DEF Converged
<1>6. TypeOK'
  <2>1. PICK m \in Nat : m = Len(list)
    BY <1>1 DEF LoopTypes
  <2>2. 0 \in 0 .. m
    OBVIOUS
  <2>3. LoopTypes'
    BY <1>1, <1>2, <1>3, <1>5, <2>1, <2>2 DEF LoopTypes, Phases
  <2>4. ImageBase \in Nat
    BY Constants
  <2>5. SectionTypes' /\ SizeTypes' /\ PlaceTypes' /\ FileTypes'
    BY <1>1, <1>2, <1>4, <2>4 DEF SectionTypes, SizeTypes, PlaceTypes, FileTypes
  <2>6. QED
    BY <1>4, <2>3, <2>5 DEF TypeOK
<1>7. ListInv'
  BY <1>1, <1>2, <1>3, <1>5, ListKept
<1>8. AddressInv'
  <2>1. CASE phase' = "addresses"
    BY <1>1, <1>2, <1>3, <2>1, AddressKept
  <2>2. CASE phase' = "symbols"
    <3>1. /\ phase \notin {"sort", "headers", "indices", "addresses"}
          /\ phase' \notin {"sort", "headers", "indices", "addresses"}
      BY <1>2, <2>2
    <3>2. QED
      BY <1>1, <1>2, <3>1, AddressKept
  <2>3. QED
    BY <1>5, <2>1, <2>2
<1>9. OffsetInv'
  <2>1. CASE phase' = "addresses"
    BY <2>1, OffsetsForgotten
  <2>2. CASE phase' = "symbols" /\ phdrSize' = phdrSize
    BY <1>1, <1>2, <2>2, OffsetsKept
  <2>3. QED
    BY <1>5, <2>1, <2>2
<1>10. TlsInv'
  <2>1. Loaded' = Loaded /\ (\A c : Tls(c)' <=> Tls(c)) /\ (\A c : AlignOf(c)' = AlignOf(c))
    BY <1>2 DEF Loaded, InList, Alloc, Tls, FlagsOf, AlignOf
  <2>2. ASSUME NEW s \in segments', s.type = "tls"
        PROVE  /\ s.vaddr % s.align = 0
               /\ \A c \in {d \in Loaded : Tls(d)} : s.align % AlignOf(c) = 0
    <3>1. PICK order \in Orders : segments' = Loads(order) \union TlsSegments
      BY <1>2 DEF UpdatePhdr
    <3>2. s \notin Loads(order)
      BY <1>1, <2>2, OrdersTyped, LoadsTyped
    <3>3. s \in TlsSegments
      BY <3>1, <3>2
    <3>4. phase \notin {"sort", "headers", "indices", "addresses"}
      BY <1>2
    <3>5. QED
      BY <1>1, <3>3, <3>4, TlsSegmentAligned
  <2>3. QED
    BY <2>1, <2>2 DEF TlsInv
<1>11. QED
  BY <1>6, <1>7, <1>8, <1>9, <1>10 DEF IInv

\* After the rounds, all is in its place.
LEMMA LateStep ==
    ASSUME IInv, UNCHANGED <<section, list, shndx, phdrSize, shdrSize, layoutVars, segments>>,
           phase \in {"symbols", "copy"},
           phase' \in {"copy", "done", "null symbol", "incompatible"},
           at' = 1 \/ at' \in 1 .. Len(list), phase' \in {"done", "null symbol"} => at' = 1,
           bssStart' \in Nat, FileTypes'
    PROVE  IInv'
<1>1. /\ SectionTypes /\ LoopTypes /\ SizeTypes /\ PlaceTypes /\ SegmentTypes
      /\ ListInv /\ AddressInv /\ OffsetInv /\ TlsInv /\ Addressed
  BY DEF IInv, TypeOK, Addressed
<1>2. /\ section' = section /\ list' = list /\ shndx' = shndx /\ phdrSize' = phdrSize
      /\ shdrSize' = shdrSize /\ pos' = pos /\ addr' = addr /\ run' = run /\ offset' = offset
      /\ segments' = segments
  BY DEF layoutVars
<1>3. run = 0
  BY <1>1 DEF ListInv
<1>4. TypeOK'
  <2>1. LoopTypes'
    BY <1>1, <1>2 DEF LoopTypes, Phases
  <2>2. SectionTypes' /\ SizeTypes' /\ PlaceTypes' /\ SegmentTypes'
    BY <1>1, <1>2 DEF SectionTypes, SizeTypes, PlaceTypes, SegmentTypes
  <2>3. QED
    BY <2>1, <2>2 DEF TypeOK
<1>5. ListInv'
  <2>1. phase' \notin {"addresses", "offsets", "copy", "incompatible"} => at' = 1
    OBVIOUS
  <2>2. /\ phase \notin {"sort", "headers", "indices"}
        /\ phase' \notin {"sort", "headers", "indices"}
    OBVIOUS
  <2>3. QED
    BY <1>1, <1>2, <1>3, <2>1, <2>2, ListKept
<1>6. AddressInv'
  <2>1. /\ phase \notin {"sort", "headers", "indices", "addresses"}
        /\ phase' \notin {"sort", "headers", "indices", "addresses"}
    OBVIOUS
  <2>2. QED
    BY <1>1, <1>2, <2>1, AddressKept
<1>7. OffsetInv'
  BY <1>1, <1>2, OffsetsKept
<1>8. TlsInv'
  <2>1. Loaded' = Loaded /\ (\A c : Tls(c)' <=> Tls(c)) /\ (\A c : AlignOf(c)' = AlignOf(c))
    BY <1>2 DEF Loaded, InList, Alloc, Tls, FlagsOf, AlignOf
  <2>2. QED
    BY <1>1, <1>2, <2>1 DEF TlsInv
<1>9. QED
  BY <1>4, <1>5, <1>6, <1>7, <1>8 DEF IInv

LEMMA SymbolsStep == IInv /\ (FixUpCrashes \/ FixUpSyntheticSymbols) => IInv'
<1> SUFFICES ASSUME IInv, FixUpCrashes \/ FixUpSyntheticSymbols PROVE IInv'
  OBVIOUS
<1>1. SectionTypes /\ LoopTypes /\ PlaceTypes /\ FileTypes /\ ListInv
  BY DEF IInv, TypeOK
<1>2. /\ UNCHANGED <<section, list, at, shndx, phdrSize, shdrSize, layoutVars, segments>>
      /\ eflags' = eflags /\ ehdr' = ehdr /\ table' = table
      /\ phase = "symbols" /\ phase' \in {"null symbol", "copy"}
  BY DEF FixUpCrashes, FixUpSyntheticSymbols, fileVars
<1>3. at' = 1
  BY <1>1, <1>2 DEF ListInv
<1>4. bssStart' \in Nat
  <2>1. CASE bssStart' = bssStart
    BY <1>1, <2>1 DEF PlaceTypes
  <2>2. ASSUME bssStart' # bssStart PROVE bssStart' \in Nat
    <3>1. bssStart' = AddrOf(Bss) /\ \E i \in 1 .. Len(list) : list[i] = Bss
      BY <2>2 DEF FixUpCrashes, FixUpSyntheticSymbols
    <3>2. Bss \in Ids
      BY <1>1, <3>1 DEF LoopTypes
    <3>3. addr[Bss] \in Nat \union {Unplaced}
      BY <1>1, <3>2 DEF PlaceTypes
    <3>4. QED
      BY <3>1, <3>3 DEF AddrOf
  <2>3. QED
    BY <2>1, <2>2
<1>5. FileTypes'
  BY <1>1, <1>2 DEF FileTypes
<1>6. QED
  BY <1>2, <1>3, <1>4, <1>5, LateStep

\* The flags of the first file, which is there, are flags, and so are the 16 bits.
LEMMA CopyEhdrTyped == IInv /\ CopyEhdr => FileTypes'
<1> SUFFICES ASSUME IInv, CopyEhdr PROVE FileTypes'
  OBVIOUS
<1>1. SectionTypes /\ LoopTypes /\ SizeTypes /\ PlaceTypes /\ FileTypes /\ ListInv /\ Filed
  BY DEF IInv, TypeOK, Filed
<1>2. phase = "copy" /\ table' = table /\ eflags' \in KeptFlags
  BY DEF CopyEhdr, Copying
<1>3. PICK kept \in Seq(EFlags) : kept = eflags' /\ kept # <<>>
  BY <1>2, LayoutAssumption
<1>4. GetEflags(kept) \in EFlags
  <2>1. kept[1] \in EFlags
    BY <1>3
  <2>2. PICK b \in BOOLEAN : b = \E i \in DOMAIN kept : kept[i].rvc
    OBVIOUS
  <2>3. [kept[1] EXCEPT !.rvc = b] \in EFlags
    BY <2>1 DEF EFlags
  <2>4. QED
    BY <2>2, <2>3 DEF GetEflags
<1>5. offset[Phdr] \in Nat \union {Unplaced} /\ offset[Shdr] \in Nat
  <2>1. Phdr \in Ids
    BY Constants
  <2>2. Shdr \in InList
    BY <1>1, <1>2 DEF ListInv
  <2>3. PICK i \in DOMAIN list : list[i] = Shdr
    BY <1>1, <2>2, Positions
  <2>4. Written(i)
    BY <1>2 DEF Written
  <2>5. QED
    BY <1>1, <2>1, <2>3, <2>4, FileFacts DEF PlaceTypes
<1>6. PICK h \in Nat, p \in Nat \ {0}, e \in Nat \ {0}, m \in Nat, n \in Nat :
        h = HalfMax /\ p = PhdrEntry /\ e = ShdrEntry /\ m = phdrSize /\ n = shdrSize
  BY <1>1, Constants DEF SizeTypes
<1>7. (m \div p) % (h + 1) \in 0 .. h
  <2>1. PICK q \in Nat : q = m \div p
    BY QuotientTyped
  <2>2. PICK k \in Nat \ {0} : k = h + 1
    OBVIOUS
  <2>3. q % k \in 0 .. k - 1
    OBVIOUS
  <2>4. QED
    BY <2>1, <2>2, <2>3
<1>8. Half(n \div e) \in 0 .. h
  <2>1. PICK q \in Nat : q = n \div e
    BY QuotientTyped
  <2>2. QED
    BY <1>6, <2>1 DEF Half
<1>9. ehdr' = [flags |-> GetEflags(kept),
               phoff |-> IF offset[Phdr] = Unplaced THEN 0 ELSE offset[Phdr],
               phnum |-> (m \div p) % (h + 1),
               shoff |-> offset[Shdr],
               shnum |-> Half(n \div e)]
  BY <1>3, <1>6 DEF CopyEhdr
<1>10. (IF offset[Phdr] = Unplaced THEN 0 ELSE offset[Phdr]) \in Nat
  BY <1>5
<1>11. ehdr' \in EhdrType
  BY <1>4, <1>5, <1>6, <1>7, <1>8, <1>9, <1>10 DEF EhdrType
<1>12. QED
  BY <1>1, <1>2, <1>11 DEF FileTypes

LEMMA CopyShdrTyped == IInv /\ CopyShdr => FileTypes'
<1> SUFFICES ASSUME IInv, CopyShdr PROVE FileTypes'
  OBVIOUS
<1>1. SectionTypes /\ LoopTypes /\ SizeTypes /\ FileTypes /\ ListInv
  BY DEF IInv, TypeOK
<1>2. eflags' = eflags /\ ehdr' = ehdr
  BY DEF CopyShdr
<1>3. PICK order \in Seq(Ids), k \in Nat :
         order = list /\ k = Len(list) /\ DOMAIN order = 1 .. k
  <2>1. PICK order \in Seq(Ids) : order = list
    BY <1>1 DEF LoopTypes
  <2>2. Len(order) \in Nat /\ DOMAIN order = 1 .. Len(order)
    OBVIOUS
  <2>3. QED
    BY <2>1, <2>2
<1>4. PICK n \in Nat : n = shdrSize \div ShdrEntry
  <2>1. PICK e \in Nat \ {0}, m \in Nat : e = ShdrEntry /\ m = shdrSize
    BY <1>1, Constants DEF SizeTypes
  <2>2. m \div e \in Nat
    BY QuotientTyped
  <2>3. QED
    BY <2>1, <2>2
<1> DEFINE having(i) == {j \in DOMAIN list : shndx[list[j]] = i}
<1>5. PICK header : header = [i \in 1 .. (shdrSize \div ShdrEntry) - 1 |->
                      IF having(i) = {} THEN 0
                      ELSE list[CHOOSE j \in having(i) : \A l \in having(i) : l <= j]]
  OBVIOUS
<1>6. table' = [null |-> IF shdrSize \div ShdrEntry > HalfMax THEN shdrSize \div ShdrEntry ELSE 0,
                of |-> header]
  BY <1>5 DEF CopyShdr
<1>7. \A i : having(i) \in SUBSET (1 .. k)
  BY <1>3
<1> HIDE DEF having
<1>8. ASSUME NEW i \in 1 .. n - 1 PROVE header[i] \in {0} \union Ids
  <2>1. CASE having(i) = {}
    BY <1>4, <1>5, <2>1
  <2>2. CASE having(i) # {}
    <3>1. having(i) \in SUBSET Nat /\ \A j \in having(i) : j <= k
      BY <1>7
    <3>2. \E j \in having(i) : \A l \in having(i) : l <= j
      BY <2>2, <3>1, GreatestNatural
    <3>3. PICK j : j = CHOOSE m \in having(i) : \A l \in having(i) : l <= m
      OBVIOUS
    <3>4. j \in 1 .. k
      BY <1>7, <3>2, <3>3
    <3>5. header[i] = order[j]
      BY <1>3, <1>4, <1>5, <2>2, <3>3
    <3>6. QED
      BY <1>3, <3>4, <3>5
  <2>3. QED
    BY <2>1, <2>2
<1>9. header \in Seq({0} \union Ids)
  <2>1. PICK m \in Nat : 1 .. m = 1 .. n - 1
    <3>1. CASE n = 0
      <4>1. 1 .. 0 = 1 .. n - 1
        BY <3>1
      <4>2. QED
        BY <4>1
    <3>2. CASE n # 0
      <4>1. n - 1 \in Nat
        BY <3>2
      <4>2. QED
        BY <4>1
    <3>3. QED
      BY <3>1, <3>2
  <2>2. header \in [1 .. m -> {0} \union Ids]
    BY <1>4, <1>5, <1>8, <2>1
  <2>3. QED
    BY <2>2
<1>10. QED
  BY <1>1, <1>2, <1>4, <1>6, <1>9 DEF FileTypes

LEMMA CopyStep == IInv /\ (IncompatibleFiles \/ CopyEhdr \/ CopyShdr \/ CopyOther) => IInv'
<1> SUFFICES ASSUME IInv, IncompatibleFiles \/ CopyEhdr \/ CopyShdr \/ CopyOther PROVE IInv'
  OBVIOUS
<1>1. SectionTypes /\ LoopTypes /\ PlaceTypes /\ FileTypes /\ ListInv
  BY DEF IInv, TypeOK
<1>2. /\ UNCHANGED <<section, list, shndx, phdrSize, shdrSize, layoutVars, segments>>
      /\ bssStart' = bssStart /\ phase = "copy"
      /\ \/ phase' = "incompatible" /\ at' = at
         \/ NextChunk("done")
  BY DEF IncompatibleFiles, CopyEhdr, CopyShdr, CopyOther, Copying
<1>3. /\ at' = 1 \/ at' \in 1 .. Len(list)
      /\ phase' \in {"copy", "done", "null symbol", "incompatible"}
      /\ phase' \in {"done", "null symbol"} => at' = 1
  <2>1. CASE phase' = "incompatible" /\ at' = at
    BY <1>1, <2>1 DEF LoopTypes
  <2>2. CASE NextChunk("done")
    <3>1. \/ phase' = "done" /\ at' = 1
          \/ phase' = "copy" /\ at' \in 1 .. Len(list)
      BY <1>1, <1>2, <2>2, Advanced
    <3>2. QED
      BY <3>1
  <2>3. QED
    BY <1>2, <2>1, <2>2
<1>4. bssStart' \in Nat
  BY <1>1, <1>2 DEF PlaceTypes
<1>5. FileTypes'
  <2>1. CASE IncompatibleFiles
    BY <1>1, <2>1 DEF FileTypes, IncompatibleFiles
  <2>2. CASE CopyOther
    BY <1>1, <2>2 DEF FileTypes, CopyOther, fileVars
  <2>3. QED
    BY <2>1, <2>2, CopyEhdrTyped, CopyShdrTyped
<1>6. QED
  BY <1>2, <1>3, <1>4, <1>5, LateStep

LEMMA InvariantInit == Init => IInv
<1> SUFFICES ASSUME Init PROVE IInv
  OBVIOUS
<1>1. /\ ImageBase \in Nat /\ Reserve \in Nat /\ HalfMax \in Nat
      /\ DOMAIN section \subseteq Names /\ \A c \in DOMAIN section : section[c] \in Shapes
  BY Constants DEF Init
<1>2. list = <<>> /\ list \in Seq(Ids) /\ Len(list) = 0 /\ DOMAIN list = {}
  BY DEF Init
<1>3. LoopTypes
  BY <1>2 DEF Init, LoopTypes, Phases
<1>4. SectionTypes /\ SizeTypes /\ PlaceTypes /\ SegmentTypes
  BY <1>1 DEF Init, SectionTypes, SizeTypes, PlaceTypes, SegmentTypes
<1>5. FileTypes
  <2>1. NoEhdr \in EhdrType
    <3>1. 0 \in 0 .. HalfMax
      BY <1>1
    <3>2. NoEFlags \in EFlags
      BY DEF NoEFlags, EFlags
    <3>3. QED
      BY <3>1, <3>2 DEF NoEhdr, EhdrType
  <2>2. NoTable.null \in Nat /\ NoTable.of \in Seq({0} \union Ids)
    BY DEF NoTable
  <2>3. QED
    BY <2>1, <2>2 DEF Init, FileTypes
<1>6. ListInv
  BY <1>2 DEF Init, ListInv
<1>7. AddressInv
  BY <1>2 DEF Init, AddressInv
<1>8. OffsetInv /\ TlsInv
  BY DEF Init, OffsetInv, Written, TlsInv
<1>9. QED
  BY <1>3, <1>4, <1>5, <1>6, <1>7, <1>8 DEF IInv, TypeOK

LEMMA InvariantStutter == IInv /\ UNCHANGED vars => IInv'
<1> SUFFICES ASSUME IInv, UNCHANGED vars PROVE IInv'
  OBVIOUS
<1>1. /\ section' = section /\ list' = list /\ phase' = phase /\ at' = at /\ shndx' = shndx
      /\ phdrSize' = phdrSize /\ shdrSize' = shdrSize /\ pos' = pos /\ addr' = addr
      /\ run' = run /\ offset' = offset /\ segments' = segments /\ bssStart' = bssStart
      /\ eflags' = eflags /\ ehdr' = ehdr /\ table' = table
  BY DEF vars, layoutVars, fileVars
<1>2. TypeOK'
  BY <1>1 DEF IInv, TypeOK, SectionTypes, LoopTypes, SizeTypes, PlaceTypes, SegmentTypes, FileTypes
<1>3. ListInv'
  <2>1. \A c, d : Before(c, d)' <=> Before(c, d)
    BY <1>1, StaticOrder
  <2>2. InList' = InList
    BY <1>1 DEF InList
  <2>3. QED
    BY <1>1, <2>1, <2>2 DEF IInv, ListInv
<1>4. AddressInv'
  <2>1. SectionTypes /\ LoopTypes /\ AddressInv
    BY DEF IInv, TypeOK
  <2>2. PICK n \in Nat : n = Len(list) /\ DOMAIN list = 1 .. n /\ at \in Int
    BY <2>1 DEF LoopTypes
  <2>3. \A i \in Int : (LoadedAt(i)' <=> LoadedAt(i)) /\ PosAt(i)' = PosAt(i)
                       /\ ComputedAt(i)' = ComputedAt(i)
    BY <1>1, <2>1, PlacesKept
  <2>4. PosAt(at)' = PosAt(at)
    <3>1. PICK k \in Int : k = at
      BY <2>2
    <3>2. PosAt(at)' = PosAt(k)'
      BY <1>1, <3>1 DEF PosAt, LoadedAt, EndAt
    <3>3. QED
      BY <2>3, <3>1, <3>2
  <2>5. QED
    BY <1>1, <2>1, <2>2, <2>3, <2>4 DEF AddressInv
<1>5. OffsetInv'
  BY <1>1 DEF IInv, OffsetInv, Written, LoadedAt, Alloc, FlagsOf, FileEndAt, SizeOf
<1>6. TlsInv'
  <2>1. Loaded' = Loaded /\ (\A c : Tls(c)' <=> Tls(c)) /\ (\A c : AlignOf(c)' = AlignOf(c))
    BY <1>1 DEF Loaded, InList, Alloc, Tls, FlagsOf, AlignOf
  <2>2. QED
    BY <1>1, <2>1 DEF IInv, TlsInv
<1>7. QED
  BY <1>2, <1>3, <1>4, <1>5, <1>6 DEF IInv

LEMMA InvariantStep == IInv /\ [Next]_vars => IInv'
BY SortStep, RemoveStep, IndicesStep, AddressesStep, OffsetsStep, RepeatStep, SymbolsStep,
   CopyStep, InvariantStutter DEF Next, Terminated

\* Every pass, in every round, keeps the addresses and offsets it relies on.
THEOREM Invariance == Spec => []IInv
BY InvariantInit, InvariantStep, PTL DEF Spec

\* No pass leaves its list or computes a size, an address or a header of another
\* type.
THEOREM TypeCorrect == Spec => []TypeOK
<1>1. IInv => TypeOK
  BY DEF IInv
<1>2. QED
  BY <1>1, Invariance, PTL

\* Set_virtual_addresses: loaded chunks are aligned, no two share a byte, and two
\* that are mapped with different rights do not share a page.
THEOREM AddressesCorrect == Spec => []PagesSeparated
<1>1. IInv => PagesSeparated
  <2> SUFFICES ASSUME IInv, phase \in {"offsets", "program headers"} PROVE PagesSeparated
    BY DEF PagesSeparated
  <2>1. Addressed /\ phase \notin {"sort", "headers", "indices", "addresses"}
    BY DEF IInv, TypeOK, Addressed
  <2>2. QED
    BY <2>1, Separation DEF PagesSeparated
<1>2. QED
  BY <1>1, Invariance, PTL

\* Set_file_offsets: every chunk is inside the file, and no two share a byte of it.
THEOREM OffsetsCorrect == Spec => []FileDisjoint
<1>1. IInv => FileDisjoint
  BY FileLaidOut DEF IInv, TypeOK, Filed
<1>2. QED
  BY <1>1, Invariance, PTL

\* Set_file_offsets: offsets agree with addresses modulo a page.
THEOREM CongruenceCorrect == Spec => []Congruent
<1>1. IInv => Congruent
  BY FileLaidOut DEF IInv, TypeOK, Filed
<1>2. QED
  BY <1>1, Invariance, PTL

\* Thread-local sections are aligned against the first of them, and the PT_TLS that
\* is written is aligned for all of them.
THEOREM TlsCorrect == Spec => []TlsAligned
<1>1. IInv => TlsAligned
  <2> SUFFICES ASSUME IInv PROVE TlsAligned
    OBVIOUS
  <2>1. Addressed /\ TlsInv
    BY DEF IInv, TypeOK, Addressed
  <2>2. ASSUME phase \in {"offsets", "done"}, NEW c \in {d \in Loaded : Tls(d)},
               NEW first \in {d \in Loaded : Tls(d)}, IsFirstTls(first)
        PROVE  (addr[c] - addr[first]) % AlignOf(c) = 0
    <3>1. phase \notin {"sort", "headers", "indices", "addresses"}
      BY <2>2
    <3>2. QED
      BY <2>1, <2>2, <3>1, TlsOffsets
  <2>3. QED
    BY <2>1, <2>2 DEF TlsAligned, TlsInv
<1>2. QED
  BY <1>1, Invariance, PTL

-----------------------------------------------------------------------------
(***************************************************************************)
(* Set_virtual_addresses implements Placement.                             *)
(***************************************************************************)
\* Where Placement says that sections are, and that memory has no end.
Place(i) == IF i[1] \in DOMAIN section /\ section[i[1]] = i[2] THEN addr[i[1]] ELSE Unplaced
Places == [m \in {"memory"} |-> [i \in Names \X Shapes |-> Place(i)]]
NoEnd == [m \in {"memory"} |-> -1]

\* Nothing is placed in the beginning.
LEMMA PlacementInit == Init => Memory!Init
<1> SUFFICES ASSUME Init PROVE Memory!Init
  OBVIOUS
<1>1. \A i \in Names \X Shapes : Place(i) = -1
  <2> TAKE i \in Names \X Shapes
  <2>1. Names \subseteq Ids /\ i[1] \in Names
    BY Constants
  <2>2. addr[i[1]] = -1
    BY <2>1 DEF Init, Unplaced
  <2>3. QED
    BY <2>2 DEF Place, Unplaced
<1>2. Places = [m \in {"memory"} |-> [i \in Names \X Shapes |-> -1]]
  BY <1>1 DEF Places
<1>3. QED
  BY <1>2 DEF Places, Place, Memory!Init, Memory!Unplaced, Memory!Open

\* A chunk that has its address and comes before the one that gets its own ends
\* before it.
LEMMA PlacedBefore ==
    ASSUME Addressed, SetVirtualAddress, LoadedAt(at),
           NEW k \in DOMAIN list, k < at, LoadedAt(k)
    PROVE  addr[list[k]] # Unplaced /\ EndAt(k) <= ComputedAt(at)
<1>1. DOMAIN list = 1 .. Len(list) /\ Len(list) \in Nat /\ at \in DOMAIN list
  BY ListFacts, SetVirtualAddressPlaces DEF Addressed
<1>2. phase = "addresses"
  BY DEF SetVirtualAddress
<1>3. at - 1 \in DOMAIN list /\ k <= at - 1 /\ at - 1 <= at
  BY <1>1
<1>4. LoadedAt(at - 1)
  BY <1>1, <1>3, Contiguous DEF Addressed
<1>5. \A i \in DOMAIN list : LoadedAt(i) /\ i < at => addr[list[i]] # Unplaced
  <2> TAKE i \in DOMAIN list
  <2>1. i < at => ~(i >= at)
    BY <1>1
  <2>2. QED
    BY <1>2, <2>1 DEF Addressed, AddressInv
<1>6. addr[list[at-1]] # Unplaced /\ addr[list[k]] # Unplaced
  BY <1>1, <1>3, <1>4, <1>5
<1>7. PosAt(at) = EndAt(at - 1) /\ PosAt(at) \in Nat /\ PosAt(at) <= ComputedAt(at)
      /\ ComputedAt(at) \in Nat
  BY <1>4, SetVirtualAddressPlaces DEF PosAt
<1>8. EndAt(k) <= EndAt(at - 1)
  <2>1. EndAt(k) \in Nat /\ EndAt(at - 1) \in Nat /\ addr[list[at-1]] <= EndAt(at - 1)
        /\ addr[list[at-1]] \in Nat
    BY <1>3, <1>6, EndTyped
  <2>2. CASE k = at - 1
    BY <2>1, <2>2
  <2>3. CASE k < at - 1
    <3>1. PICK j \in DOMAIN list : j = at - 1
      BY <1>3
    <3>2. EndAt(k) <= PosAt(j) /\ PosAt(j) <= addr[list[j]] /\ PosAt(j) \in Nat
      BY <1>4, <1>6, <2>3, <3>1, Chain, AddressFacts
    <3>3. QED
      BY <2>1, <3>1, <3>2
  <2>4. QED
    BY <1>1, <1>3, <2>2, <2>3
<1>9. EndAt(k) \in Nat
  BY <1>6, EndTyped
<1>10. QED
  BY <1>6, <1>7, <1>8, <1>9

\* In the first round, the address of a chunk is behind all that have one.
LEMMA PlacementPlace ==
    ASSUME IInv, SetVirtualAddress, LoadedAt(at), addr[list[at]] = Unplaced,
           NEW c, c = list[at]
    PROVE  \E i \in Names \X Shapes : i = <<c, section[c]>> /\ Memory!Place("memory", i)
<1>1. Addressed /\ SectionTypes /\ PlaceTypes /\ LoopTypes
  BY DEF IInv, TypeOK, Addressed
<1>2. /\ DOMAIN list = 1 .. Len(list) /\ Len(list) \in Nat /\ at \in DOMAIN list /\ c \in Ids
      /\ addr' = [addr EXCEPT ![c] = ComputedAt(at)] /\ ComputedAt(at) \in Nat
  BY <1>1, ListFacts, SetVirtualAddressPlaces DEF Addressed
<1>3. c \in DOMAIN section /\ c \in Names /\ section[c] \in Shapes
  BY <1>1, <1>2, ChunkTypes DEF LoadedAt
<1>4. section' = section
  BY DEF SetVirtualAddress
<1>5. PICK item \in Names \X Shapes : item = <<c, section[c]>>
  BY <1>3
<1>6. Names \subseteq Ids
  BY Constants
<1>7. \A i \in Names \X Shapes : /\ i = item => Place(i)' = ComputedAt(at)
                                 /\ i # item => Place(i)' = Place(i)
  <2> TAKE i \in Names \X Shapes
  <2>1. PICK n \in Names, s \in Shapes : i = <<n, s>>
    OBVIOUS
  <2>2. n \in Ids
    BY <1>6
  <2>3. CASE i = item
    <3>1. i[1] = c /\ i[2] = section[c]
      BY <1>5, <2>3
    <3>2. addr'[c] = ComputedAt(at)
      BY <1>1, <1>2 DEF PlaceTypes
    <3>3. QED
      BY <1>3, <1>4, <2>3, <3>1, <3>2 DEF Place
  <2>4. CASE i # item
    <3>1. n # c \/ s # section[n]
      BY <1>5, <2>1, <2>4
    <3>2. n # c => addr'[n] = addr[n]
      BY <1>1, <1>2, <2>2 DEF PlaceTypes
    <3>3. i[1] = n /\ i[2] = s
      BY <2>1
    <3>4. QED
      BY <1>4, <2>4, <3>1, <3>2, <3>3 DEF Place
  <2>5. QED
    BY <2>3, <2>4
<1>8. Place(item) = -1
  BY <1>5 DEF Place, Unplaced
<1>9. ASSUME NEW i \in Names \X Shapes, Place(i) # -1
      PROVE  Place(i) + i[2].size <= ComputedAt(at)
  <2>1. PICK n \in Names, s \in Shapes : i = <<n, s>>
    OBVIOUS
  <2>2. n \in DOMAIN section /\ section[n] = s /\ Place(i) = addr[n] /\ addr[n] # Unplaced
    BY <1>9, <2>1 DEF Place, Unplaced
  <2>3. PICK k \in DOMAIN list : LoadedAt(k) /\ list[k] = n
    BY <1>1, <1>6, <2>2 DEF Addressed, AddressInv
  <2>4. k < at
    <3>1. k # at
      BY <2>2, <2>3
    <3>2. ~(at < k)
      BY <1>1, <1>2, <2>2, <2>3 DEF Addressed, AddressInv
    <3>3. QED
      BY <1>2, <3>1, <3>2
  <2>5. EndAt(k) <= ComputedAt(at)
    BY <1>1, <2>3, <2>4, PlacedBefore
  <2>6. EndAt(k) = addr[n] + SizeOf(n)
    BY <2>3 DEF EndAt
  <2>7. SizeOf(n) = s.size
    <3>1. n # Ehdr /\ n # Phdr /\ n # Shdr
      BY Constants
    <3>2. QED
      BY <2>2, <3>1 DEF SizeOf
  <2>8. QED
    BY <2>1, <2>2, <2>5, <2>6, <2>7
<1>10. PICK before, after : before = Places /\ after = Places'
  OBVIOUS
<1>11. /\ before = [m \in {"memory"} |-> [i \in Names \X Shapes |-> Place(i)]]
       /\ after = [m \in {"memory"} |-> [i \in Names \X Shapes |-> Place(i)']]
  BY <1>10 DEF Places
<1>12. after["memory"][item] = ComputedAt(at)
  BY <1>7, <1>11
<1>13. after = [before EXCEPT !["memory"][item] = after["memory"][item]]
  <2>1. [before["memory"] EXCEPT ![item] = after["memory"][item]] = after["memory"]
    BY <1>7, <1>11, <1>12
  <2>2. before \in [{"memory"} -> {before["memory"]}] /\ after = [m \in {"memory"} |-> after["memory"]]
    BY <1>11
  <2>3. QED
    BY <2>1, <2>2
<1>14. \A i \in Names \X Shapes : [j \in Names \X Shapes |-> j[2].size][i] = i[2].size
  OBVIOUS
<1>15. /\ item \notin {i \in Names \X Shapes : before["memory"][i] # -1}
       /\ after["memory"][item] \in Nat
       /\ \A i \in {j \in Names \X Shapes : before["memory"][j] # -1} :
            before["memory"][i] + [j \in Names \X Shapes |-> j[2].size][i] <= after["memory"][item]
  BY <1>2, <1>8, <1>9, <1>11, <1>12, <1>14
<1>16. Memory!Place("memory", item)
  BY <1>10, <1>13, <1>15
     DEF Places, Place, Memory!Place, Memory!Placed, Memory!Behind, Memory!Unplaced, Memory!Open
<1>17. QED
  BY <1>5, <1>16

\* No step but that of Set_virtual_addresses gives an address, and in the later
\* rounds it gives the same one again.
LEMMA PlacementStep ==
    ASSUME IInv, [Next]_vars
    PROVE  Memory!Next \/ UNCHANGED <<Places, NoEnd>>
<1>1. Addressed
  BY DEF IInv, TypeOK, Addressed
<1>2. section' = section /\ addr' = addr => UNCHANGED <<Places, NoEnd>>
  BY DEF Places, Place, NoEnd
<1>3. CASE ~SetVirtualAddress
  <2>1. section' = section /\ addr' = addr
    BY <1>3 DEF Next, vars, layoutVars, SortOutputSections, RemoveEmptyChunks, SetSectionIndices,
       SetUnloadedOffset, SetFirstOffset, SetNextOffset, SetFileOffset, Repeat, FixUpCrashes,
       FixUpSyntheticSymbols, IncompatibleFiles, CopyEhdr, CopyShdr, CopyOther, Terminated
  <2>2. QED
    BY <1>2, <2>1
<1>4. CASE SetVirtualAddress /\ ~LoadedAt(at)
  <2>1. phase # "sort"
    BY <1>4 DEF SetVirtualAddress
  <2>2. at \in DOMAIN list
    BY <1>1, <1>4, <2>1, Advanced DEF SetVirtualAddress, Addressed
  <2>3. section' = section /\ addr' = addr
    BY <1>4, <2>2 DEF SetVirtualAddress, LoadedAt
  <2>4. QED
    BY <1>2, <2>3
<1>5. CASE SetVirtualAddress /\ LoadedAt(at) /\ addr[list[at]] # Unplaced
  <2>1. /\ at \in DOMAIN list /\ list[at] \in Ids
        /\ addr' = [addr EXCEPT ![list[at]] = ComputedAt(at)]
    BY <1>1, <1>5, SetVirtualAddressPlaces
  <2>2. addr[list[at]] = ComputedAt(at)
    BY <1>1, <1>5, <2>1 DEF Addressed, AddressInv
  <2>3. addr \in [Ids -> Nat \union {Unplaced}]
    BY <1>1 DEF Addressed, PlaceTypes
  <2>4. addr' = addr
    BY <2>1, <2>2, <2>3
  <2>5. section' = section
    BY <1>5 DEF SetVirtualAddress
  <2>6. QED
    BY <1>2, <2>4, <2>5
<1>6. CASE SetVirtualAddress /\ LoadedAt(at) /\ addr[list[at]] = Unplaced
  <2>1. PICK i \in Names \X Shapes : Memory!Place("memory", i)
    BY <1>6, PlacementPlace
  <2>2. QED
    BY <2>1 DEF Memory!Next
<1>7. QED
  BY <1>3, <1>4, <1>5, <1>6

\* Memory is laid out as Placement says: each section behind those before it, and
\* the rounds that follow do not move it.
THEOREM Implementation == Spec => ImplementsPlacement
<1>1. Init => Memory!Init
  BY PlacementInit
<1>2. IInv /\ [Next]_vars => Memory!Next \/ UNCHANGED <<Places, NoEnd>>
  BY PlacementStep
<1>3. QED
  BY <1>1, <1>2, Invariance, PTL
     DEF Spec, ImplementsPlacement, Memory!Spec, Places, Place, NoEnd
=============================================================================

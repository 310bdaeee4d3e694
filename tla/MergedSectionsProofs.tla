------------------------ MODULE MergedSectionsProofs ------------------------
(***************************************************************************)
(* Merging is correct for every number of files, all contents of sections, *)
(* all outputs and alignments: the invariants MergedSections states hold,  *)
(* and it implements Placement.                                            *)
(*                                                                         *)
(* IInv says what each pass leaves for the next: which sections are listed *)
(* (SplitInv), that the pieces of those are in the pool with an alignment  *)
(* that is enough (PoolInv), what symbols and relocations were given       *)
(* (ResolveInv), that pieces lie in the order of their ranks (LayoutInv),  *)
(* and that what was copied is still there (ImageInv).                     *)
(***************************************************************************)
EXTENDS MergedSections, LayoutLemmas

\* A pass has been over file f.
Split(f) ==
    \/ phase = "init" /\ f < next
    \/ phase \in {"collect", "resolve", "assign", "copy", "done", "assertion failed"}
Collected(f) ==
    \/ phase = "collect" /\ f < next
    \/ phase \in {"resolve", "assign", "copy", "done", "assertion failed"}
Resolved(f) ==
    \/ phase = "resolve" /\ f < next
    \/ phase \in {"assign", "copy", "done"}

SplitInv ==
    /\ \A id \in merged : SectionOf(id).kind \in {"pieces", "no entry size"}
    /\ \A id \in listed : SectionOf(id).kind = "pieces" /\ SectionOf(id).out \in made
    /\ \A f \in Files : Split(f) => OfKind(f, {"pieces"}) \subseteq listed

PoolInv ==
    \A f \in Files : Collected(f) => \A id \in Sections(f) \intersect listed :
        LET k == SectionOf(id) IN
        \A c \in Range(k.data) : <<k.out, c>> \in pool /\ k.align <= align[k.out][c]

ResolveInv ==
    \A f \in Files : Resolved(f) =>
        /\ named[f] = [p \in Places(f) |-> MergeablePiece(SectionOf(<<f, p[1]>>), p[2])]
        /\ fragment[f] = [r \in Handled(f) |-> Fragment(f, r)]

\* The end of piece c in output o.
EndOf(o, c) == offset[o][c] + Size[c]

\* Assign_offset has come past piece c of output o.
Past(o, c) ==
    /\ Alive(o) /\ c \in PiecesOf(o)
    /\ LaidOut(o) \/ (phase = "assign" /\ o = out /\ c \notin left)

\* The loops over the merged sections, and over the pieces of one.
LoopInv ==
    /\ phase \notin {"assign", "copy"} => out = NoOutput
    /\ phase \in {"init", "collect", "resolve"} => todo = {}
    /\ todo \subseteq made
    /\ out # NoOutput =>
         /\ out \in made \ todo
         /\ left \subseteq PiecesOf(out)
         /\ \A c \in PiecesOf(out) \ left, d \in left : Rank[c] < Rank[d]
    /\ phase = "copy" => \A o \in todo \union {out} : o # NoOutput => Alive(o)

\* Pieces have an offset from then on, in the order of their ranks.
PlacedInv == \A o \in Outputs, c \in Contents : offset[o][c] # Unplaced <=> Past(o, c)

OrderInv ==
    \A o \in Outputs : \A c, d \in Contents :
        Past(o, c) /\ Past(o, d) /\ Rank[c] < Rank[d] =>
            EndOf(o, c) <= offset[o][d] /\ offset[o][d] % align[o][c] = 0

\* The cursor is at the end of the last of them, the section ends there.
CursorInv ==
    phase = "assign" /\ out # NoOutput =>
        /\ \A c \in Contents : Past(out, c) => EndOf(out, c) <= cursor /\ align[out][c] <= top
        /\ cursor = 0 \/ \E c \in Contents : Past(out, c) /\ cursor = EndOf(out, c)

ExtentInv ==
    \A o \in Outputs : LaidOut(o) =>
        /\ \A c \in Contents : Past(o, c) => EndOf(o, c) <= shsize[o] /\ align[o][c] <= shalign[o]
        /\ ~Alive(o) => shsize[o] = 0

LayoutInv == PlacedInv /\ OrderInv /\ CursorInv /\ ExtentInv

\* m_copy_chunk has come past piece c of output o.
Copied(o, c) ==
    /\ o \in made /\ Alive(o) /\ c \in PiecesOf(o)
    /\ \/ phase = "done"
       \/ phase = "copy" /\ o \notin todo /\ (o = out => c \notin left)

ImageInv ==
    phase \in {"copy", "done"} =>
        /\ \A o \in Outputs : DOMAIN image[o] = 0 .. shsize[o] - 1
        /\ \A o \in Outputs, c \in Contents : Copied(o, c) =>
             \A j \in 0 .. Size[c] - 1 : image[o][offset[o][c] + j] = <<c, j>>

IInv ==
    /\ TypeOK /\ SplitInv /\ PoolInv /\ ResolveInv /\ LoopInv /\ LayoutInv /\ ImageInv
    /\ ErrorsAreReal

-----------------------------------------------------------------------------
(***************************************************************************)
(* Facts about files, sections and pieces.                                 *)
(***************************************************************************)

\* The loop over the files stays among them.
LEMMA FilesFacts ==
    /\ NumFiles \in Nat \ {0}
    /\ 1 \in Files
    /\ \A f \in Files : f \in Nat /\ (f # NumFiles => f + 1 \in Files)
    /\ \A f \in Files : f <= NumFiles
BY CountsAssumption DEF Files

\* A section of a file, by its name.
LEMMA SectionFacts ==
    ASSUME files \in [Files -> FileShapes], NEW f \in Files, NEW id \in Sections(f)
    PROVE  /\ id[1] = f
           /\ id = <<f, id[2]>>
           /\ id[2] \in DOMAIN files[f].sections
           /\ SectionOf(id) = files[f].sections[id[2]]
           /\ SectionOf(id) \in Section
           /\ WellCut(SectionOf(id))
<1>1. files[f] \in FileShapes
  OBVIOUS
<1>2. PICK i \in DOMAIN files[f].sections : id = <<f, i>>
  BY DEF Sections
<1>3. files[f].sections \in Seq(Section) /\ WellCut(files[f].sections[i])
  BY <1>1, <1>2, FilesAssumption
<1>4. files[f].sections[i] \in Section
  BY <1>2, <1>3
<1>5. QED
  BY <1>2, <1>3, <1>4 DEF SectionOf

\* What a relocation refers to is a section of its file.
LEMMA ReferenceFacts ==
    ASSUME files \in [Files -> FileShapes], NEW f \in Files, NEW r \in DOMAIN files[f].refs
    PROVE  LET ref == files[f].refs[r] IN
           /\ <<f, ref.sec>> \in Sections(f)
           /\ ref.at \in Nat
           /\ SectionOf(<<f, ref.sec>>).kind = "pieces" =>
                ref.at <= SectionSize(SectionOf(<<f, ref.sec>>))
<1>1. files[f] \in FileShapes
  OBVIOUS
<1>2. files[f].refs \in Seq(Reference) /\ files[f].refs[r].sec \in DOMAIN files[f].sections
  BY <1>1, FilesAssumption
<1>3. files[f].refs[r] \in Reference
  BY <1>2
<1>4. QED
  BY <1>1, <1>2, <1>3, FilesAssumption DEF Reference, Sections, SectionOf

\* A file has finitely many sections.
LEMMA SectionsFinite ==
    ASSUME files \in [Files -> FileShapes], NEW f \in Files
    PROVE  IsFiniteSet(Sections(f))
<1>1. files[f].sections \in Seq(Section)
  BY FilesAssumption
<1> DEFINE n == Len(files[f].sections)
           g == [i \in 1 .. n |-> <<f, i>>]
<1>2. n \in Nat /\ DOMAIN files[f].sections = 1 .. n
  BY <1>1
<1>3. g \in Surjection(1 .. n, Sections(f))
  BY <1>2 DEF Surjection, Sections
<1>4. QED
  BY <1>2, <1>3, FS_NatSurjection DEF ExistsSurjection

\* The pieces of a section lie one behind the other.
LEMMA CutsGrow ==
    ASSUME NEW k \in Section, WellCut(k), k.kind = "pieces",
           NEW i \in DOMAIN k.data, NEW j \in DOMAIN k.data, i < j
    PROVE  k.cuts[i] + Size[k.data[i]] <= k.cuts[j]
<1> DEFINE n == Len(k.data)
           Grown == {m \in Nat : i < m /\ m <= n => k.cuts[i] + Size[k.data[i]] <= k.cuts[m]}
<1>1. /\ k.cuts \in Seq(Nat) /\ k.data \in Seq(Contents) /\ Len(k.cuts) = n /\ n \in Nat
      /\ DOMAIN k.data = 1 .. n /\ DOMAIN k.cuts = 1 .. n
      /\ \A m \in 1 .. n - 1 : k.cuts[m + 1] = k.cuts[m] + Size[k.data[m]]
  BY DEF Section, WellCut
<1>2. \A m \in 1 .. n : k.cuts[m] \in Nat /\ Size[k.data[m]] \in Nat
  <2> TAKE m \in 1 .. n
  <2>1. k.cuts[m] \in Nat /\ k.data[m] \in Contents
    BY <1>1
  <2>2. QED
    BY <2>1, ContentsAssumption
<1>3. i \in 1 .. n /\ j \in 1 .. n /\ i \in Nat /\ j \in Nat /\ n \in Nat
  BY <1>1
<1> HIDE DEF n
<1>4. 0 \in Grown
  BY <1>3
<1>5. ASSUME NEW m \in Grown PROVE m + 1 \in Grown
  <2>1. SUFFICES ASSUME m \in Nat, i < m + 1, m + 1 <= n
                 PROVE  k.cuts[i] + Size[k.data[i]] <= k.cuts[m + 1]
    OBVIOUS
  <2>2. m \in 1 .. n - 1 /\ m \in 1 .. n /\ (i = m \/ i < m)
    BY <1>3, <2>1
  <2>3. k.cuts[m + 1] = k.cuts[m] + Size[k.data[m]]
    BY <1>1, <2>2
  <2>4. i < m => k.cuts[i] + Size[k.data[i]] <= k.cuts[m]
    BY <2>2
  <2>5. /\ k.cuts[i] \in Nat /\ Size[k.data[i]] \in Nat
        /\ k.cuts[m] \in Nat /\ Size[k.data[m]] \in Nat
    BY <1>2, <1>3, <2>2
  <2>6. QED
    BY <2>2, <2>3, <2>4, <2>5
<1> HIDE DEF Grown
<1>6. j \in Grown
  <2>1. Grown \in SUBSET Nat
    BY DEF Grown
  <2>2. QED
    BY <1>3, <1>4, <1>5, <2>1, Induction
<1>7. QED
  BY <1>3, <1>6 DEF Grown

\* Get_mergeable_piece: the piece found holds the offset.
LEMMA PieceIndexFacts ==
    ASSUME NEW k \in Section, WellCut(k), k.kind = "pieces", NEW v \in Nat
    PROVE  /\ PieceIndex(k, v) \in DOMAIN k.data
           /\ k.data[PieceIndex(k, v)] \in Contents
           /\ k.cuts[PieceIndex(k, v)] \in Nat
           /\ k.cuts[PieceIndex(k, v)] <= v
           /\ v < SectionSize(k) =>
                v < k.cuts[PieceIndex(k, v)] + Size[k.data[PieceIndex(k, v)]]
<1> DEFINE n == Len(k.data)
           Before == {i \in 1 .. n : k.cuts[i] <= v}
<1>1. /\ k.cuts \in Seq(Nat) /\ k.data \in Seq(Contents) /\ Len(k.cuts) = n
      /\ n \in Nat \ {0}
      /\ DOMAIN k.data = 1 .. n /\ DOMAIN k.cuts = 1 .. n /\ k.cuts[1] = 0
      /\ \A m \in 1 .. n - 1 : k.cuts[m + 1] = k.cuts[m] + Size[k.data[m]]
  BY DEF Section, WellCut
<1>2. \A m \in 1 .. n : k.cuts[m] \in Nat /\ k.data[m] \in Contents
  BY <1>1
<1>3. \E i \in 1 .. n : /\ k.cuts[i] <= v
                        /\ \A j \in 1 .. n : j > i => v < k.cuts[j]
  <2>1. 1 \in Before /\ Before \in SUBSET Nat /\ \A i \in Before : i <= n
    BY <1>1
  <2>2. PICK i \in Before : \A j \in Before : j <= i
    BY <1>1, <2>1, GreatestNatural
  <2>3. ASSUME NEW j \in 1 .. n, j > i PROVE v < k.cuts[j]
    <3>1. j \notin Before
      BY <2>2, <2>3
    <3>2. QED
      BY <1>2, <3>1
  <2>4. QED
    BY <2>2, <2>3
<1> DEFINE p == PieceIndex(k, v)
<1>4. p \in 1 .. n /\ k.cuts[p] <= v /\ \A j \in 1 .. n : j > p => v < k.cuts[j]
  BY <1>1, <1>3 DEF PieceIndex
<1> HIDE DEF p
<1>5. ASSUME v < SectionSize(k) PROVE v < k.cuts[p] + Size[k.data[p]]
  <2>1. CASE p = n
    BY <1>1, <1>5, <2>1 DEF SectionSize
  <2>2. CASE p < n
    <3>1. p \in 1 .. n - 1 /\ p + 1 \in 1 .. n /\ p + 1 > p
      BY <1>1, <1>4, <2>2
    <3>2. v < k.cuts[p + 1] /\ k.cuts[p + 1] = k.cuts[p] + Size[k.data[p]]
      BY <1>1, <1>4, <3>1
    <3>3. QED
      BY <3>2
  <2>3. QED
    BY <1>1, <1>4, <2>1, <2>2
<1>6. QED
  BY <1>1, <1>2, <1>4, <1>5 DEF p

\* The piece that is next has the least rank.
LEMMA FirstFacts ==
    ASSUME NEW S \in SUBSET Contents, S # {}
    PROVE  /\ First(S) \in S
           /\ \A d \in S : d # First(S) => Rank[First(S)] < Rank[d]
<1>0. \A c \in Contents : Rank[c] \in Nat
  BY ContentsAssumption
<1> DEFINE Ranks == {Rank[c] : c \in S}
<1>1. Ranks \in SUBSET Nat /\ Ranks # {}
  BY <1>0
<1>2. PICK n \in Ranks : \A m \in Ranks : n <= m
  BY <1>1, LeastNatural
<1>3. \E c \in S : \A d \in S : Rank[c] <= Rank[d]
  BY <1>2
<1>4. First(S) \in S /\ \A d \in S : Rank[First(S)] <= Rank[d]
  BY <1>3 DEF First
<1> DEFINE c == First(S)
<1> HIDE DEF c
<1>5. ASSUME NEW d \in S, d # c PROVE Rank[c] < Rank[d]
  <2>1. c \in Contents /\ d \in Contents /\ Rank[c] <= Rank[d]
    BY <1>4 DEF c
  <2>2. Rank[c] # Rank[d]
    BY <1>5, <2>1, ContentsAssumption
  <2>3. QED
    BY <1>0, <2>1, <2>2
<1>6. QED
  BY <1>4, <1>5 DEF c

\* std::max over the alignments of the sections that hold a piece.
LEMMA MaxAlignment ==
    ASSUME files \in [Files -> FileShapes], NEW a \in Alignments, NEW f \in Files,
           NEW o, NEW c
    PROVE  LET asked == {SectionOf(id).align : id \in Holders(f, o, c)}
           IN  /\ Max({a} \union asked) \in Alignments
               /\ a <= Max({a} \union asked)
               /\ \A b \in asked : b <= Max({a} \union asked)
<1> DEFINE H == Holders(f, o, c)
           asked == {SectionOf(id).align : id \in H}
           g == [id \in H |-> SectionOf(id).align]
<1>1. IsFiniteSet(H)
  <2>1. H \in SUBSET Sections(f)
    BY DEF Holders
  <2>2. QED
    BY <2>1, SectionsFinite, FS_Subset
<1>2. asked \in SUBSET Alignments
  <2>1. \A id \in H : SectionOf(id) \in Section
    BY SectionFacts DEF Holders
  <2>2. QED
    BY <2>1 DEF Section
<1>3. IsFiniteSet(asked)
  <2>1. g \in Surjection(H, asked)
    BY DEF Surjection
  <2>2. QED
    BY <1>1, <2>1, FS_Surjection
<1> HIDE DEF asked
<1>4. IsFiniteSet({a} \union asked)
  <2>1. IsFiniteSet(asked \union {a})
    BY <1>3, FS_AddElement
  <2>2. asked \union {a} = {a} \union asked
    OBVIOUS
  <2>3. QED
    BY <2>1, <2>2
<1>5. {a} \union asked \in SUBSET Nat
  BY <1>2, AlignmentsAssumption
<1>6. /\ Max({a} \union asked) \in {a} \union asked
      /\ \A b \in {a} \union asked : b <= Max({a} \union asked)
  BY <1>4, <1>5, MaxOfFinite
<1>7. QED
  BY <1>2, <1>6 DEF asked

\* std::max of two alignments, the cursor's and a piece's.
LEMMA TopAlignment ==
    ASSUME NEW a \in Alignments, NEW b \in Alignments
    PROVE  /\ Max({a, b}) \in Alignments
           /\ a <= Max({a, b}) /\ b <= Max({a, b})
BY AlignmentsAssumption, MaxOfTwo

\* The next piece is behind the cursor, and aligned for what came before.
LEMMA AlignToFacts ==
    ASSUME NEW v \in Nat, NEW a \in Alignments
    PROVE  /\ AlignTo(v, a) \in Nat
           /\ v <= AlignTo(v, a)
           /\ \A b \in Alignments : b <= a => AlignTo(v, a) % b = 0
<1>1. a \in Nat \ {0}
  BY AlignmentsAssumption
<1>2. AlignTo(v, a) \in Nat /\ v <= AlignTo(v, a) /\ AlignTo(v, a) % a = 0
  BY <1>1, AlignedUp DEF AlignTo
<1>3. ASSUME NEW b \in Alignments, b <= a PROVE AlignTo(v, a) % b = 0
  <2>1. b \in Nat \ {0} /\ a % b = 0
    BY <1>3, AlignmentsAssumption
  <2>2. QED
    BY <1>1, <1>2, <2>1, DividesTransitive
<1>4. QED
  BY <1>2, <1>3

-----------------------------------------------------------------------------
(***************************************************************************)
(* Types.                                                                  *)
(***************************************************************************)

\* No step changes the input files.
LEMMA FilesStep ==
    ASSUME [Next]_vars
    PROVE  /\ files' = files
           /\ \A f : Sections(f)' = Sections(f)
           /\ \A id : SectionOf(id)' = SectionOf(id)
<1>1. files' = files
  BY DEF Next, vars, inputVars, symbolVars, workVars, layoutVars, Fail, SplitFails,
         InitMergeableSection, CollectPieces, FragmentsMiscounted, ResolveSectionPieces,
         BeginOutput, AssignOffset, AssignSize, OpenOutputFile, CopyPiece, CopyEnd,
         CopyDone, Terminated
<1>2. QED
  BY <1>1 DEF Sections, SectionOf

\* The loop of a pass stays among the files.
LEMMA NextFileFacts ==
    ASSUME NEW then \in Phases, phase \in Phases, next \in Files, NextFile(then)
    PROVE  phase' \in Phases /\ next' \in Files
BY FilesFacts DEF NextFile

\* What Get_mergeable_piece returns is a piece.
LEMMA MergeablePieceFacts ==
    ASSUME NEW k \in Section, WellCut(k), k.kind = "pieces", NEW v \in Nat
    PROVE  /\ MergeablePiece(k, v) \in Target
           /\ MergeablePiece(k, v).out = k.out
           /\ MergeablePiece(k, v).piece \in Range(k.data)
           /\ MergeablePiece(k, v).val \in Nat
           /\ v < SectionSize(k) =>
                /\ MergeablePiece(k, v).val < Size[MergeablePiece(k, v).piece]
                /\ IsByte(k, v, MergeablePiece(k, v).piece, MergeablePiece(k, v).val)
<1> DEFINE p == PieceIndex(k, v)
<1>1. /\ p \in DOMAIN k.data /\ k.data[p] \in Contents
      /\ k.cuts[p] \in Nat /\ k.cuts[p] <= v
      /\ v < SectionSize(k) => v < k.cuts[p] + Size[k.data[p]]
  BY PieceIndexFacts
<1>2. MergeablePiece(k, v) = [out |-> k.out, piece |-> k.data[p], val |-> v - k.cuts[p]]
  BY DEF MergeablePiece
<1>3. Size[k.data[p]] \in Nat
  BY <1>1, ContentsAssumption
<1> HIDE DEF p
<1>4. k.out \in Outputs
  BY DEF Section
<1>5. v - k.cuts[p] \in Nat /\ v = k.cuts[p] + (v - k.cuts[p])
  BY <1>1
<1>6. v < SectionSize(k) => v - k.cuts[p] < Size[k.data[p]]
  BY <1>1, <1>3
<1>7. k.data[p] \in Range(k.data)
  BY <1>1 DEF Range
<1>8. QED
  BY <1>1, <1>2, <1>4, <1>5, <1>6, <1>7 DEF Target, IsByte

\* The symbols of a file, and those its relocations get, are places of pieces.
LEMMA TargetFacts ==
    ASSUME files \in [Files -> FileShapes], SplitInv, NEW f \in Files
    PROVE  /\ \A p \in Places(f) : /\ <<f, p[1]>> \in Sections(f) \intersect listed
                                   /\ p[2] \in Nat
                                   /\ p[2] <= SectionSize(SectionOf(<<f, p[1]>>))
                                   /\ MergeablePiece(SectionOf(<<f, p[1]>>), p[2]) \in Target
           /\ \A r \in Handled(f) : Fragment(f, r) \in Target
<1>1. ASSUME NEW id \in Sections(f) \intersect listed
      PROVE  SectionOf(id) \in Section /\ WellCut(SectionOf(id)) /\ SectionOf(id).kind = "pieces"
  BY <1>1, SectionFacts DEF SplitInv
<1>2. ASSUME NEW p \in Places(f)
      PROVE  /\ <<f, p[1]>> \in Sections(f) \intersect listed /\ p[2] \in Nat
             /\ p[2] <= SectionSize(SectionOf(<<f, p[1]>>))
             /\ MergeablePiece(SectionOf(<<f, p[1]>>), p[2]) \in Target
  <2>1. PICK id \in Sections(f) \intersect listed :
          \E v \in 0 .. SectionSize(SectionOf(id)) : p = <<id[2], v>>
    BY DEF Places
  <2>2. PICK v \in 0 .. SectionSize(SectionOf(id)) : p = <<id[2], v>>
    BY <2>1
  <2>3. p[1] = id[2] /\ p[2] = v /\ id = <<f, p[1]>>
    BY <2>2, SectionFacts
  <2>4. v \in Nat /\ v <= SectionSize(SectionOf(id))
    OBVIOUS
  <2>5. QED
    BY <1>1, <2>1, <2>3, <2>4, MergeablePieceFacts
<1>3. ASSUME NEW r \in Handled(f) PROVE Fragment(f, r) \in Target
  <2> DEFINE ref == files[f].refs[r]
             k == SectionOf(<<f, ref.sec>>)
  <2>1. r \in DOMAIN files[f].refs /\ <<f, ref.sec>> \in listed
    BY DEF Handled
  <2>2. <<f, ref.sec>> \in Sections(f) \intersect listed /\ ref.at \in Nat
    BY <2>1, ReferenceFacts
  <2>3. MergeablePiece(k, ref.at) \in Target
    BY <1>1, <2>2, MergeablePieceFacts
  <2>4. Fragment(f, r) = [MergeablePiece(k, ref.at) EXCEPT !.val = MergeablePiece(k, ref.at).val - ref.at]
    BY DEF Fragment
  <2>5. QED
    BY <2>2, <2>3, <2>4 DEF Target
<1>4. QED
  BY <1>2, <1>3

\* The initial values have their types.
LEMMA TypeInit == Init => TypeOK
<1> SUFFICES ASSUME Init PROVE TypeOK
  OBVIOUS
<1> USE DEF Init
<1>1. InputTypes
  BY AlignmentsAssumption DEF InputTypes
<1>2. SymbolTypes
  BY DEF SymbolTypes
<1>3. LoopTypes
  BY FilesFacts, AlignmentsAssumption DEF LoopTypes, Phases, Failures
<1>4. LayoutTypes
  BY AlignmentsAssumption DEF LayoutTypes
<1>5. ImageTypes
  BY DEF ImageTypes
<1>6. QED
  BY <1>1, <1>2, <1>3, <1>4, <1>5 DEF TypeOK

\* The state that a step leaves alone keeps its type.
LEMMA TypesKept ==
    ASSUME TypeOK
    PROVE  /\ UNCHANGED inputVars => InputTypes'
           /\ UNCHANGED symbolVars => SymbolTypes'
           /\ UNCHANGED workVars /\ (phase \in Phases)' /\ (next \in Files)' => LoopTypes'
           /\ UNCHANGED layoutVars => LayoutTypes'
           /\ UNCHANGED image => ImageTypes'
<1> USE DEF TypeOK
<1>1. UNCHANGED inputVars => InputTypes'
  BY DEF InputTypes, inputVars, Sections
<1>2. UNCHANGED symbolVars => SymbolTypes'
  BY DEF SymbolTypes, symbolVars
<1>3. UNCHANGED workVars /\ (phase \in Phases)' /\ (next \in Files)' => LoopTypes'
  BY DEF LoopTypes, workVars
<1>4. UNCHANGED layoutVars => LayoutTypes'
  BY DEF LayoutTypes, layoutVars
<1>5. UNCHANGED image => ImageTypes'
  BY DEF ImageTypes
<1>6. QED
  BY <1>1, <1>2, <1>3, <1>4, <1>5

\* Init_mergeable_section marks sections of its file.
LEMMA InputTypesSplit ==
    ASSUME TypeOK, InitMergeableSection
    PROVE  InputTypes'
<1>1. next \in Files /\ files \in [Files -> FileShapes]
  BY DEF TypeOK, InputTypes, LoopTypes
<1>2. /\ merged' = merged \union OfKind(next, {"pieces", "no entry size"})
      /\ listed' = listed \union OfKind(next, {"pieces"})
      /\ made' = made \union {SectionOf(id).out : id \in OfKind(next, {"pieces"})}
      /\ files' = files /\ pool' = pool /\ align' = align
  BY DEF InitMergeableSection
<1>3. /\ OfKind(next, {"pieces"}) \subseteq OfKind(next, {"pieces", "no entry size"})
      /\ OfKind(next, {"pieces", "no entry size"}) \subseteq Sections(next)
  BY DEF OfKind
<1>4. ASSUME NEW id \in Sections(next) PROVE SectionOf(id).out \in Outputs
  <2>1. SectionOf(id) \in Section
    BY <1>1, SectionFacts
  <2>2. QED
    BY <2>1 DEF Section
<1>5. (merged \subseteq UNION {Sections(f) : f \in Files})'
  <2>1. \A f : Sections(f)' = Sections(f)
    BY <1>2 DEF Sections
  <2>2. merged' \subseteq UNION {Sections(f) : f \in Files}
    BY <1>1, <1>2, <1>3 DEF TypeOK, InputTypes
  <2>3. QED
    BY <2>1, <2>2
<1>6. listed' \subseteq merged'
  BY <1>2, <1>3 DEF TypeOK, InputTypes
<1>7. made' \subseteq Outputs
  <2>1. {SectionOf(id).out : id \in OfKind(next, {"pieces"})} \subseteq Outputs
    BY <1>3, <1>4
  <2>2. QED
    BY <1>2, <2>1 DEF TypeOK, InputTypes
<1>8. QED
  BY <1>2, <1>5, <1>6, <1>7 DEF TypeOK, InputTypes

\* Collect_mergeable_section_piece keeps alignments among those of sections.
LEMMA InputTypesCollect ==
    ASSUME TypeOK, CollectPieces
    PROVE  InputTypes'
<1>1. next \in Files /\ files \in [Files -> FileShapes]
  BY DEF TypeOK, InputTypes, LoopTypes
<1>2. ASSUME NEW o \in Outputs, NEW c \in Contents
      PROVE  Max({align[o][c]} \union {SectionOf(id).align : id \in Holders(next, o, c)})
               \in Alignments
  <2>1. align[o][c] \in Alignments
    BY DEF TypeOK, InputTypes
  <2>2. QED
    BY <1>1, <2>1, MaxAlignment
<1>3. align' \in [Outputs -> [Contents -> Alignments]]
  BY <1>2 DEF CollectPieces
<1>4. pool' \subseteq Outputs \X Contents
  BY DEF CollectPieces, TypeOK, InputTypes
<1>5. UNCHANGED <<files, merged, listed, made>>
  BY DEF CollectPieces
<1>6. \A f : Sections(f)' = Sections(f)
  BY <1>5 DEF Sections
<1>7. QED
  BY <1>3, <1>4, <1>5, <1>6 DEF TypeOK, InputTypes

\* Resolve_sesction_pieces gives out places in pieces.
LEMMA SymbolTypesResolve ==
    ASSUME TypeOK, SplitInv, ResolveSectionPieces
    PROVE  SymbolTypes'
<1>1. next \in Files /\ files \in [Files -> FileShapes]
  BY DEF TypeOK, InputTypes, LoopTypes
<1>2. DOMAIN named' = Files /\ DOMAIN fragment' = Files /\ DOMAIN rel' = Files
  BY DEF ResolveSectionPieces, TypeOK, SymbolTypes
<1>3. ASSUME NEW f \in Files
      PROVE  /\ \A p \in DOMAIN named'[f] : named'[f][p] \in Target
             /\ \A r \in DOMAIN fragment'[f] : fragment'[f][r] \in Target
  <2>1. CASE f = next
    <3>1. /\ named'[f] = [p \in Places(f) |-> MergeablePiece(SectionOf(<<f, p[1]>>), p[2])]
          /\ fragment'[f] = [r \in Handled(f) |-> Fragment(f, r)]
      BY <2>1 DEF ResolveSectionPieces, TypeOK, SymbolTypes
    <3>2. QED
      BY <1>1, <3>1, TargetFacts
  <2>2. CASE f # next
    BY <2>2 DEF ResolveSectionPieces, TypeOK, SymbolTypes
  <2>3. QED
    BY <2>1, <2>2
<1>4. QED
  BY <1>2, <1>3 DEF SymbolTypes

\* One turn of Assign_offset, in numbers: the cursor moves behind the piece.
LEMMA AssignOffsetFacts ==
    ASSUME TypeOK, AssignOffset
    PROVE  LET c == First(left) IN
           /\ out \in Outputs /\ c \in left /\ left \subseteq Contents
           /\ \A d \in left : d # c => Rank[c] < Rank[d]
           /\ left' = left \ {c}
           /\ Alive(out) =>
                /\ offset' = [offset EXCEPT ![out][c] = AlignTo(cursor, top)]
                /\ offset' \in [Outputs -> [Contents -> Nat \union {Unplaced}]]
                /\ cursor' = AlignTo(cursor, top) + Size[c]
                /\ AlignTo(cursor, top) \in Nat /\ cursor <= AlignTo(cursor, top)
                /\ \A b \in Alignments : b <= top => AlignTo(cursor, top) % b = 0
                /\ cursor' \in Nat /\ top' \in Alignments
                /\ top <= top' /\ align[out][c] <= top'
           /\ ~Alive(out) => UNCHANGED <<offset, cursor, top>>
<1> DEFINE c == First(left)
<1>1. /\ out \in Outputs /\ cursor \in Nat /\ top \in Alignments /\ left \in SUBSET Contents
      /\ left # {}
  BY DEF AssignOffset, TypeOK, LoopTypes
<1>2. c \in left /\ \A d \in left : d # c => Rank[c] < Rank[d]
  BY <1>1, FirstFacts
<1>3. /\ left' = left \ {c}
      /\ Alive(out) => /\ offset' = [offset EXCEPT ![out][c] = AlignTo(cursor, top)]
                       /\ cursor' = AlignTo(cursor, top) + Size[c]
                       /\ top' = Max({top, align[out][c]})
      /\ ~Alive(out) => UNCHANGED <<offset, cursor, top>>
  BY DEF AssignOffset
<1> HIDE DEF c
<1>4. align[out][c] \in Alignments /\ Size[c] \in Nat
  BY <1>1, <1>2, ContentsAssumption DEF TypeOK, InputTypes
<1>5. /\ AlignTo(cursor, top) \in Nat /\ cursor <= AlignTo(cursor, top)
      /\ \A b \in Alignments : b <= top => AlignTo(cursor, top) % b = 0
  BY <1>1, AlignToFacts
<1>6. /\ Max({top, align[out][c]}) \in Alignments
      /\ top <= Max({top, align[out][c]}) /\ align[out][c] <= Max({top, align[out][c]})
  BY <1>1, <1>4, TopAlignment
<1>7. Alive(out) => offset' \in [Outputs -> [Contents -> Nat \union {Unplaced}]]
  BY <1>1, <1>2, <1>3, <1>5 DEF TypeOK, LayoutTypes
<1>8. AlignTo(cursor, top) + Size[c] \in Nat
  BY <1>4, <1>5
<1>9. QED
  BY <1>1, <1>2, <1>3, <1>5, <1>6, <1>7, <1>8 DEF c

\* m_copy_chunk writes bytes of pieces, and zeros.
LEMMA ImageTypesCopy ==
    ASSUME TypeOK, ImageInv, CopyPiece
    PROVE  ImageTypes'
<1> DEFINE c == First(left)
           Copy == [m \in DOMAIN image[out] |->
             CASE m >= offset[out][c] /\ m < PieceEnd(c) -> <<c, m - offset[out][c]>>
               [] m >= PieceEnd(c) /\ m < GapEnd(c)      -> Zero
               [] OTHER                                  -> image[out][m]]
<1>1. image' = [image EXCEPT ![out] = Copy]
  BY DEF CopyPiece
<1>2. out \in Outputs /\ c \in Contents
  BY FirstFacts DEF CopyPiece, TypeOK, LoopTypes
<1> HIDE DEF c
<1>3. offset[out][c] \in Nat \union {Unplaced}
  BY <1>2 DEF TypeOK, LayoutTypes
<1>4. ASSUME NEW m \in DOMAIN image[out] PROVE Copy[m] \in Bytes
  <2>1. CASE m >= offset[out][c] /\ m < PieceEnd(c)
    <3>1. m \in Int
      BY <1>2 DEF CopyPiece, ImageInv, TypeOK, LayoutTypes
    <3>2. m - offset[out][c] \in Nat
      BY <1>3, <2>1, <3>1 DEF Unplaced
    <3>3. Copy[m] = <<c, m - offset[out][c]>>
      <4>1. PieceEnd(c) \in Int
        BY <1>2, <1>3, ContentsAssumption DEF PieceEnd, Unplaced
      <4>2. ~(m >= PieceEnd(c) /\ m < GapEnd(c))
        BY <2>1, <3>1, <4>1
      <4>3. QED
        BY <2>1, <4>2
    <3> HIDE DEF Copy
    <3>4. QED
      BY <1>2, <3>2, <3>3 DEF Bytes
  <2>2. CASE m >= PieceEnd(c) /\ m < GapEnd(c) /\ ~(m >= offset[out][c] /\ m < PieceEnd(c))
    BY <2>2 DEF Bytes, Zero
  <2>3. CASE ~(m >= PieceEnd(c) /\ m < GapEnd(c)) /\ ~(m >= offset[out][c] /\ m < PieceEnd(c))
    BY <1>2, <2>3 DEF TypeOK, ImageTypes
  <2>4. QED
    BY <2>1, <2>2, <2>3
<1>5. DOMAIN Copy = DOMAIN image[out]
  OBVIOUS
<1> HIDE DEF Copy
<1>6. QED
  BY <1>1, <1>2, <1>4, <1>5 DEF TypeOK, ImageTypes

\* Every step keeps the types.
LEMMA TypeStep ==
    ASSUME TypeOK, SplitInv, ImageInv, [Next]_vars
    PROVE  TypeOK'
<1> USE DEF TypeOK
<1>1. CASE UNCHANGED vars
  BY <1>1, TypesKept DEF vars, LoopTypes
<1>2. CASE SplitFails
  BY <1>2, TypesKept DEF SplitFails, Fail, Phases, Failures, LoopTypes
<1>3. CASE InitMergeableSection
  <2>1. phase' \in Phases /\ next' \in Files
    BY <1>3, NextFileFacts DEF InitMergeableSection, LoopTypes, Phases
  <2>2. QED
    BY <1>3, <2>1, InputTypesSplit, TypesKept DEF InitMergeableSection
<1>4. CASE CollectPieces
  <2>1. phase' \in Phases /\ next' \in Files
    BY <1>4, NextFileFacts DEF CollectPieces, LoopTypes, Phases
  <2>2. QED
    BY <1>4, <2>1, InputTypesCollect, TypesKept DEF CollectPieces
<1>5. CASE FragmentsMiscounted
  BY <1>5, TypesKept DEF FragmentsMiscounted, Fail, Phases, Failures, LoopTypes
<1>6. CASE ResolveSectionPieces
  <2>1. phase' \in Phases /\ next' \in Files
    BY <1>6, NextFileFacts DEF ResolveSectionPieces, LoopTypes, Phases
  <2>2. todo' \subseteq Outputs
    BY <1>6 DEF ResolveSectionPieces, LoopTypes, InputTypes
  <2>3. LoopTypes'
    BY <1>6, <2>1, <2>2 DEF ResolveSectionPieces, LoopTypes
  <2>4. QED
    BY <1>6, <2>3, SymbolTypesResolve, TypesKept DEF ResolveSectionPieces
<1>7. CASE BeginOutput
  <2>1. PiecesOf(out') \subseteq Contents /\ 1 \in Alignments
    BY AlignmentsAssumption DEF PiecesOf
  <2>2. LoopTypes'
    BY <1>7, <2>1 DEF BeginOutput, LoopTypes
  <2>3. QED
    BY <1>7, <2>2, TypesKept DEF BeginOutput
<1>8. CASE AssignOffset
  <2>1. LoopTypes' /\ LayoutTypes'
    BY <1>8, AssignOffsetFacts DEF AssignOffset, LoopTypes, LayoutTypes
  <2>2. QED
    BY <1>8, <2>1, TypesKept DEF AssignOffset
<1>9. CASE AssignSize
  <2>1. LoopTypes' /\ LayoutTypes'
    BY <1>9 DEF AssignSize, LoopTypes, LayoutTypes
  <2>2. QED
    BY <1>9, <2>1, TypesKept DEF AssignSize
<1>10. CASE OpenOutputFile
  <2>1. ImageTypes'
    BY <1>10 DEF OpenOutputFile, ImageTypes, Bytes, Zero
  <2>2. LoopTypes'
    BY <1>10 DEF OpenOutputFile, LoopTypes, InputTypes, Phases
  <2>3. QED
    BY <1>10, <2>1, <2>2, TypesKept DEF OpenOutputFile
<1>11. CASE CopyPiece
  <2>1. LoopTypes'
    BY <1>11 DEF CopyPiece, LoopTypes
  <2>2. QED
    BY <1>11, <2>1, ImageTypesCopy, TypesKept DEF CopyPiece
<1>12. CASE CopyEnd
  <2>1. LoopTypes'
    BY <1>12 DEF CopyEnd, LoopTypes
  <2>2. QED
    BY <1>12, <2>1, TypesKept DEF CopyEnd
<1>13. CASE CopyDone
  BY <1>13, TypesKept DEF CopyDone, Phases, LoopTypes
<1>14. CASE Terminated
  BY <1>1, <1>14 DEF Terminated
<1>15. QED
  BY <1>1, <1>2, <1>3, <1>4, <1>5, <1>6, <1>7, <1>8, <1>9, <1>10, <1>11, <1>12, <1>13,
     <1>14 DEF Next

-----------------------------------------------------------------------------
(***************************************************************************)
(* What the passes over the files leave behind.                            *)
(***************************************************************************)

\* The pass goes on to the next file, or it was at the last one.
LEMMA NextFileLoop ==
    ASSUME next \in Files, NEW then, NextFile(then)
    PROVE  \/ phase' = phase /\ next' = next + 1
           \/ phase' = then /\ next' = 1 /\ \A f \in Files : f <= next
BY FilesFacts DEF NextFile

\* A file is split, collected or resolved by the pass of that name, and the
\* marks, the pool and the symbols change in that pass only.
LEMMA PassStep ==
    ASSUME TypeOK, [Next]_vars
    PROVE  /\ InitMergeableSection \/ UNCHANGED <<merged, listed, made>>
           /\ CollectPieces \/ UNCHANGED <<pool, align>>
           /\ ResolveSectionPieces \/ UNCHANGED <<named, fragment>>
           /\ \A f \in Files :
                /\ Split(f)' => Split(f) \/ (InitMergeableSection /\ f = next)
                /\ Collected(f)' => /\ ~InitMergeableSection
                                    /\ Collected(f) \/ (CollectPieces /\ f = next)
                /\ Resolved(f)' => /\ ~InitMergeableSection
                                   /\ Resolved(f) \/ (ResolveSectionPieces /\ f = next)
<1> USE DEF inputVars, symbolVars, Split, Collected, Resolved
<1>0. /\ next \in Files /\ next \in Nat
      /\ \A f \in Files : f \in Nat /\ ~(f < 1)
  BY FilesFacts DEF TypeOK, LoopTypes, Files
<1>a. ASSUME NEW f \in Files, f < next + 1 \/ f <= next
      PROVE  f < next \/ f = next
  BY <1>0, <1>a
<1>1. CASE UNCHANGED vars
  BY <1>1 DEF vars, InitMergeableSection, NextFile
<1>2. CASE SplitFails
  BY <1>2 DEF SplitFails, Fail
<1>3. CASE InitMergeableSection
  <2>1. \/ phase' = "init" /\ next' = next + 1
        \/ phase' = "collect" /\ next' = 1 /\ \A f \in Files : f <= next
    BY <1>0, <1>3, NextFileLoop DEF InitMergeableSection
  <2>2. UNCHANGED <<pool, align, named, fragment>> /\ phase = "init"
    BY <1>3 DEF InitMergeableSection
  <2>3. QED
    BY <1>0, <1>a, <1>3, <2>1, <2>2
<1>4. CASE CollectPieces
  <2>1. \/ phase' = "collect" /\ next' = next + 1
        \/ phase' = "resolve" /\ next' = 1 /\ \A f \in Files : f <= next
    BY <1>0, <1>4, NextFileLoop DEF CollectPieces
  <2>2. UNCHANGED <<merged, listed, made, named, fragment>> /\ phase = "collect"
    BY <1>4 DEF CollectPieces
  <2>3. ~InitMergeableSection
    BY <2>2 DEF InitMergeableSection
  <2>4. QED
    BY <1>0, <1>a, <1>4, <2>1, <2>2, <2>3
<1>5. CASE FragmentsMiscounted
  BY <1>5 DEF FragmentsMiscounted, Fail, InitMergeableSection
<1>6. CASE ResolveSectionPieces
  <2>1. \/ phase' = "resolve" /\ next' = next + 1
        \/ phase' = "assign" /\ next' = 1 /\ \A f \in Files : f <= next
    BY <1>0, <1>6, NextFileLoop DEF ResolveSectionPieces
  <2>2. UNCHANGED <<merged, listed, made, pool, align>> /\ phase = "resolve"
    BY <1>6 DEF ResolveSectionPieces
  <2>3. ~InitMergeableSection
    BY <2>2 DEF InitMergeableSection
  <2>4. QED
    BY <1>0, <1>a, <1>6, <2>1, <2>2, <2>3
<1>7. CASE BeginOutput
  BY <1>7 DEF BeginOutput, InitMergeableSection
<1>8. CASE AssignOffset
  BY <1>8 DEF AssignOffset, InitMergeableSection
<1>9. CASE AssignSize
  BY <1>9 DEF AssignSize, InitMergeableSection
<1>10. CASE OpenOutputFile
  BY <1>10 DEF OpenOutputFile, InitMergeableSection
<1>11. CASE CopyPiece
  BY <1>11 DEF CopyPiece, InitMergeableSection
<1>12. CASE CopyEnd
  BY <1>12 DEF CopyEnd, InitMergeableSection
<1>13. CASE CopyDone
  BY <1>13 DEF CopyDone, InitMergeableSection
<1>14. CASE Terminated
  BY <1>1, <1>14 DEF Terminated
<1>15. QED
  BY <1>1, <1>2, <1>3, <1>4, <1>5, <1>6, <1>7, <1>8, <1>9, <1>10, <1>11, <1>12, <1>13,
     <1>14 DEF Next

\* Every file that was gone through has its sections listed.
LEMMA SplitStep ==
    ASSUME TypeOK, SplitInv, [Next]_vars
    PROVE  SplitInv'
<1>1. /\ \A f : Sections(f)' = Sections(f)
      /\ \A id : SectionOf(id)' = SectionOf(id)
  BY FilesStep
<1>2. \A f : OfKind(f, {"pieces"})' = OfKind(f, {"pieces"})
  BY <1>1 DEF OfKind
<1>3. CASE InitMergeableSection
  <2>1. /\ merged' = merged \union OfKind(next, {"pieces", "no entry size"})
        /\ listed' = listed \union OfKind(next, {"pieces"})
        /\ made' = made \union {SectionOf(id).out : id \in OfKind(next, {"pieces"})}
    BY <1>3 DEF InitMergeableSection
  <2>2. \A id \in merged' : SectionOf(id).kind \in {"pieces", "no entry size"}
    BY <2>1 DEF SplitInv, OfKind
  <2>3. \A id \in listed' : SectionOf(id).kind = "pieces" /\ SectionOf(id).out \in made'
    BY <2>1 DEF SplitInv, OfKind
  <2>4. ASSUME NEW f \in Files, Split(f)'
        PROVE  OfKind(f, {"pieces"}) \subseteq listed'
    BY <2>1, <2>4, PassStep DEF SplitInv
  <2>5. QED
    BY <1>1, <1>2, <2>2, <2>3, <2>4 DEF SplitInv
<1>4. CASE ~InitMergeableSection
  <2>1. UNCHANGED <<merged, listed, made>>
    BY <1>4, PassStep
  <2>2. \A f \in Files : Split(f)' => Split(f)
    BY <1>4, PassStep
  <2>3. QED
    BY <1>1, <1>2, <2>1, <2>2 DEF SplitInv
<1>5. QED
  BY <1>3, <1>4

\* A piece that is in the pool stays there, and its alignment only grows.
LEMMA PoolGrows ==
    ASSUME TypeOK, [Next]_vars, NEW o \in Outputs, NEW c \in Contents
    PROVE  /\ <<o, c>> \in pool => <<o, c>> \in pool'
           /\ align[o][c] \in Nat /\ align'[o][c] \in Nat
           /\ align[o][c] <= align'[o][c]
           /\ CollectPieces => \A id \in Holders(next, o, c) :
                /\ <<o, c>> \in pool'
                /\ SectionOf(id).align <= align'[o][c]
<1>1. align[o][c] \in Alignments /\ align[o][c] \in Nat
  BY AlignmentsAssumption DEF TypeOK, InputTypes
<1>2. CASE CollectPieces
  <2> DEFINE asked == {SectionOf(id).align : id \in Holders(next, o, c)}
  <2>1. /\ Max({align[o][c]} \union asked) \in Alignments
        /\ align[o][c] <= Max({align[o][c]} \union asked)
        /\ \A b \in asked : b <= Max({align[o][c]} \union asked)
    BY <1>1, MaxAlignment DEF TypeOK, InputTypes, LoopTypes
  <2>2. align'[o][c] = Max({align[o][c]} \union asked)
    BY <1>2 DEF CollectPieces
  <2>3. pool' = pool \union {p \in Outputs \X Contents : Holders(next, p[1], p[2]) # {}}
    BY <1>2 DEF CollectPieces
  <2>4. \A id \in Holders(next, o, c) : SectionOf(id).align \in asked
    OBVIOUS
  <2> HIDE DEF asked
  <2>5. align'[o][c] \in Nat
    BY <2>1, <2>2, AlignmentsAssumption
  <2>6. \A id \in Holders(next, o, c) : <<o, c>> \in pool'
    BY <2>3
  <2>7. QED
    BY <1>1, <2>1, <2>2, <2>3, <2>4, <2>5, <2>6
<1>3. CASE ~CollectPieces
  BY <1>1, <1>3, PassStep
<1>4. QED
  BY <1>2, <1>3

\* Every piece of a listed section of a file that was gone through is in the
\* pool, with an alignment that is enough for the section.
LEMMA PoolStep ==
    ASSUME TypeOK, SplitInv, PoolInv, [Next]_vars
    PROVE  PoolInv'
<1>1. /\ \A f : Sections(f)' = Sections(f)
      /\ \A id : SectionOf(id)' = SectionOf(id)
  BY FilesStep
<1>2. ASSUME NEW f \in Files, Collected(f)', NEW id \in Sections(f) \intersect listed',
             NEW c \in Range(SectionOf(id).data)
      PROVE  LET k == SectionOf(id) IN
             <<k.out, c>> \in pool' /\ k.align <= align'[k.out][c]
  <2> DEFINE k == SectionOf(id)
  <2>1. listed' = listed /\ (Collected(f) \/ (CollectPieces /\ f = next))
    BY <1>2, PassStep
  <2>2. k \in Section
    BY <1>2, SectionFacts DEF TypeOK, InputTypes
  <2>3. k.out \in Outputs /\ c \in Contents /\ k.align \in Nat
    <3>1. k.out \in Outputs /\ k.align \in Alignments /\ k.data \in Seq(Contents)
      BY <2>2 DEF Section
    <3>2. PICK i \in DOMAIN k.data : c = k.data[i]
      BY <1>2 DEF Range
    <3> HIDE DEF k
    <3>3. k.data[i] \in Contents
      BY <3>1
    <3>4. QED
      BY <3>1, <3>2, <3>3, AlignmentsAssumption
  <2>4. CASE Collected(f)
    <3>1. <<k.out, c>> \in pool /\ k.align <= align[k.out][c]
      BY <1>2, <2>1, <2>4 DEF PoolInv
    <3>2. QED
      BY <2>3, <3>1, PoolGrows
  <2>5. CASE CollectPieces /\ f = next
    <3>1. id \in Holders(next, k.out, c)
      BY <1>2, <2>1, <2>5 DEF Holders
    <3>2. QED
      BY <2>3, <2>5, <3>1, PoolGrows
  <2>6. QED
    BY <2>1, <2>4, <2>5
<1>3. QED
  BY <1>1, <1>2 DEF PoolInv

\* The symbols and fragment symbols of a file that was gone through are what
\* Get_mergeable_piece said.
LEMMA ResolveStep ==
    ASSUME TypeOK, ResolveInv, [Next]_vars
    PROVE  ResolveInv'
<1>1. /\ files' = files
      /\ \A f : Sections(f)' = Sections(f)
      /\ \A id : SectionOf(id)' = SectionOf(id)
  BY FilesStep
<1>2. ASSUME NEW f \in Files, Resolved(f)'
      PROVE  /\ named'[f] = [p \in Places(f)' |-> MergeablePiece(SectionOf(<<f, p[1]>>)', p[2])]
             /\ fragment'[f] = [r \in Handled(f)' |-> Fragment(f, r)']
  <2>1. listed' = listed /\ (Resolved(f) \/ (ResolveSectionPieces /\ f = next))
    BY <1>2, PassStep
  <2>2. Places(f)' = Places(f) /\ Handled(f)' = Handled(f) /\ \A r : Fragment(f, r)' = Fragment(f, r)
    BY <1>1, <2>1 DEF Places, Handled, Fragment, SectionOf
  <2>3. CASE ResolveSectionPieces /\ f = next
    <3>1. /\ named'[f] = [p \in Places(f) |-> MergeablePiece(SectionOf(<<f, p[1]>>), p[2])]
          /\ fragment'[f] = [r \in Handled(f) |-> Fragment(f, r)]
      BY <2>3 DEF ResolveSectionPieces, TypeOK, SymbolTypes
    <3>2. QED
      BY <1>1, <2>2, <3>1
  <2>4. CASE ResolveSectionPieces /\ f # next
    BY <1>1, <2>1, <2>2, <2>4 DEF ResolveSectionPieces, ResolveInv, TypeOK, SymbolTypes
  <2>5. CASE ~ResolveSectionPieces
    <3>1. named' = named /\ fragment' = fragment
      BY <2>5, PassStep
    <3>2. QED
      BY <1>1, <2>1, <2>2, <2>5, <3>1 DEF ResolveInv
  <2>6. QED
    BY <2>3, <2>4, <2>5
<1>3. QED
  BY <1>2 DEF ResolveInv, MergeablePiece, PieceIndex

-----------------------------------------------------------------------------
(***************************************************************************)
(* The loops over the merged sections.                                     *)
(***************************************************************************)

\* One turn of a loop over the pieces: the one that is next is done, all those
\* before it were, and those behind it are left.
LEMMA PieceDone ==
    ASSUME LoopInv, out # NoOutput, left \in SUBSET Contents, left # {}
    PROVE  LET c == First(left) IN
           /\ c \in left /\ c \in PiecesOf(out)
           /\ left \ {c} \subseteq PiecesOf(out)
           /\ \A d \in left : d # c => Rank[c] < Rank[d]
           /\ \A d \in PiecesOf(out) \ left : Rank[d] < Rank[c]
           /\ \A d \in PiecesOf(out) \ (left \ {c}), e \in left \ {c} : Rank[d] < Rank[e]
<1> DEFINE c == First(left)
<1>1. c \in left /\ \A d \in left : d # c => Rank[c] < Rank[d]
  BY FirstFacts
<1> HIDE DEF c
<1>2. /\ left \subseteq PiecesOf(out)
      /\ \A d \in PiecesOf(out) \ left, e \in left : Rank[d] < Rank[e]
  BY DEF LoopInv
<1>3. QED
  BY <1>1, <1>2 DEF c

\* A merged section is done once, and its pieces in their order.
LEMMA LoopStep ==
    ASSUME TypeOK, LoopInv, LayoutInv, [Next]_vars
    PROVE  LoopInv'
<1> USE DEF inputVars, symbolVars, workVars, layoutVars
<1>0. next \in Files /\ left \in SUBSET Contents
  BY DEF TypeOK, LoopTypes
<1>1. CASE UNCHANGED vars
  BY <1>1 DEF vars, LoopInv, PiecesOf, Alive
<1>2. CASE SplitFails
  BY <1>2 DEF SplitFails, Fail, LoopInv, PiecesOf, Alive
<1>3. CASE InitMergeableSection
  <2>1. phase' \in {"init", "collect"} /\ phase = "init" /\ UNCHANGED <<out, todo>>
    BY <1>0, <1>3, NextFileLoop DEF InitMergeableSection
  <2>2. QED
    BY <2>1 DEF LoopInv
<1>4. CASE CollectPieces
  <2>1. phase' \in {"collect", "resolve"} /\ phase = "collect" /\ UNCHANGED <<out, todo, made>>
    BY <1>0, <1>4, NextFileLoop DEF CollectPieces
  <2>2. QED
    BY <2>1 DEF LoopInv
<1>5. CASE FragmentsMiscounted
  BY <1>5 DEF FragmentsMiscounted, Fail, LoopInv, PiecesOf, Alive
<1>6. CASE ResolveSectionPieces
  <2>1. /\ phase' \in {"resolve", "assign"} /\ phase = "resolve" /\ UNCHANGED <<out, made>>
        /\ todo' = IF phase' = "assign" THEN made ELSE todo
    BY <1>0, <1>6, NextFileLoop DEF ResolveSectionPieces
  <2>2. QED
    BY <2>1 DEF LoopInv
<1>7. CASE BeginOutput
  <2>1. /\ out' \in todo /\ todo' = todo \ {out'} /\ left' = PiecesOf(out')
        /\ UNCHANGED <<phase, made, pool>> /\ phase \in {"assign", "copy"}
    BY <1>7 DEF BeginOutput
  <2>2. out' \in Outputs /\ out' # NoOutput
    BY <2>1, OutputsAssumption DEF TypeOK, LoopTypes
  <2>3. PiecesOf(out)' = PiecesOf(out')
    BY <2>1 DEF PiecesOf
  <2>4. phase' = "copy" => \A o \in todo' \union {out'} : o # NoOutput => Alive(o)
    BY <2>1, <2>2 DEF LoopInv
  <2>5. QED
    BY <2>1, <2>2, <2>3, <2>4 DEF LoopInv, Alive
<1>8. CASE AssignOffset
  <2>1. /\ out # NoOutput /\ left # {} /\ left' = left \ {First(left)}
        /\ UNCHANGED <<phase, made, pool, out, todo>>
    BY <1>8 DEF AssignOffset
  <2>2. PiecesOf(out)' = PiecesOf(out)
    BY <2>1 DEF PiecesOf
  <2>3. QED
    BY <1>0, <2>1, <2>2, PieceDone DEF LoopInv, Alive
<1>9. CASE AssignSize
  BY <1>9 DEF AssignSize, LoopInv, Alive
<1>10. CASE OpenOutputFile
  <2>1. /\ phase = "assign" /\ out = NoOutput /\ todo = {} /\ phase' = "copy"
        /\ todo' = {o \in made : shsize[o] # 0} /\ UNCHANGED <<made, out>>
    BY <1>10 DEF OpenOutputFile
  <2>2. \A o \in made : LaidOut(o) /\ o \in Outputs
    BY <2>1, OutputsAssumption DEF LaidOut, TypeOK, InputTypes
  <2>3. \A o \in todo' : Alive(o)
    BY <2>1, <2>2 DEF LayoutInv, ExtentInv
  <2>4. QED
    BY <2>1, <2>3 DEF LoopInv, Alive
<1>11. CASE CopyPiece
  <2>1. /\ out # NoOutput /\ left # {} /\ left' = left \ {First(left)}
        /\ UNCHANGED <<phase, made, pool, out, todo>>
    BY <1>11 DEF CopyPiece
  <2>2. PiecesOf(out)' = PiecesOf(out)
    BY <2>1 DEF PiecesOf
  <2>3. QED
    BY <1>0, <2>1, <2>2, PieceDone DEF LoopInv, Alive
<1>12. CASE CopyEnd
  BY <1>12 DEF CopyEnd, LoopInv, Alive
<1>13. CASE CopyDone
  BY <1>13 DEF CopyDone, LoopInv, Alive
<1>14. CASE Terminated
  BY <1>1, <1>14 DEF Terminated
<1>15. QED
  BY <1>1, <1>2, <1>3, <1>4, <1>5, <1>6, <1>7, <1>8, <1>9, <1>10, <1>11, <1>12, <1>13,
     <1>14 DEF Next

-----------------------------------------------------------------------------
(***************************************************************************)
(* Offsets.                                                                *)
(***************************************************************************)

\* Only Assign_offset lays out: another step changes no offset, brings no piece
\* and no section into the layout, and begins a section at its start.
LEMMA LayoutKept ==
    ASSUME TypeOK, LoopInv, [Next]_vars, ~AssignOffset, ~AssignSize
    PROVE  /\ UNCHANGED layoutVars
           /\ \A o \in Outputs : LaidOut(o)' <=> LaidOut(o)
           /\ \A o \in Outputs, c \in Contents :
                /\ Past(o, c)' <=> Past(o, c)
                /\ Past(o, c) => align' = align
           /\ (phase = "assign" /\ out # NoOutput)' =>
                \/ phase = "assign" /\ UNCHANGED <<out, cursor, top>>
                \/ cursor' = 0 /\ \A c \in Contents : ~Past(out, c)'
<1> USE DEF inputVars, symbolVars, workVars, layoutVars, LaidOut, Past, Alive, PiecesOf
<1>0. next \in Files /\ \A o \in Outputs : o # NoOutput
  BY OutputsAssumption DEF TypeOK, LoopTypes
<1>1. CASE UNCHANGED vars
  BY <1>1 DEF vars
<1>2. CASE SplitFails
  BY <1>0, <1>2 DEF SplitFails, Fail
<1>3. CASE InitMergeableSection
  <2>1. phase' \in {"init", "collect"} /\ phase = "init" /\ UNCHANGED layoutVars
    BY <1>0, <1>3, NextFileLoop DEF InitMergeableSection
  <2>2. QED
    BY <2>1
<1>4. CASE CollectPieces
  <2>1. phase' \in {"collect", "resolve"} /\ phase = "collect" /\ UNCHANGED layoutVars
    BY <1>0, <1>4, NextFileLoop DEF CollectPieces
  <2>2. QED
    BY <2>1
<1>5. CASE FragmentsMiscounted
  BY <1>0, <1>5 DEF FragmentsMiscounted, Fail
<1>6. CASE ResolveSectionPieces
  <2>1. /\ phase' \in {"resolve", "assign"} /\ phase = "resolve" /\ UNCHANGED <<out, made>>
        /\ UNCHANGED layoutVars
        /\ todo' = IF phase' = "assign" THEN made ELSE todo
    BY <1>0, <1>6, NextFileLoop DEF ResolveSectionPieces
  <2>2. out' = NoOutput
    BY <2>1 DEF LoopInv
  <2>3. QED
    BY <1>0, <2>1, <2>2
<1>7. CASE BeginOutput
  <2>1. /\ out = NoOutput /\ out' \in todo /\ todo' = todo \ {out'} /\ left' = PiecesOf(out')
        /\ UNCHANGED <<phase, made, pool, align>> /\ phase \in {"assign", "copy"}
        /\ cursor' = 0 /\ UNCHANGED layoutVars
    BY <1>7 DEF BeginOutput
  <2>2. \A o \in Outputs : LaidOut(o)' <=> LaidOut(o)
    BY <1>0, <2>1
  <2>3. \A o \in Outputs, c \in Contents : Past(o, c)' <=> Past(o, c)
    BY <1>0, <2>1, <2>2
  <2>4. phase' = "assign" => \A c \in Contents : ~Past(out, c)'
    BY <1>0, <2>1
  <2>5. QED
    BY <2>1, <2>2, <2>3, <2>4
<1>8. CASE OpenOutputFile
  BY <1>0, <1>8 DEF OpenOutputFile
<1>9. CASE CopyPiece
  BY <1>0, <1>9 DEF CopyPiece
<1>10. CASE CopyEnd
  BY <1>0, <1>10 DEF CopyEnd
<1>11. CASE CopyDone
  BY <1>0, <1>11 DEF CopyDone
<1>12. CASE Terminated
  BY <1>1, <1>12 DEF Terminated
<1>13. QED
  BY <1>1, <1>2, <1>3, <1>4, <1>5, <1>6, <1>7, <1>8, <1>9, <1>10, <1>11, <1>12 DEF Next

\* One turn of Assign_offset takes one piece into the layout, the next one,
\* if the pieces of the section are alive.
LEMMA AssignOffsetPast ==
    ASSUME TypeOK, LoopInv, AssignOffset
    PROVE  LET c == First(left) IN
           /\ UNCHANGED <<phase, out, align, shsize, shalign>>
           /\ phase = "assign" /\ out \in Outputs
           /\ \A o \in Outputs : LaidOut(o)' <=> LaidOut(o)
           /\ ~LaidOut(out)
           /\ \A o \in Outputs, d \in Contents :
                Past(o, d)' <=> Past(o, d) \/ (Alive(out) /\ o = out /\ d = c)
           /\ ~Past(out, c)
           /\ \A d \in Contents : Past(out, d) => Rank[d] < Rank[c]
<1> DEFINE c == First(left)
<1>1. /\ phase = "assign" /\ out # NoOutput /\ left # {} /\ left' = left \ {c}
      /\ UNCHANGED <<phase, out, todo, made, pool, align, shsize, shalign>>
  BY DEF AssignOffset, inputVars
<1>2. /\ c \in left /\ c \in PiecesOf(out)
      /\ \A d \in PiecesOf(out) \ left : Rank[d] < Rank[c]
  BY <1>1, PieceDone DEF TypeOK, LoopTypes
<1> HIDE DEF c
<1>3. \A o \in Outputs : LaidOut(o)' <=> LaidOut(o)
  BY <1>1 DEF LaidOut
<1>4. ~LaidOut(out) /\ out \in Outputs
  BY <1>1 DEF LaidOut, TypeOK, LoopTypes
<1>5. ASSUME NEW o \in Outputs, NEW d \in Contents
      PROVE  Past(o, d)' <=> Past(o, d) \/ (Alive(out) /\ o = out /\ d = c)
  <2>1. (d \in PiecesOf(o))' <=> d \in PiecesOf(o)
    BY <1>1 DEF PiecesOf
  <2>2. (d \notin left)' <=> (d \notin left \/ d = c)
    BY <1>1
  <2>3. QED
    BY <1>1, <1>2, <1>3, <2>1, <2>2 DEF Past, Alive
<1>6. ~Past(out, c) /\ \A d \in Contents : Past(out, d) => Rank[d] < Rank[c]
  BY <1>2, <1>4 DEF Past
<1>7. QED
  BY <1>1, <1>3, <1>4, <1>5, <1>6 DEF c

\* The end of Assign_offset takes the section into the layout, and no piece.
LEMMA AssignSizePast ==
    ASSUME TypeOK, LoopInv, AssignSize
    PROVE  /\ UNCHANGED <<phase, align, offset, cursor, top>>
           /\ phase = "assign" /\ out \in Outputs /\ out # NoOutput /\ out' = NoOutput
           /\ shsize' = [shsize EXCEPT ![out] = cursor]
           /\ shalign' = [shalign EXCEPT ![out] = top]
           /\ \A o \in Outputs : LaidOut(o)' <=> LaidOut(o) \/ o = out
           /\ \A o \in Outputs, c \in Contents : Past(o, c)' <=> Past(o, c)
<1>1. /\ phase = "assign" /\ out # NoOutput /\ left = {} /\ out' = NoOutput
      /\ UNCHANGED <<phase, todo, made, pool, align, offset, cursor, top, left>>
      /\ shsize' = [shsize EXCEPT ![out] = cursor]
      /\ shalign' = [shalign EXCEPT ![out] = top]
  BY DEF AssignSize, inputVars
<1>2. out \in Outputs /\ out \in made \ todo /\ \A o \in Outputs : o # NoOutput
  BY <1>1, OutputsAssumption DEF LoopInv, TypeOK, LoopTypes
<1>3. \A o \in Outputs : LaidOut(o)' <=> LaidOut(o) \/ o = out
  BY <1>1, <1>2 DEF LaidOut
<1>4. ASSUME NEW o \in Outputs, NEW c \in Contents PROVE Past(o, c)' <=> Past(o, c)
  <2>1. (c \in PiecesOf(o))' <=> c \in PiecesOf(o)
    BY <1>1 DEF PiecesOf
  <2>2. QED
    BY <1>1, <1>2, <1>3, <2>1 DEF Past, Alive
<1>5. QED
  BY <1>1, <1>2, <1>3, <1>4

\* Offsets, alignments and sizes are numbers.
LEMMA LayoutNumbers ==
    ASSUME TypeOK, NEW o \in Outputs, NEW c \in Contents
    PROVE  /\ offset[o][c] \in Int
           /\ align[o][c] \in Alignments /\ align[o][c] \in Nat
           /\ Size[c] \in Nat \ {0} /\ Rank[c] \in Nat
           /\ EndOf(o, c) = offset[o][c] + Size[c] /\ EndOf(o, c) \in Int
           /\ shsize[o] \in Nat /\ shalign[o] \in Alignments /\ shalign[o] \in Nat
<1>1. offset[o][c] \in Int /\ shsize[o] \in Nat /\ shalign[o] \in Alignments
  BY DEF TypeOK, LayoutTypes, Unplaced
<1>2. align[o][c] \in Alignments
  BY DEF TypeOK, InputTypes
<1>3. Size[c] \in Nat \ {0} /\ Rank[c] \in Nat
  BY ContentsAssumption
<1>4. EndOf(o, c) = offset[o][c] + Size[c] /\ EndOf(o, c) \in Int
  BY <1>1, <1>3 DEF EndOf
<1>5. align[o][c] \in Nat /\ shalign[o] \in Nat
  BY <1>1, <1>2, AlignmentsAssumption
<1>6. QED
  BY <1>1, <1>2, <1>3, <1>4, <1>5

\* One turn of Assign_offset, for a section whose pieces are alive.
LEMMA LayoutStepAssign ==
    ASSUME TypeOK, LoopInv, LayoutInv, AssignOffset, Alive(out),
           NEW c, c = First(left), NEW x, x = AlignTo(cursor, top)
    PROVE  LayoutInv'
<1>1. /\ UNCHANGED <<phase, out, align, shsize, shalign>>
      /\ phase = "assign" /\ out \in Outputs /\ ~LaidOut(out) /\ out # NoOutput
      /\ \A o \in Outputs : LaidOut(o)' <=> LaidOut(o)
      /\ \A o \in Outputs, d \in Contents : Past(o, d)' <=> Past(o, d) \/ (o = out /\ d = c)
      /\ ~Past(out, c)
      /\ \A d \in Contents : Past(out, d) => Rank[d] < Rank[c]
  BY AssignOffsetPast DEF AssignOffset
<1>2. /\ c \in Contents
      /\ offset' = [offset EXCEPT ![out][c] = x]
      /\ cursor' = x + Size[c] /\ x \in Nat /\ cursor <= x
      /\ \A b \in Alignments : b <= top => x % b = 0
      /\ top \in Nat /\ top' \in Nat /\ top <= top' /\ align[out][c] <= top'
  BY AssignOffsetFacts, AlignmentsAssumption DEF TypeOK, LoopTypes
<1>3. /\ \A o \in Outputs, d \in Contents : /\ offset[o][d] \in Int
                                            /\ align[o][d] \in Alignments
                                            /\ align[o][d] \in Nat
                                            /\ Rank[d] \in Nat
                                            /\ EndOf(o, d) \in Int
      /\ cursor \in Nat /\ Size[c] \in Nat /\ cursor' \in Nat /\ cursor <= cursor'
  <2>1. cursor \in Nat /\ Size[c] \in Nat
    BY <1>2, ContentsAssumption DEF TypeOK, LoopTypes
  <2>2. cursor' \in Nat /\ cursor <= cursor'
    BY <1>2, <2>1
  <2>3. QED
    BY <2>1, <2>2, LayoutNumbers
<1>4. /\ offset'[out][c] = x /\ EndOf(out, c)' = x + Size[c]
      /\ \A o \in Outputs, d \in Contents :
           o # out \/ d # c => offset'[o][d] = offset[o][d] /\ EndOf(o, d)' = EndOf(o, d)
  <2>1. offset \in [Outputs -> [Contents -> Nat \union {Unplaced}]]
    BY DEF TypeOK, LayoutTypes
  <2>2. offset'[out][c] = x
    BY <1>1, <1>2, <2>1
  <2>3. \A o \in Outputs, d \in Contents : o # out \/ d # c => offset'[o][d] = offset[o][d]
    BY <1>1, <1>2, <2>1
  <2>4. QED
    BY <1>1, <2>2, <2>3 DEF EndOf
<1>5. /\ \A d \in Contents : Past(out, d) => EndOf(out, d) <= cursor /\ align[out][d] <= top
  BY <1>1 DEF LayoutInv, CursorInv
<1>6. PlacedInv'
  <2>1. x # Unplaced
    BY <1>2 DEF Unplaced
  <2>2. QED
    BY <1>1, <1>2, <1>4, <2>1 DEF LayoutInv, PlacedInv
<1>7. OrderInv'
  <2>1. ASSUME NEW o \in Outputs, NEW d \in Contents, NEW e \in Contents,
               Past(o, d)', Past(o, e)', Rank[d] < Rank[e]
        PROVE  EndOf(o, d)' <= offset'[o][e] /\ offset'[o][e] % align'[o][d] = 0
    <3>1. CASE o = out /\ e = c
      <4>1. Past(out, d) /\ d # c
        BY <1>1, <1>2, <1>3, <2>1, <3>1
      <4>2. EndOf(out, d) <= cursor /\ align[out][d] <= top
        BY <1>5, <4>1
      <4>3. EndOf(out, d) <= x
        BY <1>1, <1>2, <1>3, <4>2
      <4>4. x % align[out][d] = 0
        BY <1>1, <1>2, <1>3, <4>2
      <4>5. QED
        BY <1>1, <1>2, <1>4, <3>1, <4>1, <4>3, <4>4
    <3>2. CASE o = out /\ e # c
      <4>1. Past(out, e) /\ d # c
        BY <1>1, <1>2, <1>3, <2>1, <3>2
      <4>2. QED
        BY <1>1, <1>2, <1>4, <2>1, <3>2, <4>1 DEF LayoutInv, OrderInv
    <3>3. CASE o # out
      BY <1>1, <1>2, <1>4, <2>1, <3>3 DEF LayoutInv, OrderInv
    <3>4. QED
      BY <3>1, <3>2, <3>3
  <2>2. QED
    BY <2>1 DEF OrderInv
<1>8. CursorInv'
  <2>1. ASSUME NEW d \in Contents, Past(out, d)'
        PROVE  EndOf(out, d)' <= cursor' /\ align[out][d] <= top'
    <3>1. CASE d = c
      BY <1>1, <1>2, <1>3, <1>4, <3>1
    <3>2. CASE d # c
      <4>1. EndOf(out, d) <= cursor /\ align[out][d] <= top /\ EndOf(out, d)' = EndOf(out, d)
        BY <1>1, <1>4, <1>5, <2>1, <3>2
      <4>2. cursor <= cursor'
        BY <1>2, <1>3
      <4>3. cursor' \in Nat
        BY <1>2, <1>3
      <4>4. QED
        BY <1>1, <1>2, <1>3, <4>1, <4>2, <4>3
    <3>3. QED
      BY <3>1, <3>2
  <2>2. Past(out, c)' /\ cursor' = EndOf(out, c)'
    BY <1>1, <1>2, <1>4
  <2>3. QED
    BY <1>1, <1>2, <2>1, <2>2 DEF CursorInv, EndOf, Past, Alive, LaidOut, PiecesOf
<1>9. ExtentInv'
  <2>1. ASSUME NEW o \in Outputs, LaidOut(o)'
        PROVE  /\ \A d \in Contents : Past(o, d)' =>
                    EndOf(o, d)' <= shsize'[o] /\ align'[o][d] <= shalign'[o]
               /\ ~Alive(o) => shsize'[o] = 0
    <3>1. o # out /\ LaidOut(o)
      BY <1>1, <2>1
    <3>2. QED
      BY <1>1, <1>4, <3>1 DEF LayoutInv, ExtentInv
  <2>2. QED
    BY <2>1 DEF ExtentInv, Alive
<1>10. QED
  BY <1>6, <1>7, <1>8, <1>9 DEF LayoutInv

\* Pieces with an offset are those Assign_offset came past; they lie one behind
\* the other, each aligned for those before it, and inside of their section.
LEMMA LayoutStep ==
    ASSUME TypeOK, LoopInv, LayoutInv, [Next]_vars
    PROVE  LayoutInv'
<1>1. CASE ~AssignOffset /\ ~AssignSize
  <2>1. /\ UNCHANGED layoutVars
        /\ \A o \in Outputs : LaidOut(o)' <=> LaidOut(o)
        /\ \A o \in Outputs, c \in Contents :
             /\ Past(o, c)' <=> Past(o, c)
             /\ Past(o, c) => align' = align
        /\ (phase = "assign" /\ out # NoOutput)' =>
             \/ phase = "assign" /\ UNCHANGED <<out, cursor, top>>
             \/ cursor' = 0 /\ \A c \in Contents : ~Past(out, c)'
    BY <1>1, LayoutKept
  <2>2. UNCHANGED <<offset, shsize, shalign>> /\ \A o, c : EndOf(o, c)' = EndOf(o, c)
    BY <2>1 DEF layoutVars, EndOf
  <2>3. PlacedInv'
    BY <2>1, <2>2 DEF LayoutInv, PlacedInv
  <2>4. OrderInv'
    BY <2>1, <2>2 DEF LayoutInv, OrderInv
  <2>5. CursorInv'
    <3>1. SUFFICES ASSUME (phase = "assign" /\ out # NoOutput)'
                   PROVE  (/\ \A c \in Contents : Past(out, c) =>
                                EndOf(out, c) <= cursor /\ align[out][c] <= top
                           /\ cursor = 0 \/ \E c \in Contents :
                                Past(out, c) /\ cursor = EndOf(out, c))'
      BY DEF CursorInv
    <3>2. CASE phase = "assign" /\ UNCHANGED <<out, cursor, top>>
      <4>1. out \in Outputs /\ out # NoOutput /\ phase = "assign"
        BY <3>1, <3>2 DEF TypeOK, LoopTypes
      <4>2. \A c \in Contents : Past(out, c)' <=> Past(out, c)
        BY <2>1, <3>2, <4>1
      <4>3. \A c \in Contents : Past(out, c) => align' = align
        BY <2>1, <4>1
      <4>4. \A c \in Contents : EndOf(out, c)' = EndOf(out, c)
        BY <2>2, <3>2
      <4>5. /\ \A c \in Contents : Past(out, c) => EndOf(out, c) <= cursor /\ align[out][c] <= top
            /\ cursor = 0 \/ \E c \in Contents : Past(out, c) /\ cursor = EndOf(out, c)
        BY <4>1 DEF LayoutInv, CursorInv
      <4>6. QED
        BY <3>2, <4>2, <4>3, <4>4, <4>5
    <3>3. CASE cursor' = 0 /\ \A c \in Contents : ~Past(out, c)'
      BY <3>3
    <3>4. QED
      BY <2>1, <3>1, <3>2, <3>3
  <2>6. ExtentInv'
    BY <2>1, <2>2 DEF LayoutInv, ExtentInv, Alive
  <2>7. QED
    BY <2>3, <2>4, <2>5, <2>6 DEF LayoutInv
<1>2. CASE AssignOffset /\ Alive(out)
  <2>1. PICK c : c = First(left)
    OBVIOUS
  <2>2. PICK x : x = AlignTo(cursor, top)
    OBVIOUS
  <2>3. QED
    BY <1>2, <2>1, <2>2, LayoutStepAssign
<1>3. CASE AssignOffset /\ ~Alive(out)
  <2>1. /\ UNCHANGED <<phase, out, align, offset, shsize, shalign, cursor, top>>
        /\ phase = "assign" /\ out \in Outputs /\ out # NoOutput
        /\ \A o \in Outputs : LaidOut(o)' <=> LaidOut(o)
        /\ \A o \in Outputs, d \in Contents : Past(o, d)' <=> Past(o, d)
    BY <1>3, AssignOffsetPast, AssignOffsetFacts DEF AssignOffset
  <2>2. \A o, c : EndOf(o, c)' = EndOf(o, c)
    BY <2>1 DEF EndOf
  <2>3. PlacedInv'
    BY <2>1 DEF LayoutInv, PlacedInv
  <2>4. OrderInv'
    BY <2>1, <2>2 DEF LayoutInv, OrderInv
  <2>5. CursorInv'
    <3>1. /\ \A c \in Contents : Past(out, c) => EndOf(out, c) <= cursor /\ align[out][c] <= top
          /\ cursor = 0 \/ \E c \in Contents : Past(out, c) /\ cursor = EndOf(out, c)
      BY <2>1 DEF LayoutInv, CursorInv
    <3>2. \A c \in Contents : (Past(out, c)' <=> Past(out, c)) /\ EndOf(out, c)' = EndOf(out, c)
      BY <2>1, <2>2
    <3>3. QED
      BY <2>1, <3>1, <3>2 DEF CursorInv
  <2>6. ExtentInv'
    BY <2>1, <2>2 DEF LayoutInv, ExtentInv, Alive
  <2>7. QED
    BY <2>3, <2>4, <2>5, <2>6 DEF LayoutInv
<1>4. CASE AssignSize
  <2>1. /\ UNCHANGED <<phase, align, offset, cursor, top>>
        /\ phase = "assign" /\ out \in Outputs /\ out # NoOutput /\ out' = NoOutput
        /\ shsize' = [shsize EXCEPT ![out] = cursor]
        /\ shalign' = [shalign EXCEPT ![out] = top]
        /\ \A o \in Outputs : LaidOut(o)' <=> LaidOut(o) \/ o = out
        /\ \A o \in Outputs, c \in Contents : Past(o, c)' <=> Past(o, c)
    BY <1>4, AssignSizePast
  <2>2. \A o, c : EndOf(o, c)' = EndOf(o, c)
    BY <2>1 DEF EndOf
  <2>3. PlacedInv'
    BY <2>1 DEF LayoutInv, PlacedInv
  <2>4. OrderInv'
    BY <2>1, <2>2 DEF LayoutInv, OrderInv
  <2>5. CursorInv'
    BY <2>1 DEF CursorInv
  <2>6. ASSUME NEW o \in Outputs, LaidOut(o)'
        PROVE  /\ \A c \in Contents : Past(o, c)' =>
                    EndOf(o, c)' <= shsize'[o] /\ align'[o][c] <= shalign'[o]
               /\ ~Alive(o) => shsize'[o] = 0
    <3>1. CASE o # out
      <4>1. LaidOut(o) /\ shsize'[o] = shsize[o] /\ shalign'[o] = shalign[o]
        BY <2>1, <2>6, <3>1 DEF TypeOK, LayoutTypes
      <4>2. QED
        BY <2>1, <2>2, <4>1 DEF LayoutInv, ExtentInv
    <3>2. CASE o = out
      <4>1. shsize'[o] = cursor /\ shalign'[o] = top
        BY <2>1, <3>2 DEF TypeOK, LayoutTypes
      <4>2. /\ \A c \in Contents : Past(o, c) => EndOf(o, c) <= cursor /\ align[o][c] <= top
            /\ cursor = 0 \/ \E c \in Contents : Past(o, c)
        BY <2>1, <3>2 DEF LayoutInv, CursorInv
      <4>3. ~Alive(o) => cursor = 0
        BY <4>2 DEF Past
      <4>4. QED
        BY <2>1, <2>2, <4>1, <4>2, <4>3
    <3>3. QED
      BY <3>1, <3>2
  <2>7. ExtentInv'
    BY <2>6 DEF ExtentInv, Alive
  <2>8. QED
    BY <2>3, <2>4, <2>5, <2>7 DEF LayoutInv
<1>5. QED
  BY <1>1, <1>2, <1>3, <1>4

-----------------------------------------------------------------------------
(***************************************************************************)
(* The copy.                                                               *)
(***************************************************************************)

\* Once the layout is done, every living piece of the pool has its place.
LEMMA PlacedPieces ==
    ASSUME TypeOK, LoopInv, LayoutInv, phase \in {"copy", "done"},
           NEW o \in made, Alive(o), NEW c \in PiecesOf(o)
    PROVE  /\ o \in Outputs /\ c \in Contents /\ Past(o, c)
           /\ offset[o][c] \in Nat
           /\ EndOf(o, c) = offset[o][c] + Size[c] /\ EndOf(o, c) \in Nat
           /\ EndOf(o, c) <= shsize[o] /\ shsize[o] \in Nat
           /\ align[o][c] <= shalign[o]
<1>1. o \in Outputs /\ c \in Contents
  BY DEF TypeOK, InputTypes, PiecesOf
<1>2. LaidOut(o) /\ Past(o, c)
  BY DEF LaidOut, Past
<1>3. offset[o][c] # Unplaced /\ EndOf(o, c) <= shsize[o] /\ align[o][c] <= shalign[o]
  BY <1>1, <1>2 DEF LayoutInv, PlacedInv, ExtentInv
<1>4. offset[o][c] \in Nat
  BY <1>1, <1>3 DEF TypeOK, LayoutTypes
<1>5. QED
  BY <1>1, <1>2, <1>3, <1>4, LayoutNumbers

\* One turn of m_copy_chunk: the piece lies behind those that were copied, and
\* the gap behind it ends inside of the section.
LEMMA CopyPieceFacts ==
    ASSUME TypeOK, LoopInv, LayoutInv, phase = "copy", out # NoOutput, left # {},
           NEW c, c = First(left)
    PROVE  /\ out \in made /\ Alive(out) /\ out \in Outputs /\ c \in PiecesOf(out) /\ c \in left
           /\ offset[out][c] \in Nat
           /\ PieceEnd(c) = EndOf(out, c) /\ PieceEnd(c) \in Nat
           /\ GapEnd(c) \in Nat /\ PieceEnd(c) <= GapEnd(c) /\ GapEnd(c) <= shsize[out]
           /\ shsize[out] \in Nat
           /\ \A d \in PiecesOf(out) \ left : EndOf(out, d) <= offset[out][c]
<1>1. out \in made /\ Alive(out) /\ left \in SUBSET Contents /\ out \in Outputs
  BY DEF LoopInv, TypeOK, LoopTypes, InputTypes
<1>2. /\ c \in left /\ c \in PiecesOf(out)
      /\ left \ {c} \subseteq PiecesOf(out)
      /\ \A d \in left : d # c => Rank[c] < Rank[d]
      /\ \A d \in PiecesOf(out) \ left : Rank[d] < Rank[c]
  BY <1>1, PieceDone
<1>3. \A d \in PiecesOf(out) :
        /\ d \in Contents /\ Past(out, d) /\ offset[out][d] \in Nat
        /\ EndOf(out, d) = offset[out][d] + Size[d] /\ EndOf(out, d) \in Nat
        /\ EndOf(out, d) <= shsize[out] /\ shsize[out] \in Nat
  BY <1>1, PlacedPieces
<1>4. PieceEnd(c) = EndOf(out, c)
  BY DEF PieceEnd, EndOf
<1>5. \A d \in PiecesOf(out), e \in PiecesOf(out) :
        Rank[d] < Rank[e] => EndOf(out, d) <= offset[out][e]
  BY <1>1, <1>3 DEF LayoutInv, OrderInv
<1>6. GapEnd(c) \in Nat /\ PieceEnd(c) <= GapEnd(c) /\ GapEnd(c) <= shsize[out]
  <2>1. CASE left = {c}
    BY <1>2, <1>3, <1>4, <2>1 DEF GapEnd
  <2>2. CASE left # {c}
    <3> DEFINE e == First(left \ {c})
    <3>1. e \in left \ {c}
      BY <1>1, <1>2, <2>2, FirstFacts
    <3>2. GapEnd(c) = offset[out][e]
      BY <2>2 DEF GapEnd
    <3> HIDE DEF e
    <3>3. e \in PiecesOf(out) /\ EndOf(out, c) <= offset[out][e]
      BY <1>2, <1>5, <3>1
    <3>4. Size[e] \in Nat
      BY <1>3, <3>3, ContentsAssumption
    <3>5. offset[out][e] <= EndOf(out, e)
      BY <1>3, <3>3, <3>4
    <3>6. offset[out][e] \in Nat /\ EndOf(out, e) \in Nat /\ EndOf(out, e) <= shsize[out]
          /\ shsize[out] \in Nat
      BY <1>3, <3>3
    <3>7. QED
      BY <1>4, <3>2, <3>3, <3>5, <3>6
  <2>3. QED
    BY <2>1, <2>2
<1>7. QED
  BY <1>1, <1>2, <1>3, <1>4, <1>5, <1>6

\* What one turn of m_copy_chunk writes: the piece, and nothing over those
\* that were copied before.
LEMMA ImageStepCopy ==
    ASSUME TypeOK, LoopInv, LayoutInv, ImageInv, CopyPiece, NEW c, c = First(left)
    PROVE  /\ DOMAIN image' = Outputs /\ DOMAIN image'[out] = DOMAIN image[out]
           /\ \A o \in Outputs : o # out => image'[o] = image[o]
           /\ \A j \in 0 .. Size[c] - 1 : image'[out][offset[out][c] + j] = <<c, j>>
           /\ \A d \in PiecesOf(out) \ left : \A j \in 0 .. Size[d] - 1 :
                image'[out][offset[out][d] + j] = image[out][offset[out][d] + j]
<1> DEFINE Copy == [m \in DOMAIN image[out] |->
             CASE m >= offset[out][c] /\ m < PieceEnd(c) -> <<c, m - offset[out][c]>>
               [] m >= PieceEnd(c) /\ m < GapEnd(c)      -> Zero
               [] OTHER                                  -> image[out][m]]
<1>1. image' = [image EXCEPT ![out] = Copy] /\ phase = "copy" /\ out # NoOutput /\ left # {}
  BY DEF CopyPiece
<1>2. /\ out \in made /\ Alive(out) /\ out \in Outputs /\ c \in PiecesOf(out)
      /\ offset[out][c] \in Nat
      /\ PieceEnd(c) = EndOf(out, c) /\ PieceEnd(c) \in Nat
      /\ GapEnd(c) \in Nat /\ PieceEnd(c) <= GapEnd(c) /\ GapEnd(c) <= shsize[out]
      /\ shsize[out] \in Nat
      /\ \A d \in PiecesOf(out) \ left : EndOf(out, d) <= offset[out][c]
  BY <1>1, CopyPieceFacts
<1>3. DOMAIN image = Outputs /\ DOMAIN image[out] = 0 .. shsize[out] - 1
  BY <1>1, <1>2 DEF ImageInv, TypeOK, ImageTypes
<1>4. DOMAIN Copy = DOMAIN image[out]
  OBVIOUS
<1>5. ASSUME NEW d \in PiecesOf(out), NEW j \in 0 .. Size[d] - 1
      PROVE  /\ offset[out][d] + j \in DOMAIN image[out]
             /\ offset[out][d] <= offset[out][d] + j /\ offset[out][d] + j < EndOf(out, d)
             /\ offset[out][d] \in Nat /\ EndOf(out, d) \in Nat
  <2>1. /\ offset[out][d] \in Nat /\ EndOf(out, d) = offset[out][d] + Size[d]
        /\ EndOf(out, d) \in Nat /\ EndOf(out, d) <= shsize[out] /\ d \in Contents
    BY <1>1, <1>2, PlacedPieces
  <2>2. Size[d] \in Nat /\ j \in Nat /\ j < Size[d]
    BY <2>1, ContentsAssumption
  <2>3. /\ offset[out][d] <= offset[out][d] + j /\ offset[out][d] + j < EndOf(out, d)
        /\ offset[out][d] + j \in Nat /\ offset[out][d] + j <= shsize[out] - 1
    BY <1>2, <2>1, <2>2
  <2>4. offset[out][d] + j \in DOMAIN image[out]
    BY <1>2, <1>3, <2>3
  <2>5. QED
    BY <2>1, <2>3, <2>4
<1>6. ASSUME NEW j \in 0 .. Size[c] - 1 PROVE Copy[offset[out][c] + j] = <<c, j>>
  <2> DEFINE m == offset[out][c] + j
  <2>1. /\ m \in DOMAIN image[out] /\ offset[out][c] <= m /\ m < PieceEnd(c)
        /\ m - offset[out][c] = j /\ ~(m >= PieceEnd(c)) /\ m >= offset[out][c]
    BY <1>2, <1>5
  <2> HIDE DEF m
  <2>2. Copy[m] = <<c, m - offset[out][c]>>
    BY <2>1
  <2>3. QED
    BY <2>1, <2>2 DEF m
<1>7. ASSUME NEW d \in PiecesOf(out) \ left, NEW j \in 0 .. Size[d] - 1
      PROVE  Copy[offset[out][d] + j] = image[out][offset[out][d] + j]
  <2> DEFINE m == offset[out][d] + j
  <2>1. /\ m \in DOMAIN image[out] /\ m < EndOf(out, d)
        /\ EndOf(out, d) <= offset[out][c] /\ EndOf(out, d) \in Nat
    BY <1>2, <1>5
  <2>2. offset[out][c] <= PieceEnd(c)
    <3>1. Size[c] \in Nat
      BY <1>2, ContentsAssumption DEF PiecesOf
    <3>2. QED
      BY <1>2, <3>1 DEF PieceEnd
  <2>3. m \in Int
    BY <1>3, <2>1
  <2> HIDE DEF m
  <2>4. ~(m >= offset[out][c]) /\ ~(m >= PieceEnd(c))
    BY <1>2, <2>1, <2>2, <2>3
  <2>5. Copy[m] = image[out][m]
    BY <2>1, <2>4
  <2>6. QED
    BY <2>5 DEF m
<1> HIDE DEF Copy
<1>8. QED
  BY <1>1, <1>2, <1>3, <1>4, <1>6, <1>7

\* What was copied is in the image, and stays.
LEMMA ImageStep ==
    ASSUME TypeOK, LoopInv, LayoutInv, ImageInv, [Next]_vars
    PROVE  ImageInv'
<1> USE DEF inputVars, symbolVars, workVars, layoutVars
<1>0. \A o \in Outputs : o # NoOutput
  BY OutputsAssumption
<1>1. SUFFICES ASSUME (phase \in {"copy", "done"})'
               PROVE  /\ \A o \in Outputs : DOMAIN image'[o] = 0 .. shsize'[o] - 1
                      /\ \A o \in Outputs, c \in Contents : Copied(o, c)' =>
                           \A j \in 0 .. Size[c] - 1 : image'[o][offset'[o][c] + j] = <<c, j>>
  BY DEF ImageInv
<1>2. CASE OpenOutputFile
  <2>1. /\ phase = "assign" /\ out = NoOutput /\ todo = {} /\ phase' = "copy"
        /\ todo' = {o \in made : shsize[o] # 0} /\ UNCHANGED <<offset, shsize, made, pool, out>>
        /\ image' = [o \in Outputs |-> [n \in 0 .. shsize[o] - 1 |-> Zero]]
    BY <1>2 DEF OpenOutputFile
  <2>2. ASSUME NEW o \in Outputs, NEW c \in Contents PROVE ~Copied(o, c)'
    <3>1. SUFFICES ASSUME Copied(o, c)' PROVE FALSE
      OBVIOUS
    <3>2. o \in made /\ Alive(o) /\ c \in PiecesOf(o) /\ shsize[o] = 0
      BY <2>1, <3>1 DEF Copied, PiecesOf, Alive
    <3>3. LaidOut(o) /\ Past(o, c)
      BY <1>0, <2>1, <3>2 DEF LaidOut, Past
    <3>4. EndOf(o, c) <= shsize[o] /\ offset[o][c] # Unplaced
      BY <3>3 DEF LayoutInv, ExtentInv, PlacedInv
    <3>5. offset[o][c] \in Nat /\ Size[c] \in Nat \ {0} /\ EndOf(o, c) = offset[o][c] + Size[c]
      BY <3>4, LayoutNumbers DEF TypeOK, LayoutTypes
    <3>6. QED
      BY <3>2, <3>4, <3>5
  <2>3. QED
    BY <2>1, <2>2
<1>3. CASE CopyPiece
  <2>1. /\ phase = "copy" /\ out # NoOutput /\ left # {} /\ left' = left \ {First(left)}
        /\ UNCHANGED <<phase, offset, shsize, made, pool, out, todo>>
    BY <1>3 DEF CopyPiece
  <2>2. PICK c : c = First(left)
    OBVIOUS
  <2>3. out \in made /\ Alive(out) /\ out \in Outputs /\ c \in PiecesOf(out) /\ c \in left
    BY <2>1, <2>2, CopyPieceFacts
  <2>4. /\ DOMAIN image'[out] = DOMAIN image[out]
        /\ \A o \in Outputs : o # out => image'[o] = image[o]
        /\ \A j \in 0 .. Size[c] - 1 : image'[out][offset[out][c] + j] = <<c, j>>
        /\ \A d \in PiecesOf(out) \ left : \A j \in 0 .. Size[d] - 1 :
             image'[out][offset[out][d] + j] = image[out][offset[out][d] + j]
    BY <1>3, <2>2, ImageStepCopy
  <2>5. \A o \in Outputs : DOMAIN image'[o] = 0 .. shsize'[o] - 1
    BY <2>1, <2>4 DEF ImageInv
  <2>6. ASSUME NEW o \in Outputs, NEW d \in Contents, Copied(o, d)'
        PROVE  \A j \in 0 .. Size[d] - 1 : image'[o][offset'[o][d] + j] = <<d, j>>
    <3>1. CASE o # out
      <4>1. Copied(o, d)
        BY <2>1, <2>6, <3>1 DEF Copied, Alive, PiecesOf
      <4>2. QED
        BY <2>1, <2>4, <3>1, <4>1 DEF ImageInv
    <3>2. CASE o = out /\ d = c
      BY <2>1, <2>4, <3>2
    <3>3. CASE o = out /\ d # c
      <4>1. Copied(o, d) /\ d \in PiecesOf(out) \ left
        BY <2>1, <2>2, <2>6, <3>3 DEF Copied, Alive, PiecesOf
      <4>2. \A j \in 0 .. Size[d] - 1 : image[o][offset[o][d] + j] = <<d, j>>
        BY <2>1, <4>1 DEF ImageInv
      <4>3. QED
        BY <2>1, <2>4, <3>3, <4>1, <4>2
    <3>4. QED
      BY <3>1, <3>2, <3>3
  <2>7. QED
    BY <2>5, <2>6
<1>4. ASSUME phase \in {"copy", "done"}, UNCHANGED <<image, offset, shsize, made, pool>>,
             \A o \in Outputs, c \in Contents : Copied(o, c)' => Copied(o, c)
      PROVE  /\ \A o \in Outputs : DOMAIN image'[o] = 0 .. shsize'[o] - 1
             /\ \A o \in Outputs, c \in Contents : Copied(o, c)' =>
                  \A j \in 0 .. Size[c] - 1 : image'[o][offset'[o][c] + j] = <<c, j>>
  BY <1>4 DEF ImageInv
<1>5. CASE UNCHANGED vars
  <2>1. phase \in {"copy", "done"} /\ UNCHANGED <<image, offset, shsize, made, pool>>
    BY <1>1, <1>5 DEF vars
  <2>2. \A o \in Outputs, c \in Contents : Copied(o, c)' => Copied(o, c)
    BY <1>5 DEF vars, Copied, Alive, PiecesOf
  <2>3. QED
    BY <1>4, <2>1, <2>2
<1>6. CASE BeginOutput
  <2>1. /\ phase = "copy" /\ out = NoOutput /\ out' \in todo /\ todo' = todo \ {out'}
        /\ left' = PiecesOf(out') /\ UNCHANGED <<phase, image, offset, shsize, made, pool>>
    BY <1>1, <1>6 DEF BeginOutput
  <2>2. \A o \in Outputs, c \in Contents : Copied(o, c)' => Copied(o, c)
    BY <1>0, <2>1 DEF Copied, Alive, PiecesOf
  <2>3. QED
    BY <1>4, <2>1, <2>2
<1>7. CASE CopyEnd
  <2>1. /\ phase = "copy" /\ left = {}
        /\ UNCHANGED <<phase, image, offset, shsize, made, pool, todo>>
    BY <1>7 DEF CopyEnd
  <2>2. \A o \in Outputs, c \in Contents : Copied(o, c)' => Copied(o, c)
    BY <2>1 DEF Copied, Alive, PiecesOf
  <2>3. QED
    BY <1>4, <2>1, <2>2
<1>8. CASE CopyDone
  <2>1. /\ phase = "copy" /\ out = NoOutput /\ todo = {} /\ phase' = "done"
        /\ UNCHANGED <<image, offset, shsize, made, pool>>
    BY <1>8 DEF CopyDone
  <2>2. \A o \in Outputs, c \in Contents : Copied(o, c)' => Copied(o, c)
    BY <1>0, <2>1 DEF Copied, Alive, PiecesOf
  <2>3. QED
    BY <1>4, <2>1, <2>2
<1>9. CASE SplitFails \/ FragmentsMiscounted \/ AssignOffset \/ AssignSize
  BY <1>1, <1>9 DEF SplitFails, FragmentsMiscounted, Fail, AssignOffset, AssignSize
<1>10. CASE InitMergeableSection \/ CollectPieces \/ ResolveSectionPieces
  BY <1>1, <1>10
     DEF InitMergeableSection, CollectPieces, ResolveSectionPieces, NextFile
<1>11. CASE Terminated
  BY <1>5, <1>11 DEF Terminated
<1>12. QED
  BY <1>2, <1>3, <1>5, <1>6, <1>7, <1>8, <1>9, <1>10, <1>11 DEF Next

-----------------------------------------------------------------------------
(***************************************************************************)
(* Every reachable state satisfies the invariant.                          *)
(***************************************************************************)

\* Split_section returns no piece for a reason; so does the assertion.
LEMMA ErrorsStep ==
    ASSUME TypeOK, SplitInv, ErrorsAreReal, [Next]_vars
    PROVE  ErrorsAreReal'
<1> USE DEF inputVars, symbolVars, workVars, layoutVars
<1>0. next \in Files
  BY DEF TypeOK, LoopTypes
<1>1. /\ files' = files
      /\ \A f : Sections(f)' = Sections(f)
      /\ \A id : SectionOf(id)' = SectionOf(id)
  BY FilesStep
<1>2. \A f, kinds : OfKind(f, kinds)' = OfKind(f, kinds)
  BY <1>1 DEF OfKind
<1>3. CASE SplitFails
  BY <1>0, <1>2, <1>3 DEF SplitFails, Fail, ErrorsAreReal
<1>4. CASE FragmentsMiscounted
  <2>1. Counted(next) # Handled(next) /\ phase' = "assertion failed" /\ phase = "resolve"
    BY <1>4 DEF FragmentsMiscounted, Fail
  <2>2. Handled(next) \subseteq Counted(next)
    BY DEF Handled, Counted, TypeOK, InputTypes
  <2>3. PICK r \in Counted(next) : r \notin Handled(next)
    BY <2>1, <2>2
  <2> DEFINE id == <<next, files[next].refs[r].sec>>
  <2>4. r \in DOMAIN files[next].refs /\ id \in merged /\ id \notin listed
    BY <2>3 DEF Counted, Handled
  <2>5. id \in Sections(next)
    BY <1>0, <2>4, ReferenceFacts DEF TypeOK, InputTypes
  <2>6. SectionOf(id).kind \in {"pieces", "no entry size"}
    BY <2>4 DEF SplitInv
  <2>7. SectionOf(id).kind # "pieces"
    <3>1. OfKind(next, {"pieces"}) \subseteq listed
      BY <1>0, <2>1 DEF SplitInv, Split
    <3>2. QED
      BY <2>4, <2>5, <3>1 DEF OfKind
  <2> HIDE DEF id
  <2>8. id \in OfKind(next, {"no entry size"})
    BY <2>5, <2>6, <2>7 DEF OfKind
  <2>9. \E f \in Files : \E q \in DOMAIN files[f].refs :
          <<f, files[f].refs[q].sec>> \in OfKind(f, {"no entry size"})
    BY <1>0, <2>4, <2>8 DEF id
  <2>10. QED
    BY <1>1, <1>2, <2>1, <2>9 DEF ErrorsAreReal
<1>5. ASSUME ~SplitFails, ~FragmentsMiscounted
      PROVE  phase' = phase \/ phase' \notin {"bad section", "assertion failed"}
  <2>1. CASE UNCHANGED vars
    BY <2>1 DEF vars
  <2>2. CASE InitMergeableSection \/ CollectPieces \/ ResolveSectionPieces
    BY <2>2 DEF InitMergeableSection, CollectPieces, ResolveSectionPieces, NextFile
  <2>3. CASE BeginOutput \/ AssignOffset \/ AssignSize \/ CopyPiece \/ CopyEnd
    BY <2>3 DEF BeginOutput, AssignOffset, AssignSize, CopyPiece, CopyEnd
  <2>4. CASE OpenOutputFile \/ CopyDone
    BY <2>4 DEF OpenOutputFile, CopyDone
  <2>5. CASE Terminated
    BY <2>1, <2>5 DEF Terminated
  <2>6. QED
    BY <1>5, <2>1, <2>2, <2>3, <2>4, <2>5 DEF Next
<1>6. CASE ~SplitFails /\ ~FragmentsMiscounted
  BY <1>1, <1>2, <1>5, <1>6 DEF ErrorsAreReal
<1>7. QED
  BY <1>3, <1>4, <1>6

\* The initial states satisfy the invariant.
LEMMA InvariantInit == Init => IInv
<1> SUFFICES ASSUME Init PROVE IInv
  OBVIOUS
<1>0. /\ phase = "init" /\ next = 1 /\ merged = {} /\ listed = {} /\ todo = {}
      /\ out = NoOutput
      /\ offset = [o \in Outputs |-> [c \in Contents |-> Unplaced]]
      /\ \A f \in Files : f \in Nat /\ ~(f < 1)
      /\ \A o \in Outputs : o # NoOutput
  BY OutputsAssumption DEF Init, Files
<1>1. SplitInv
  BY <1>0 DEF SplitInv, Split
<1>2. PoolInv
  BY <1>0 DEF PoolInv, Collected
<1>3. ResolveInv
  BY <1>0 DEF ResolveInv, Resolved
<1>4. LoopInv
  BY <1>0 DEF LoopInv
<1>5. LayoutInv
  <2>1. \A o, c : ~Past(o, c) /\ ~LaidOut(o)
    BY <1>0 DEF Past, LaidOut
  <2>2. \A o \in Outputs, c \in Contents : offset[o][c] = Unplaced
    BY <1>0
  <2>3. PlacedInv /\ OrderInv
    BY <2>1, <2>2 DEF PlacedInv, OrderInv
  <2>4. CursorInv /\ ExtentInv
    BY <1>0, <2>1 DEF CursorInv, ExtentInv
  <2>5. QED
    BY <2>3, <2>4 DEF LayoutInv
<1>6. ImageInv
  BY <1>0 DEF ImageInv
<1>7. ErrorsAreReal
  BY <1>0 DEF ErrorsAreReal
<1>8. QED
  BY <1>1, <1>2, <1>3, <1>4, <1>5, <1>6, <1>7, TypeInit DEF IInv

\* Every step keeps the invariant.
LEMMA InvariantStep == IInv /\ [Next]_vars => IInv'
BY TypeStep, SplitStep, PoolStep, ResolveStep, LoopStep, LayoutStep, ImageStep, ErrorsStep
   DEF IInv

\* The inductive invariant.
THEOREM Invariance == Spec => []IInv
BY InvariantInit, InvariantStep, PTL DEF Spec

\* Every variable keeps its type, for any number of files.
THEOREM TypeCorrect == Spec => []TypeOK
<1>1. IInv => TypeOK
  BY DEF IInv
<1>2. QED
  BY <1>1, Invariance, PTL

\* The passes end early only because of a section that cannot be cut up, or a
\* relocation into one without entry size.
THEOREM ErrorsCorrect == Spec => []ErrorsAreReal
<1>1. IInv => ErrorsAreReal
  BY DEF IInv
<1>2. QED
  BY <1>1, Invariance, PTL

\* m_copy_chunk never clears a gap of negative length, and never writes
\* outside of its section, whatever the pieces and their alignments are.
THEOREM CopyCorrect == Spec => []CopyInBounds
<1>1. ASSUME IInv PROVE CopyInBounds
  <2>1. SUFFICES ASSUME phase = "copy", out # NoOutput, left # {}, NEW c, c = First(left)
                 PROVE  /\ offset[out][c] # Unplaced
                        /\ PieceEnd(c) <= GapEnd(c) /\ GapEnd(c) <= shsize[out]
    BY DEF CopyInBounds
  <2>2. /\ offset[out][c] \in Nat
        /\ PieceEnd(c) <= GapEnd(c) /\ GapEnd(c) <= shsize[out]
    BY <1>1, <2>1, CopyPieceFacts DEF IInv
  <2>3. QED
    BY <2>2 DEF Unplaced
<1>2. QED
  BY <1>1, Invariance, PTL

\* The pieces of a listed section are in its output, with enough alignment.
LEMMA ListedPieces ==
    ASSUME IInv, phase \in {"copy", "done"}, NEW f \in Files,
           NEW id \in Sections(f) \intersect listed, NEW k, k = SectionOf(id), Alive(k.out),
           NEW c \in Range(k.data)
    PROVE  /\ k \in Section /\ WellCut(k) /\ k.kind = "pieces"
           /\ k.out \in made /\ k.out \in Outputs
           /\ c \in PiecesOf(k.out) /\ c \in Contents
           /\ k.align \in Alignments /\ k.align <= align[k.out][c]
<1>1. k \in Section /\ WellCut(k)
  BY SectionFacts DEF IInv, TypeOK, InputTypes
<1>2. k.kind = "pieces" /\ k.out \in made
  BY DEF IInv, SplitInv
<1>3. <<k.out, c>> \in pool /\ k.align <= align[k.out][c]
  BY DEF IInv, PoolInv, Collected
<1>4. k.out \in Outputs /\ k.align \in Alignments
  BY <1>1 DEF Section
<1>5. c \in PiecesOf(k.out) /\ c \in Contents
  BY <1>3 DEF PiecesOf, IInv, TypeOK, InputTypes
<1>6. QED
  BY <1>1, <1>2, <1>3, <1>4, <1>5

\* What follows a piece is aligned as every section asks for that has the
\* piece, and the merged section is too, whatever order they were collected in.
THEOREM AlignmentCorrect == Spec => []AlignedForEarlier
<1>1. ASSUME IInv PROVE AlignedForEarlier
  <2>1. SUFFICES ASSUME NEW f \in Files, NEW id \in Sections(f) \intersect listed,
                        NEW k, k = SectionOf(id), Alive(k.out), phase \in {"copy", "done"}
                 PROVE  /\ shalign[k.out] % k.align = 0
                        /\ \A c \in Range(k.data), d \in PiecesOf(k.out) :
                             Rank[c] < Rank[d] => offset[k.out][d] % k.align = 0
    BY DEF AlignedForEarlier
  <2>2. TypeOK /\ LoopInv /\ LayoutInv
    BY <1>1 DEF IInv
  <2>3. ASSUME NEW c \in Range(k.data)
        PROVE  /\ k.out \in Outputs /\ c \in Contents /\ Past(k.out, c)
               /\ k.align \in Alignments /\ k.align <= align[k.out][c]
               /\ align[k.out][c] <= shalign[k.out]
    BY <1>1, <2>1, <2>2, ListedPieces, PlacedPieces
  <2>4. shalign[k.out] % k.align = 0
    <3>1. PICK c \in Range(k.data) : TRUE
      <4>1. id \in Sections(f) /\ k \in Section /\ WellCut(k)
        BY <1>1, <2>1, SectionFacts DEF IInv, TypeOK, InputTypes
      <4>2. k.kind = "pieces"
        BY <1>1, <2>1 DEF IInv, SplitInv
      <4>3. k.data \in Seq(Contents) /\ Len(k.data) > 0
        BY <4>1, <4>2 DEF Section, WellCut
      <4>4. 1 \in DOMAIN k.data
        BY <4>3
      <4>5. QED
        BY <4>4 DEF Range
    <3>2. /\ align[k.out][c] \in Nat /\ shalign[k.out] \in Alignments
          /\ shalign[k.out] \in Nat /\ k.align \in Nat
      BY <2>2, <2>3, LayoutNumbers, AlignmentsAssumption
    <3>3. k.align <= shalign[k.out]
      BY <2>3, <3>2
    <3>4. QED
      BY <2>3, <3>2, <3>3, AlignmentsAssumption
  <2>5. ASSUME NEW c \in Range(k.data), NEW d \in PiecesOf(k.out), Rank[c] < Rank[d]
        PROVE  offset[k.out][d] % k.align = 0
    <3>1. /\ k.out \in made /\ k.out \in Outputs /\ c \in Contents
      BY <1>1, <2>1, ListedPieces
    <3>2. Past(k.out, d) /\ d \in Contents
      BY <2>1, <2>2, <3>1, PlacedPieces
    <3>3. offset[k.out][d] % align[k.out][c] = 0
      BY <2>2, <2>3, <2>5, <3>1, <3>2 DEF LayoutInv, OrderInv
    <3>4. align[k.out][c] \in Alignments /\ offset[k.out][d] \in Int
      BY <2>2, <3>1, <3>2, LayoutNumbers
    <3>5. align[k.out][c] % k.align = 0
      BY <2>3, <3>4, AlignmentsAssumption
    <3>6. align[k.out][c] \in Nat \ {0} /\ k.align \in Nat \ {0}
      BY <2>3, <3>4, AlignmentsAssumption
    <3>7. QED
      BY <3>3, <3>4, <3>5, <3>6, DividesTransitive
  <2>6. QED
    BY <2>4, <2>5
<1>2. QED
  BY <1>1, Invariance, PTL

\* In the end the bytes of a piece are where its offset says.
LEMMA BytesOfPiece ==
    ASSUME IInv, phase = "done", NEW f \in Files,
           NEW id \in Sections(f) \intersect listed, NEW k, k = SectionOf(id), Alive(k.out),
           NEW c \in Range(k.data), NEW j \in Nat, j < Size[c]
    PROVE  /\ offset[k.out][c] \in Nat
           /\ offset[k.out][c] + j \in DOMAIN image[k.out]
           /\ image[k.out][offset[k.out][c] + j] = <<c, j>>
<1>1. k.out \in made /\ k.out \in Outputs /\ c \in PiecesOf(k.out) /\ c \in Contents
  BY ListedPieces
<1>2. /\ offset[k.out][c] \in Nat
      /\ EndOf(k.out, c) = offset[k.out][c] + Size[c]
      /\ EndOf(k.out, c) <= shsize[k.out] /\ shsize[k.out] \in Nat
  BY <1>1, PlacedPieces DEF IInv
<1>3. Copied(k.out, c)
  BY <1>1 DEF Copied
<1>4. Size[c] \in Nat
  BY <1>1, ContentsAssumption
<1>5. j \in 0 .. Size[c] - 1
  BY <1>4
<1>6. image[k.out][offset[k.out][c] + j] = <<c, j>>
  BY <1>1, <1>3, <1>5 DEF IInv, ImageInv
<1>7. offset[k.out][c] + j \in 0 .. shsize[k.out] - 1
  BY <1>2, <1>4
<1>8. DOMAIN image[k.out] = 0 .. shsize[k.out] - 1
  BY <1>1 DEF IInv, ImageInv
<1>9. QED
  BY <1>2, <1>6, <1>7, <1>8

\* A symbol, or fragment symbol with its addend, reads the byte its place in
\* the input section had.
LEMMA PlaceReadsSame ==
    ASSUME IInv, phase = "done", NEW f \in Files,
           NEW id \in Sections(f) \intersect listed, NEW k, k = SectionOf(id), Alive(k.out),
           NEW v \in Nat, v < SectionSize(k), NEW t, NEW addend \in Int,
           t.out = k.out, t.piece = MergeablePiece(k, v).piece,
           t.val = MergeablePiece(k, v).val - addend
    PROVE  Reads(t, addend, k, v)
<1> DEFINE c == MergeablePiece(k, v).piece
           j == MergeablePiece(k, v).val
<1>1. k \in Section /\ WellCut(k) /\ k.kind = "pieces"
  BY SectionFacts DEF IInv, TypeOK, InputTypes, SplitInv
<1>2. c \in Range(k.data) /\ j \in Nat /\ j < Size[c] /\ IsByte(k, v, c, j)
  BY <1>1, MergeablePieceFacts
<1>3. t.piece = c /\ t.val = j - addend
  OBVIOUS
<1> HIDE DEF c, j
<1>4. /\ offset[k.out][c] \in Nat
      /\ offset[k.out][c] + j \in DOMAIN image[k.out]
      /\ image[k.out][offset[k.out][c] + j] = <<c, j>>
  BY <1>2, BytesOfPiece
<1> DEFINE n == offset[t.out][t.piece] + t.val + addend
<1>5. n = offset[k.out][c] + j
  BY <1>2, <1>3, <1>4
<1> HIDE DEF n
<1>6. /\ n \in DOMAIN image[t.out] /\ image[t.out][n] = <<c, j>>
  BY <1>4, <1>5
<1>7. image[t.out][n] # Zero /\ image[t.out][n][1] = c /\ image[t.out][n][2] = j
  BY <1>6 DEF Zero
<1>8. QED
  BY <1>2, <1>6, <1>7 DEF Reads, n

\* Wherever a piece went, symbols and relocations read what they read in the
\* input file.
THEOREM ReferencesCorrect == Spec => []ReferencesReadSame
<1>1. ASSUME IInv PROVE ReferencesReadSame
  <2>1. SUFFICES ASSUME phase = "done", NEW f \in Files
                 PROVE  /\ \A p \in DOMAIN named[f] :
                             LET k == SectionOf(<<f, p[1]>>) IN
                             p[2] < SectionSize(k) /\ Alive(k.out) => Reads(named[f][p], 0, k, p[2])
                        /\ \A r \in DOMAIN fragment[f] :
                             LET ref == files[f].refs[r]
                                 k   == SectionOf(<<f, ref.sec>>)
                             IN  ref.at < SectionSize(k) /\ Alive(k.out) =>
                                    Reads(fragment[f][r], ref.at, k, ref.at)
    BY DEF ReferencesReadSame
  <2>2. /\ named[f] = [p \in Places(f) |-> MergeablePiece(SectionOf(<<f, p[1]>>), p[2])]
        /\ fragment[f] = [r \in Handled(f) |-> Fragment(f, r)]
    BY <1>1, <2>1 DEF IInv, ResolveInv, Resolved
  <2>3. files \in [Files -> FileShapes] /\ SplitInv
    BY <1>1 DEF IInv, TypeOK, InputTypes
  <2>4. ASSUME NEW p \in DOMAIN named[f], NEW k, k = SectionOf(<<f, p[1]>>),
               p[2] < SectionSize(k), Alive(k.out)
        PROVE  Reads(named[f][p], 0, k, p[2])
    <3>1. p \in Places(f) /\ named[f][p] = MergeablePiece(k, p[2])
      BY <2>2, <2>4
    <3>2. <<f, p[1]>> \in Sections(f) \intersect listed /\ p[2] \in Nat
      BY <2>3, <3>1, TargetFacts
    <3>3. k \in Section /\ WellCut(k) /\ k.kind = "pieces"
      BY <2>3, <2>4, <3>2, SectionFacts DEF SplitInv
    <3>4. named[f][p].out = k.out /\ named[f][p].val = MergeablePiece(k, p[2]).val - 0
      BY <3>1, <3>2, <3>3, MergeablePieceFacts
    <3>5. QED
      BY <1>1, <2>1, <2>4, <3>1, <3>2, <3>4, PlaceReadsSame
  <2>5. ASSUME NEW r \in DOMAIN fragment[f], NEW ref, ref = files[f].refs[r],
               NEW k, k = SectionOf(<<f, ref.sec>>), ref.at < SectionSize(k), Alive(k.out)
        PROVE  Reads(fragment[f][r], ref.at, k, ref.at)
    <3>1. r \in Handled(f) /\ fragment[f][r] = Fragment(f, r)
      BY <2>2, <2>5
    <3>2. r \in DOMAIN files[f].refs /\ <<f, ref.sec>> \in listed
      BY <2>5, <3>1 DEF Handled
    <3>3. <<f, ref.sec>> \in Sections(f) \intersect listed /\ ref.at \in Nat
      BY <2>3, <2>5, <3>2, ReferenceFacts
    <3>4. k \in Section /\ WellCut(k) /\ k.kind = "pieces"
      BY <2>3, <2>5, <3>3, SectionFacts DEF SplitInv
    <3>5. MergeablePiece(k, ref.at) \in Target /\ MergeablePiece(k, ref.at).out = k.out
      BY <3>3, <3>4, MergeablePieceFacts
    <3>6. fragment[f][r] = [MergeablePiece(k, ref.at) EXCEPT
                              !.val = MergeablePiece(k, ref.at).val - ref.at]
      BY <2>5, <3>1 DEF Fragment
    <3>7. /\ fragment[f][r].out = k.out
          /\ fragment[f][r].piece = MergeablePiece(k, ref.at).piece
          /\ fragment[f][r].val = MergeablePiece(k, ref.at).val - ref.at
      BY <3>5, <3>6 DEF Target
    <3>8. QED
      BY <1>1, <2>1, <2>5, <3>3, <3>7, PlaceReadsSame
  <2>6. QED
    BY <2>4, <2>5
<1>2. QED
  BY <1>1, Invariance, PTL

-----------------------------------------------------------------------------
(***************************************************************************)
(* Assign_offset of the merged sections implements Placement.              *)
(***************************************************************************)

\* The size of the sections that are laid out.
Extent == [o \in Outputs |-> IF LaidOut(o) THEN shsize[o] ELSE -1]

\* Nothing is laid out in the beginning.
LEMMA PlacementInit == Init => Layout!Init
<1> SUFFICES ASSUME Init PROVE Layout!Init
  OBVIOUS
<1>1. \A o : ~LaidOut(o)
  BY DEF Init, LaidOut
<1>2. offset = [o \in Outputs |-> [c \in Contents |-> -1]]
  BY DEF Init, Unplaced
<1>3. QED
  BY <1>1, <1>2 DEF Layout!Init, Layout!Unplaced, Layout!Open

\* One turn of the loop of Assign_offset places the piece that is next.
LEMMA PlacementPlace ==
    ASSUME IInv, AssignOffset, Alive(out), NEW c, c = First(left)
    PROVE  Layout!Place(out, c)
<1> DEFINE x == AlignTo(cursor, top)
<1>0. TypeOK /\ LoopInv /\ LayoutInv
  BY DEF IInv
<1>1. /\ UNCHANGED <<phase, out, shsize>>
      /\ phase = "assign" /\ out \in Outputs /\ out # NoOutput /\ ~LaidOut(out)
      /\ \A o \in Outputs : LaidOut(o)' <=> LaidOut(o)
      /\ ~Past(out, c)
  BY <1>0, AssignOffsetPast DEF AssignOffset
<1>2. /\ c \in Contents /\ offset' = [offset EXCEPT ![out][c] = x]
      /\ x \in Nat /\ cursor <= x
  BY <1>0, AssignOffsetFacts
<1> HIDE DEF x
<1>3. offset'[out][c] = x
  BY <1>0, <1>1, <1>2 DEF TypeOK, LayoutTypes
<1>4. offset[out][c] = -1
  BY <1>0, <1>1, <1>2 DEF LayoutInv, PlacedInv, Unplaced
<1>5. ASSUME NEW d \in Contents, offset[out][d] # -1
      PROVE  offset[out][d] + Size[d] <= x
  <2>1. Past(out, d)
    BY <1>0, <1>1, <1>5 DEF LayoutInv, PlacedInv, Unplaced
  <2>2. EndOf(out, d) <= cursor
    BY <1>0, <1>1, <2>1 DEF LayoutInv, CursorInv
  <2>3. EndOf(out, d) = offset[out][d] + Size[d] /\ EndOf(out, d) \in Int /\ cursor \in Nat
    BY <1>0, <1>1, LayoutNumbers DEF TypeOK, LoopTypes
  <2>4. QED
    BY <1>2, <2>2, <2>3
<1>6. Extent[out] = -1 /\ Extent' = Extent
  BY <1>1 DEF Extent
<1>7. offset' = [offset EXCEPT ![out][c] = offset'[out][c]]
  BY <1>2, <1>3
<1>8. QED
  BY <1>1, <1>2, <1>3, <1>4, <1>5, <1>6, <1>7
     DEF Extent, Layout!Place, Layout!Placed, Layout!Behind, Layout!Unplaced, Layout!Open

\* The end of Assign_offset closes the section.
LEMMA PlacementClose ==
    ASSUME IInv, AssignSize, NEW o, o = out
    PROVE  Layout!Close(o)
<1>0. TypeOK /\ LoopInv /\ LayoutInv
  BY DEF IInv
<1>1. /\ UNCHANGED <<phase, align, offset, cursor, top>>
      /\ phase = "assign" /\ out \in Outputs /\ out # NoOutput /\ ~LaidOut(out)
      /\ shsize' = [shsize EXCEPT ![out] = cursor]
      /\ \A p \in Outputs : LaidOut(p)' <=> LaidOut(p) \/ p = out
      /\ cursor \in Nat
  BY <1>0, AssignSizePast DEF LaidOut, TypeOK, LoopTypes
<1>2. /\ \A c \in Contents : Past(out, c) => EndOf(out, c) <= cursor
      /\ cursor = 0 \/ \E c \in Contents : Past(out, c) /\ cursor = EndOf(out, c)
  BY <1>0, <1>1 DEF LayoutInv, CursorInv
<1>3. \A c \in Contents : /\ offset[out][c] # -1 <=> Past(out, c)
                          /\ EndOf(out, c) = offset[out][c] + Size[c]
  BY <1>0, <1>1 DEF LayoutInv, PlacedInv, Unplaced, EndOf
<1>4. /\ \A c \in Contents : offset[out][c] # -1 => offset[out][c] + Size[c] <= cursor
      /\ cursor = 0 \/ \E c \in Contents :
           offset[out][c] # -1 /\ cursor = offset[out][c] + Size[c]
  BY <1>2, <1>3
<1>5. Extent[out] = -1 /\ Extent'[out] = cursor
  <2>1. shsize'[out] = cursor
    BY <1>0, <1>1 DEF TypeOK, LayoutTypes
  <2>2. Extent'[out] = shsize'[out]
    BY <1>1 DEF Extent
  <2>3. QED
    BY <1>1, <2>1, <2>2 DEF Extent
<1>6. Extent' = [Extent EXCEPT ![out] = Extent'[out]]
  <2>1. \A p \in Outputs : p # out => Extent'[p] = Extent[p]
    BY <1>0, <1>1 DEF Extent, TypeOK, LayoutTypes
  <2>2. DOMAIN Extent' = Outputs /\ DOMAIN Extent = Outputs
    BY DEF Extent
  <2>3. Extent' = [p \in Outputs |-> Extent'[p]]
    BY DEF Extent
  <2>4. [Extent EXCEPT ![out] = Extent'[out]] = [p \in Outputs |-> Extent'[p]]
    BY <1>1, <2>1, <2>2
  <2>5. QED
    BY <2>3, <2>4
<1>7. QED
  BY <1>1, <1>4, <1>5, <1>6
     DEF Extent, Layout!Close, Layout!Placed, Layout!Behind, Layout!Unplaced, Layout!Open

\* Every step places a piece, closes a section, or leaves the layout alone.
LEMMA PlacementStep ==
    ASSUME IInv, [Next]_vars
    PROVE  Layout!Next \/ UNCHANGED <<offset, Extent>>
<1>0. TypeOK /\ LoopInv /\ LayoutInv
  BY DEF IInv
<1>1. CASE ~AssignOffset /\ ~AssignSize
  <2>1. UNCHANGED layoutVars /\ \A o \in Outputs : LaidOut(o)' <=> LaidOut(o)
    BY <1>0, <1>1, LayoutKept
  <2>2. UNCHANGED <<offset, shsize>>
    BY <2>1 DEF layoutVars
  <2>3. Extent' = Extent
    BY <2>1, <2>2 DEF Extent
  <2>4. QED
    BY <2>2, <2>3
<1>2. CASE AssignOffset /\ ~Alive(out)
  <2>1. /\ UNCHANGED <<offset, shsize>>
        /\ \A o \in Outputs : LaidOut(o)' <=> LaidOut(o)
    BY <1>0, <1>2, AssignOffsetPast, AssignOffsetFacts
  <2>2. Extent' = Extent
    BY <2>1 DEF Extent
  <2>3. QED
    BY <2>1, <2>2
<1>3. CASE AssignOffset /\ Alive(out)
  <2>1. out \in Outputs /\ First(left) \in Contents
    BY <1>0, <1>3, AssignOffsetFacts
  <2>2. PICK c \in Contents : c = First(left)
    BY <2>1
  <2>3. Layout!Place(out, c)
    BY <1>3, <2>2, PlacementPlace
  <2>4. QED
    BY <2>1, <2>3 DEF Layout!Next
<1>4. CASE AssignSize
  <2>1. out \in Outputs
    BY <1>0, <1>4, AssignSizePast
  <2>2. PICK o \in Outputs : o = out
    BY <2>1
  <2>3. Layout!Close(o)
    BY <1>4, <2>2, PlacementClose
  <2>4. QED
    BY <2>3 DEF Layout!Next
<1>5. QED
  BY <1>1, <1>2, <1>3, <1>4

\* Merged sections are laid out as Placement says: every piece once, behind all
\* that are there, never moved, and a section ends where its last piece ends.
THEOREM Implementation == Spec => ImplementsPlacement
<1>1. Init => Layout!Init
  BY PlacementInit
<1>2. IInv /\ [Next]_vars => Layout!Next \/ UNCHANGED <<offset, Extent>>
  BY PlacementStep
<1>3. QED
  BY <1>1, <1>2, Invariance, PTL
     DEF Spec, ImplementsPlacement, Layout!Spec, Extent
=============================================================================

--------------------------- MODULE MergedSections ---------------------------
(***************************************************************************)
(* Mergeable sections: Link cuts the SHF_MERGE sections of the files that  *)
(* are kept into pieces, puts equal pieces of equal sections together in a *)
(* Merged_section, gives every symbol and every section relocation the     *)
(* piece it points into, lays the pieces out, and copies them to the       *)
(* output file.                                                            *)
(*                                                                         *)
(* A piece is known by its contents.  An alignment is the number of bytes, *)
(* 1 << p2align.  Addresses are relative to the merged section.            *)
(***************************************************************************)
EXTENDS Integers, Sequences, FiniteSetsExt

CONSTANTS
    Contents,       \* what the pieces hold
    Size,           \* Size[c]: the bytes of c, terminator included
    Rank,           \* Rank[c]: the place of c in the order of Get_ordered_span
    Outputs,        \* merged sections, by name, type, flags and entry size
    Alloc,          \* those with SHF_ALLOC
    Alignments,     \* 1 << to_p2align(sh_addralign), powers of two
    NumFiles,       \* number of input files that are kept
    FileShapes,     \* what an input file may hold
    SymCount        \* symbols in the table of a file, section symbols included

ASSUME ContentsAssumption ==
    /\ Size \in [Contents -> Nat \ {0}]
    /\ Rank \in [Contents -> Nat]
    /\ \A c, d \in Contents : /\ Rank[c] = Rank[d] => c = d
                              /\ Size[c] < Size[d] => Rank[c] < Rank[d]
    /\ Alloc \subseteq Outputs

ASSUME AlignmentsAssumption ==
    /\ 1 \in Alignments
    /\ Alignments \subseteq Nat \ {0}
    /\ \A a, b \in Alignments : a <= b => b % a = 0

ASSUME CountsAssumption == NumFiles \in Nat \ {0} /\ SymCount \in Nat

\* Init_mergeable_section leaves a "plain" section alone: it is not SHF_MERGE,
\* is empty, not needed, or has relocations.  Split_section cuts a "pieces"
\* section up; a "no entry size" section has neither sh_entsize nor
\* sh_addralign; in a "ragged" one the last piece has no end.
SectionKinds == {"plain", "pieces", "no entry size", "ragged"}

\* cuts is the piece_offset_list that Split_section makes, data what it finds.
Section == [kind : SectionKinds, out : Outputs, align : Alignments,
            cuts : Seq(Nat), data : Seq(Contents)]

\* A relocation, in an SHF_ALLOC section, against the section symbol of
\* section sec, st_value plus addend being at.
Reference == [sec : Nat, at : Nat]

\* The pieces of a section lie back to back and fill it.
WellCut(k) ==
    k.kind = "pieces" =>
        /\ Len(k.cuts) = Len(k.data) /\ Len(k.data) > 0
        /\ k.cuts[1] = 0
        /\ \A i \in 1 .. Len(k.data) - 1 : k.cuts[i+1] = k.cuts[i] + Size[k.data[i]]

SectionSize(k) == k.cuts[Len(k.cuts)] + Size[k.data[Len(k.data)]]

\* References point into the section, or at its end.
ASSUME FilesAssumption ==
    \A file \in FileShapes :
        /\ file \in [sections : Seq(Section), refs : Seq(Reference)]
        /\ \A i \in DOMAIN file.sections : WellCut(file.sections[i])
        /\ \A r \in DOMAIN file.refs :
             /\ file.refs[r].sec \in DOMAIN file.sections
             /\ LET k == file.sections[file.refs[r].sec] IN
                k.kind = "pieces" => file.refs[r].at <= SectionSize(k)

VARIABLES
    files,      \* the input files, m_input_file
    phase,      \* the pass that is running, or how it ended
    next,       \* loop index of the passes that go through m_input_file
    merged,     \* sections whose eRelocate_state is mergeable
    listed,     \* sections with a Mergeable_section in m_mergeable_section_list
    made,       \* m_merged_section_map
    pool,       \* m_map of every Merged_section: pairs of output and contents
    align,      \* p2align of the pieces
    named,      \* named[f]: the piece and val of the symbols of f
    fragment,   \* m_mergeable_section_symbol_list of f, by relocation
    rel,        \* the r_info of the relocations of f
    out,        \* the Merged_section at hand
    todo,       \* those the running pass still has to do
    left,       \* the pieces of out that are still to do, of Get_ordered_span
    cursor,     \* offset in Assign_offset
    top,        \* p2align in Assign_offset
    offset,     \* offset of the pieces
    shsize,     \* sh_size of the merged sections
    shalign,    \* sh_addralign of the merged sections
    image       \* their bytes in the output file

inputVars == <<files, merged, listed, made, pool, align>>
symbolVars == <<named, fragment, rel>>
layoutVars == <<offset, shsize, shalign>>
workVars == <<out, todo, left, cursor, top>>
vars == <<inputVars, phase, next, symbolVars, workVars, layoutVars, image>>

-----------------------------------------------------------------------------
Files == 1 .. NumFiles
NoOutput == "none"      \* a null Merged_section*
Unplaced == -1          \* uint32_t offset = -1
Failures == {"bad section", "assertion failed"}
Phases == {"init", "collect", "resolve", "assign", "copy", "done"} \union Failures

ASSUME OutputsAssumption == NoOutput \notin Outputs

Sections(f) == {<<f, i>> : i \in DOMAIN files[f].sections}
SectionOf(id) == files[id[1]].sections[id[2]]
Bytes == {<<>>} \union (Contents \X Nat)
Zero == <<>>            \* a byte nobody wrote; <<c, j>> is byte j of c

\* is_alive of the pieces of a merged section.  Nothing changes it.
Alive(o) == o \notin Alloc

\* align_to
AlignTo(v, a) == ((v + a - 1) \div a) * a

PiecesOf(o) == {c \in Contents : <<o, c>> \in pool}

\* The next piece in the order of Get_ordered_span: shorter first, then memcmp.
First(S) == CHOOSE c \in S : \A d \in S : Rank[c] <= Rank[d]

\* std::upper_bound, and one back: the piece that holds offset v.
\* PieceIndexBefore is a mistake: std::lower_bound instead.  Like the other
\* mistakes below it is in no specification; a property notices each of them.
PieceIndexBefore(k, v) ==
    CHOOSE i \in DOMAIN k.cuts :
        /\ k.cuts[i] < v \/ i = 1
        /\ \A j \in DOMAIN k.cuts : j > i => v <= k.cuts[j]

PieceIndex(k, v) ==
    CHOOSE i \in DOMAIN k.cuts :
        /\ k.cuts[i] <= v
        /\ \A j \in DOMAIN k.cuts : j > i => v < k.cuts[j]

\* Get_mergeable_piece
MergeablePiece(k, v) ==
    [out |-> k.out, piece |-> k.data[PieceIndex(k, v)],
     val |-> v - k.cuts[PieceIndex(k, v)]]

-----------------------------------------------------------------------------
Init ==
    /\ files \in [Files -> FileShapes]
    /\ phase = "init"
    /\ next = 1
    /\ merged = {} /\ listed = {} /\ made = {} /\ pool = {}
    /\ align = [o \in Outputs |-> [c \in Contents |-> 1]]
    /\ named = [f \in Files |-> <<>>]
    /\ fragment = [f \in Files |-> <<>>]
    /\ rel = [f \in Files |-> [r \in DOMAIN files[f].refs |->
                                 [sym |-> files[f].refs[r].sec, type |-> 2]]]
    /\ out = NoOutput /\ todo = {} /\ left = {} /\ cursor = 0 /\ top = 1
    /\ offset = [o \in Outputs |-> [c \in Contents |-> Unplaced]]
    /\ shsize = [o \in Outputs |-> 0]
    /\ shalign = [o \in Outputs |-> 1]
    /\ image = [o \in Outputs |-> <<>>]

\* A mistake: the loop does not stop at the last file.
NextFileTooFar(then) ==
    /\ phase' = IF next = NumFiles THEN then ELSE phase
    /\ next' = next + 1

\* The loop of a pass goes on to the next file; after the last, pass `then` runs.
NextFile(then) ==
    IF next = NumFiles THEN phase' = then /\ next' = 1
                       ELSE phase' = phase /\ next' = next + 1

Fail(reason) ==
    /\ phase' = reason
    /\ UNCHANGED <<inputVars, next, symbolVars, workVars, layoutVars, image>>

-----------------------------------------------------------------------------
\* Init_mergeable_section of one file.  A section that Split_section returns
\* nullptr for becomes mergeable all the same.
OfKind(f, kinds) == {id \in Sections(f) : SectionOf(id).kind \in kinds}

SplitFails ==
    /\ phase = "init"
    /\ OfKind(next, {"ragged"}) # {}
    /\ Fail("bad section")

InitMergeableSection ==
    /\ phase = "init"
    /\ OfKind(next, {"ragged"}) = {}
    /\ merged' = merged \union OfKind(next, {"pieces", "no entry size"})
    /\ listed' = listed \union OfKind(next, {"pieces"})
    /\ made' = made \union {SectionOf(id).out : id \in OfKind(next, {"pieces"})}
    /\ NextFile("collect")
    /\ UNCHANGED <<files, pool, align, symbolVars, workVars, layoutVars, image>>

\* Collect_mergeable_section_piece of one file: Insert keeps a piece that is
\* there already, and raises its alignment to that of the section.
Holders(f, o, c) ==
    {id \in Sections(f) \intersect listed :
        SectionOf(id).out = o /\ c \in Range(SectionOf(id).data)}

\* A mistake: the piece keeps the alignment of the section that was first.
CollectKeepsAlignment ==
    /\ phase = "collect"
    /\ pool' = pool \union {p \in Outputs \X Contents : Holders(next, p[1], p[2]) # {}}
    /\ align' = [o \in Outputs |-> [c \in Contents |->
                   IF <<o, c>> \in pool \/ Holders(next, o, c) = {} THEN align[o][c]
                   ELSE Max({SectionOf(id).align : id \in Holders(next, o, c)})]]
    /\ NextFile("resolve")
    /\ UNCHANGED <<files, merged, listed, made, symbolVars, workVars, layoutVars, image>>

CollectPieces ==
    /\ phase = "collect"
    /\ pool' = pool \union {p \in Outputs \X Contents : Holders(next, p[1], p[2]) # {}}
    /\ align' = [o \in Outputs |-> [c \in Contents |->
                   Max({align[o][c]} \union
                       {SectionOf(id).align : id \in Holders(next, o, c)})]]
    /\ NextFile("resolve")
    /\ UNCHANGED <<files, merged, listed, made, symbolVars, workVars, layoutVars, image>>

-----------------------------------------------------------------------------
(***************************************************************************)
(* Resolve_sesction_pieces of one file: a symbol at every place of every   *)
(* section of the file, then its relocations.                              *)
(***************************************************************************)
Places(f) ==
    UNION {{<<id[2], v>> : v \in 0 .. SectionSize(SectionOf(id))} :
             id \in Sections(f) \intersect listed}

\* The relocations that are counted, and those that get a fragment symbol.  A
\* mistake: relocations to sections that are not merged are counted as well.
CountedAll(f) == DOMAIN files[f].refs
Counted(f) == {r \in DOMAIN files[f].refs : <<f, files[f].refs[r].sec>> \in merged}
Handled(f) == {r \in DOMAIN files[f].refs : <<f, files[f].refs[r].sec>> \in listed}

\* The index of the symbol that relocation r of f gets.
FragmentIndex(f, r) == SymCount + Cardinality({q \in Handled(f) : q < r})

\* r_info holds the symbol in its upper half and the type in its lower half;
\* ELF_Rel::Set_sym writes the lower half.
SetSym(info, s) == [info EXCEPT !.type = s]

\* new_sym.val: what the addend will add again is taken away.
Fragment(f, r) ==
    LET ref == files[f].refs[r]
        at  == MergeablePiece(SectionOf(<<f, ref.sec>>), ref.at)
    IN  [at EXCEPT !.val = at.val - ref.at]

FragmentsMiscounted ==
    /\ phase = "resolve"
    /\ Counted(next) # Handled(next)
    /\ Fail("assertion failed")

ResolveSectionPieces ==
    /\ phase = "resolve"
    /\ Counted(next) = Handled(next)
    /\ named' = [named EXCEPT ![next] =
                   [p \in Places(next) |-> MergeablePiece(SectionOf(<<next, p[1]>>), p[2])]]
    /\ fragment' = [fragment EXCEPT ![next] =
                      [r \in Handled(next) |-> Fragment(next, r)]]
    /\ rel' = [rel EXCEPT ![next] =
                 [r \in DOMAIN rel[next] |->
                    IF r \in Handled(next) THEN SetSym(rel[next][r], FragmentIndex(next, r))
                                           ELSE rel[next][r]]]
    /\ NextFile("assign")
    /\ todo' = IF phase' = "assign" THEN made ELSE todo
    /\ UNCHANGED <<inputVars, out, left, cursor, top, layoutVars, image>>

-----------------------------------------------------------------------------
\* The loops over the merged sections: Assign_offset of each in the order of a
\* hash map, then m_copy_chunk of each in the order of the output.
BeginOutput ==
    /\ phase \in {"assign", "copy"}
    /\ out = NoOutput
    /\ out' \in todo
    /\ todo' = todo \ {out'}
    /\ left' = PiecesOf(out')
    /\ cursor' = 0
    /\ top' = 1
    /\ UNCHANGED <<inputVars, phase, next, symbolVars, layoutVars, image>>

\* A mistake: the offset is rounded down.
AlignsDown ==
    /\ phase = "assign" /\ out # NoOutput /\ left # {}
    /\ LET c == First(left) IN
         /\ left' = left \ {c}
         /\ IF Alive(out)
            THEN /\ offset' = [offset EXCEPT ![out][c] = (cursor \div top) * top]
                 /\ cursor' = (cursor \div top) * top + Size[c]
                 /\ top' = Max({top, align[out][c]})
            ELSE UNCHANGED <<offset, cursor, top>>
    /\ UNCHANGED <<inputVars, phase, next, symbolVars, out, todo, shsize, shalign, image>>

\* One turn of the loop of Assign_offset.  The offset is aligned for the pieces
\* before this one, and only then this one's alignment counts.
AssignOffset ==
    /\ phase = "assign" /\ out # NoOutput /\ left # {}
    /\ LET c == First(left) IN
         /\ left' = left \ {c}
         /\ IF Alive(out)
            THEN /\ offset' = [offset EXCEPT ![out][c] = AlignTo(cursor, top)]
                 /\ cursor' = AlignTo(cursor, top) + Size[c]
                 /\ top' = Max({top, align[out][c]})
            ELSE UNCHANGED <<offset, cursor, top>>
    /\ UNCHANGED <<inputVars, phase, next, symbolVars, out, todo, shsize, shalign, image>>

\* A mistake: the size is rounded up to the alignment.
SizeIsAligned ==
    /\ phase = "assign" /\ out # NoOutput /\ left = {}
    /\ shsize' = [shsize EXCEPT ![out] = AlignTo(cursor, top)]
    /\ shalign' = [shalign EXCEPT ![out] = top]
    /\ out' = NoOutput
    /\ UNCHANGED <<inputVars, phase, next, symbolVars, todo, left, cursor, top,
                   offset, image>>

AssignSize ==
    /\ phase = "assign" /\ out # NoOutput /\ left = {}
    /\ shsize' = [shsize EXCEPT ![out] = cursor]
    /\ shalign' = [shalign EXCEPT ![out] = top]
    /\ out' = NoOutput
    /\ UNCHANGED <<inputVars, phase, next, symbolVars, todo, left, cursor, top,
                   offset, image>>

\* Output_file zeroes its buffer; merged sections without bytes are not output.
OpenOutputFile ==
    /\ phase = "assign" /\ out = NoOutput /\ todo = {}
    /\ phase' = "copy"
    /\ todo' = {o \in made : shsize[o] # 0}
    /\ image' = [o \in Outputs |-> [n \in 0 .. shsize[o] - 1 |-> Zero]]
    /\ UNCHANGED <<inputVars, next, symbolVars, out, left, cursor, top, layoutVars>>

\* One turn of the loop of m_copy_chunk of a Merged_section: clear the gap up
\* to the next piece, if there is one, and copy this piece.
PieceEnd(c) == offset[out][c] + Size[c]
GapEnd(c) == IF left = {c} THEN PieceEnd(c) ELSE offset[out][First(left \ {c})]

CopyPiece ==
    /\ phase = "copy" /\ out # NoOutput /\ left # {}
    /\ LET c == First(left) IN
         /\ left' = left \ {c}
         /\ image' = [image EXCEPT ![out] = [n \in DOMAIN image[out] |->
              CASE n >= offset[out][c] /\ n < PieceEnd(c) -> <<c, n - offset[out][c]>>
                [] n >= PieceEnd(c) /\ n < GapEnd(c)      -> Zero
                [] OTHER                                  -> image[out][n]]]
    /\ UNCHANGED <<inputVars, phase, next, symbolVars, out, todo, cursor, top, layoutVars>>

CopyEnd ==
    /\ phase = "copy" /\ out # NoOutput /\ left = {}
    /\ out' = NoOutput
    /\ UNCHANGED <<inputVars, phase, next, symbolVars, todo, left, cursor, top,
                   layoutVars, image>>

CopyDone ==
    /\ phase = "copy" /\ out = NoOutput /\ todo = {}
    /\ phase' = "done"
    /\ UNCHANGED <<inputVars, next, symbolVars, workVars, layoutVars, image>>

Ended == phase \in {"done"} \union Failures
Terminated == Ended /\ UNCHANGED vars

Next ==
    \/ SplitFails \/ InitMergeableSection
    \/ CollectPieces
    \/ FragmentsMiscounted \/ ResolveSectionPieces
    \/ BeginOutput \/ AssignOffset \/ AssignSize \/ OpenOutputFile
    \/ CopyPiece \/ CopyEnd \/ CopyDone
    \/ Terminated

Spec == Init /\ [][Next]_vars

-----------------------------------------------------------------------------
Target == [out : Outputs, piece : Contents, val : Int]

InputTypes ==
    /\ files \in [Files -> FileShapes]
    /\ merged \subseteq UNION {Sections(f) : f \in Files}
    /\ listed \subseteq merged
    /\ made \subseteq Outputs
    /\ pool \subseteq Outputs \X Contents
    /\ align \in [Outputs -> [Contents -> Alignments]]

SymbolTypes ==
    /\ DOMAIN named = Files /\ DOMAIN fragment = Files /\ DOMAIN rel = Files
    /\ \A f \in Files :
         /\ \A p \in DOMAIN named[f] : named[f][p] \in Target
         /\ \A r \in DOMAIN fragment[f] : fragment[f][r] \in Target

LoopTypes ==
    /\ phase \in Phases
    /\ next \in Files
    /\ out \in Outputs \union {NoOutput}
    /\ todo \subseteq Outputs
    /\ left \subseteq Contents
    /\ cursor \in Nat
    /\ top \in Alignments

LayoutTypes ==
    /\ offset \in [Outputs -> [Contents -> Nat \union {Unplaced}]]
    /\ shsize \in [Outputs -> Nat]
    /\ shalign \in [Outputs -> Alignments]

ImageTypes ==
    /\ DOMAIN image = Outputs
    /\ \A o \in Outputs : \A n \in DOMAIN image[o] : image[o][n] \in Bytes

TypeOK == InputTypes /\ SymbolTypes /\ LoopTypes /\ LayoutTypes /\ ImageTypes

-----------------------------------------------------------------------------
\* Byte v of section k in the input is byte j of c.
IsByte(k, v, c, j) ==
    \E i \in DOMAIN k.data : k.data[i] = c /\ j < Size[c] /\ v = k.cuts[i] + j

\* Where target t points, addend added, the output has byte v of section k.
Reads(t, addend, k, v) ==
    LET n == offset[t.out][t.piece] + t.val + addend
    IN  /\ n \in DOMAIN image[t.out]
        /\ image[t.out][n] # Zero
        /\ IsByte(k, v, image[t.out][n][1], image[t.out][n][2])

\* A symbol in a mergeable section points, in the output file, at the byte it
\* pointed at in the input file, wherever the piece went and whichever of the
\* equal pieces was kept; so does a fragment symbol with the addend of its
\* relocation.  Only for sections that are not SHF_ALLOC: the pieces of the
\* others are never alive.
ReferencesReadSame ==
    phase = "done" => \A f \in Files :
        /\ \A p \in DOMAIN named[f] :
             LET k == SectionOf(<<f, p[1]>>) IN
             p[2] < SectionSize(k) /\ Alive(k.out) => Reads(named[f][p], 0, k, p[2])
        /\ \A r \in DOMAIN fragment[f] :
             LET ref == files[f].refs[r]
                 k   == SectionOf(<<f, ref.sec>>)
             IN  ref.at < SectionSize(k) /\ Alive(k.out) =>
                    Reads(fragment[f][r], ref.at, k, ref.at)

\* m_copy_chunk: the gap it clears never has a negative length, which would be
\* a huge one in size_t, and neither memset nor memcpy leaves the section.
CopyInBounds ==
    phase = "copy" /\ out # NoOutput /\ left # {} =>
        LET c == First(left) IN
        /\ offset[out][c] # Unplaced
        /\ PieceEnd(c) <= GapEnd(c)
        /\ GapEnd(c) <= shsize[out]

\* Whatever section of whatever file a piece comes from, what is laid out
\* behind it is aligned as that section asks for, and so is the merged section
\* in the end, no matter in which order the sections were collected.
AlignedForEarlier ==
    \A f \in Files : \A id \in Sections(f) \intersect listed :
        LET k == SectionOf(id) IN
        Alive(k.out) /\ phase \in {"copy", "done"} =>
            /\ shalign[k.out] % k.align = 0
            /\ \A c \in Range(k.data), d \in PiecesOf(k.out) :
                 Rank[c] < Rank[d] => offset[k.out][d] % k.align = 0

\* The passes end early only for a reason: a section that cannot be cut up, or
\* a relocation into one that has no entry size.
ErrorsAreReal ==
    /\ phase = "bad section" =>
         \E f \in Files : OfKind(f, {"ragged"}) # {}
    /\ phase = "assertion failed" =>
         \E f \in Files : \E r \in DOMAIN files[f].refs :
            <<f, files[f].refs[r].sec>> \in OfKind(f, {"no entry size"})

LaidOut(o) ==
    /\ o \in made
    /\ \/ phase = "assign" /\ o \notin todo \union {out}
       \/ phase \in {"copy", "done"}

\* The pieces of a merged section are placed one behind the other, once.
Layout == INSTANCE Placement WITH
    Containers <- Outputs,
    Items <- Contents,
    start <- offset,
    end <- [o \in Outputs |-> IF LaidOut(o) THEN shsize[o] ELSE -1]

ImplementsPlacement == Layout!Spec
=============================================================================

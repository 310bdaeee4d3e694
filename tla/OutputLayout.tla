---------------------------- MODULE OutputLayout ----------------------------
(***************************************************************************)
(* Layout of the output file: Link sorts the output chunks, drops the      *)
(* empty ones, and gives every chunk an address and a file offset, over    *)
(* and over until the program headers keep their number.  Then it writes   *)
(* the ELF header and the section headers.                                 *)
(*                                                                         *)
(* A chunk is an output section, a merged or synthetic section, or a       *)
(* header.  No chunk with SHF_ALLOC has a section type: Output_section     *)
(* leaves sh_type SHT_NULL, and the merged sections with SHF_ALLOC are     *)
(* empty.  What the passes do with SHT_NOBITS and SHT_NOTE never happens.  *)
(***************************************************************************)
EXTENDS Integers, Sequences, FiniteSetsExt, Selection

CONSTANTS
    NumNames,       \* names of sections are 1 .. NumNames, in their order
    Bss,            \* the name ".bss"
    Shapes,         \* what a section may be
    Page,           \* ctx.page_size
    ImageBase,      \* ctx.image_base
    HeaderAlign,    \* sizeof(Elf64_Addr)
    EhdrSize,       \* sizeof(Elf64_Ehdr)
    PhdrEntry,      \* sizeof(Elf64_phdr_t)
    ShdrEntry,      \* sizeof(elf64_shdr)
    Reserve,        \* SHN_LORESERVE
    HalfMax,        \* UINT16_MAX
    KeptFlags,      \* e_flags of the files that are kept, in their order
    Stable          \* std::sort keeps the order of equals among so many: 16

Flags == {"alloc", "write", "exec", "tls"}

\* osec: it is an Output_section.
Shape == [flags : SUBSET Flags, size : Nat, align : Nat \ {0}, osec : BOOLEAN]

\* What is looked at in e_flags; none is what the synthetic object has, which is
\* kept like any other and is the last file.
EFlags == [rvc : BOOLEAN, rve : BOOLEAN, float : {"soft", "single", "double", "quad"}]
NoEFlags == [rvc |-> FALSE, rve |-> FALSE, float |-> "soft"]

\* Alignments and the page are powers of two.
ASSUME LayoutAssumption ==
    /\ {NumNames, Bss, Stable, Reserve, HalfMax} \subseteq Nat /\ Reserve <= HalfMax
    /\ \A kept \in KeptFlags :
         kept \in Seq(EFlags) /\ kept # <<>> /\ kept[Len(kept)] = NoEFlags
    /\ {Page, HeaderAlign, EhdrSize, PhdrEntry, ShdrEntry} \subseteq Nat \ {0}
    /\ ImageBase \in Nat /\ ImageBase % Page = 0
    /\ Shapes \subseteq Shape
    /\ \A s \in Shapes : ~s.osec /\ s.size # 0 => "alloc" \notin s.flags
    /\ \A s \in Shapes : s.align % Page = 0 \/ Page % s.align = 0
    /\ \A s, t \in Shapes : s.align <= t.align => t.align % s.align = 0

\* SHF_TLS sections are .tdata and .tbss, and what is merged with them.
ASSUME TlsAssumption ==
    \A s \in Shapes : "tls" \in s.flags => s.flags = {"alloc", "write", "tls"}

Names == 1 .. NumNames
Ehdr == NumNames + 1
Phdr == NumNames + 2
Shdr == NumNames + 3
SymtabShndx == NumNames + 4     \* added by Compute_section_headers
Headers == {Ehdr, Phdr, Shdr}
Ids == 1 .. SymtabShndx

Unplaced == -1

VARIABLES
    section,    \* the chunks that are not headers, by name
    list,       \* output_chunk_list
    phase,      \* the pass that is running, or how it ended
    at,         \* the position of the loop in the list
    shndx,      \* the section index of the chunks
    phdrSize,   \* sh_size of PHDR
    shdrSize,   \* sh_size of SHDR
    pos,        \* addr in Set_virtual_addresses
    addr,       \* sh_addr
    run,        \* position of `first` in Set_file_offsets, 0 outside its loop
    offset,     \* sh_offset
    segments,   \* phdrs
    bssStart,   \* val of __bss_start
    eflags,     \* e_flags of the input files
    ehdr,       \* the ELF header in the output file
    table       \* the section headers there

layoutVars == <<pos, addr, run, offset>>
fileVars == <<eflags, ehdr, table>>
vars == <<section, list, phase, at, shndx, phdrSize, shdrSize, layoutVars,
          segments, bssStart, fileVars>>

-----------------------------------------------------------------------------
FlagsOf(c) == IF c \in DOMAIN section THEN section[c].flags ELSE {}
Alloc(c) == "alloc" \in FlagsOf(c)
Tls(c) == "tls" \in FlagsOf(c)

SizeOf(c) ==
    CASE c \in DOMAIN section -> section[c].size
      [] c = Ehdr             -> EhdrSize
      [] c = Phdr             -> phdrSize
      [] c = Shdr             -> shdrSize
      [] OTHER                -> 0          \* an index table of an empty .symtab

AlignOf(c) == IF c \in DOMAIN section THEN section[c].align ELSE HeaderAlign

\* to_phdr_flags
PhdrFlags(c) == FlagsOf(c) \intersect {"write", "exec"}

\* align_to, and Align_with_skew: the smallest n >= v with n % a = skew % a.
AlignTo(v, a) == ((v + a - 1) \div a) * a

\* A mistake: only ever in the page of v.  No specification uses it, nor the
\* other mistakes below; a property notices each of them.
SkewInPage(v, a, skew) == (v \div a) * a + (skew % a)

AlignWithSkew(v, a, skew) ==
    LET x == (v \div a) * a + (skew % a) IN IF v <= x THEN x ELSE x + a

-----------------------------------------------------------------------------
NoEhdr == [flags |-> NoEFlags, phoff |-> 0, phnum |-> 0, shoff |-> 0, shnum |-> 0]
NoTable == [null |-> 0, of |-> <<>>]

\* The sections that the earlier passes have made, in the order of a hash map.
Init ==
    /\ section \in UNION {[names -> Shapes] : names \in SUBSET Names}
    /\ list = <<>>
    /\ phase = "sort"
    /\ at = 1
    /\ shndx = [c \in Ids |-> 0]
    /\ phdrSize = 0
    /\ shdrSize = 1
    /\ pos = ImageBase
    /\ addr = [c \in Ids |-> Unplaced]
    /\ run = 0
    /\ offset = [c \in Ids |-> Unplaced]
    /\ segments = {}
    /\ bssStart = 0
    /\ eflags = <<>>
    /\ ehdr = NoEhdr
    /\ table = NoTable

\* get_rank1: ELF header, program headers, the sections, section headers; and
\* of the sections SHF_ALLOC first, read-only, executable and thread-local
\* ones before the others.
RankOf(c) ==
    LET bit(b, n) == IF b THEN n ELSE 0 IN
    CASE c = Ehdr -> 0
      [] c = Phdr -> 1
      [] c = Shdr -> 2048
      [] OTHER    -> 1024 + bit(~Alloc(c), 512) + bit("write" \in FlagsOf(c), 256)
                          + bit("exec" \in FlagsOf(c), 128) + bit(~Tls(c), 64)

Before(c, d) == RankOf(c) < RankOf(d) \/ (RankOf(c) = RankOf(d) /\ c < d)

Sorted(S) ==
    [i \in 1 .. Cardinality(S) |->
       CHOOSE c \in S : Cardinality({d \in S : Before(d, c)}) = i - 1]

SortOutputSections ==
    /\ phase = "sort"
    /\ list' = Sorted(DOMAIN section \union Headers)
    /\ phase' = "headers"
    /\ UNCHANGED <<section, at, shndx, phdrSize, shdrSize, layoutVars, segments, bssStart,
                   fileVars>>

-----------------------------------------------------------------------------
(***************************************************************************)
(* Create_phdrs                                                            *)
(***************************************************************************)
Loadable == Select(list, {c \in Ids : Alloc(c)})

\* std::sort by address.  Chunks without bytes share their address with the
\* next chunk, and in the beginning all addresses are 0.
AddrOf(c) == IF addr[c] = Unplaced THEN 0 ELSE addr[c]

Orders ==
    LET chunks == Loadable
        n == Len(chunks)
        sorted(p) == \A i, j \in 1 .. n : i < j =>
            \/ AddrOf(chunks[p[i]]) < AddrOf(chunks[p[j]])
            \/ AddrOf(chunks[p[i]]) = AddrOf(chunks[p[j]]) /\ (p[i] < p[j] \/ n > Stable)
        distinct(p) == \A i, j \in 1 .. n : p[i] = p[j] => i = j
    IN  {[i \in 1 .. n |-> chunks[p[i]]] :
            p \in {q \in [1 .. n -> 1 .. n] : distinct(q) /\ sorted(q)}}

\* put_sec_into_seg on every chunk of a run after the first.  p_filesz is p_memsz;
\* a PT_LOAD is aligned to a page at least.
Segment(type, flags, chunks) ==
    LET first == chunks[1]
        last  == chunks[Len(chunks)]
    IN  [type |-> type, flags |-> flags,
         vaddr |-> AddrOf(first), offset |-> offset[first],
         memsz |-> AddrOf(last) + SizeOf(last) - AddrOf(first),
         align |-> Max({AlignOf(chunks[i]) : i \in DOMAIN chunks}
                       \union (IF type = "load" THEN {Page} ELSE {}))]

\* Chunk c goes into the PT_LOAD that begins with chunk first.  The mistakes are
\* to forget about the gap on disk, and to allow no gap in memory at all.
JoinsByFlags(first, c) == PhdrFlags(c) = PhdrFlags(first)

JoinsWithoutGap(first, c) ==
    /\ PhdrFlags(c) = PhdrFlags(first)
    /\ offset[c] = offset[first] + SizeOf(first)

Joins(first, c) ==
    /\ PhdrFlags(c) = PhdrFlags(first)
    /\ offset[c] - offset[first] = AddrOf(c) - AddrOf(first)

Loads(order) ==
    LET n == Len(order)
        start[i \in 1 .. n] ==
            IF i > 1 /\ Joins(order[start[i-1]], order[i]) THEN start[i-1] ELSE i
        ends == {j \in 1 .. n : j = n \/ start[j+1] # start[j]}
    IN  {Segment("load", PhdrFlags(order[j]), SubSeq(order, start[j], j)) : j \in ends}

TlsSegments ==
    LET n == Len(list)
        runs == {r \in (1 .. n) \X (1 .. n) :
                   /\ r[1] <= r[2]
                   /\ \A i \in r[1] .. r[2] : Tls(list[i])
                   /\ r[1] = 1 \/ ~Tls(list[r[1]-1])
                   /\ r[2] = n \/ ~Tls(list[r[2]+1])}
    IN  {Segment("tls", {}, SubSeq(list, r[1], r[2])) : r \in runs}

\* Update_shdr of PHDR.
UpdatePhdr ==
    /\ \E order \in Orders : segments' = Loads(order) \union TlsSegments
    /\ phdrSize' = PhdrEntry * Cardinality(segments')

-----------------------------------------------------------------------------
\* Compute_section_headers, first half: update the size of PHDR and drop the
\* chunks that are empty and no Output_section.
RemoveEmptyChunks ==
    /\ phase = "headers"
    /\ UpdatePhdr
    /\ LET kept(c) == \/ c \in DOMAIN section /\ section[c].osec
                      \/ (IF c = Phdr THEN phdrSize' ELSE SizeOf(c)) # 0
       IN  list' = Select(list, {c \in Ids : kept(c)})
    /\ phase' = "indices"
    /\ UNCHANGED <<section, at, shndx, shdrSize, layoutVars, bssStart, fileVars>>

\* The second half: section indices, an index table if they are too many for
\* st_shndx, and the size of the section headers.
SetSectionIndices ==
    /\ phase = "indices"
    /\ LET named == Select(list, Ids \ Headers)
           count == Len(named) + 1
           more  == IF count >= Reserve THEN <<SymtabShndx>> ELSE <<>>
           all   == named \o more
       IN  /\ shndx' = [c \in Ids |-> IF \E i \in 1 .. Len(all) : all[i] = c
                                      THEN CHOOSE i \in 1 .. Len(all) : all[i] = c
                                      ELSE 0]
           /\ list' = list \o more
           /\ shdrSize' = ShdrEntry * (Len(all) + 1)
    /\ UpdatePhdr
    /\ phase' = "addresses"
    /\ UNCHANGED <<section, at, layoutVars, bssStart, fileVars>>

\* A mistake: one chunk too many.
NextChunkTooFar(then) ==
    /\ phase' = IF at > Len(list) THEN then ELSE phase
    /\ at' = IF at > Len(list) THEN 1 ELSE at + 1

\* The loops over the list; after the last chunk, pass `then` runs.
NextChunk(then) ==
    /\ phase' = IF at = Len(list) THEN then ELSE phase
    /\ at' = IF at = Len(list) THEN 1 ELSE at + 1

-----------------------------------------------------------------------------
(***************************************************************************)
(* Set_virtual_addresses                                                   *)
(***************************************************************************)
TlsPositions == {i \in 1 .. Len(list) : Tls(list[i])}

\* The first TLS chunk has the largest alignment of all of them.
IsFirstTls(c) == \E i \in TlsPositions : list[i] = c /\ \A j \in TlsPositions : i <= j

\* A mistake: the first one has only its own.
OwnAlignment(c) == AlignOf(c)

Alignment(c) ==
    IF IsFirstTls(c)
    THEN Max({AlignOf(list[i]) : i \in TlsPositions})
    ELSE AlignOf(c)

\* Chunks of different memory attributes do not share a page.  The mistake is
\* to go on to the end of the page only when the chunk is executable.
SeparateCode(v) ==
    IF "exec" \in FlagsOf(list[at]) /\ v % Page # 0 THEN v + Page ELSE v

Separate(v) ==
    IF at # 1 /\ PhdrFlags(list[at-1]) # PhdrFlags(list[at]) /\ v % Page # 0
    THEN v + Page ELSE v

SetVirtualAddress ==
    /\ phase = "addresses"
    /\ LET c == list[at] IN
       IF Alloc(c)
       THEN /\ addr' = [addr EXCEPT ![c] = AlignTo(Separate(pos), Alignment(c))]
            /\ pos' = addr'[c] + SizeOf(c)
       ELSE UNCHANGED <<addr, pos>>
    /\ NextChunk("offsets")
    /\ UNCHANGED <<section, list, shndx, phdrSize, shdrSize, run, offset, segments, bssStart,
                   fileVars>>

-----------------------------------------------------------------------------
(***************************************************************************)
(* Set_file_offsets                                                        *)
(***************************************************************************)
\* fileoff: the end of the chunk before.
FileEnd == IF at = 1 THEN 0 ELSE offset[list[at-1]] + SizeOf(list[at-1])

\* gap_size, an unsigned difference, is less than a page.
Adjoins ==
    /\ run # 0
    /\ Alloc(list[at])
    /\ addr[list[at]] - addr[list[at-1]] - SizeOf(list[at-1]) \in 0 .. Page - 1

SetFileOffset(n, first) ==
    /\ offset' = [offset EXCEPT ![list[at]] = n]
    /\ run' = first
    /\ NextChunk("program headers")
    /\ UNCHANGED <<section, list, shndx, phdrSize, shdrSize, pos, addr, segments, bssStart,
                   fileVars>>

SetUnloadedOffset ==
    /\ phase = "offsets"
    /\ ~Alloc(list[at])
    /\ SetFileOffset(AlignTo(FileEnd, AlignOf(list[at])), 0)

\* A mistake: the offset is aligned, and forgets about the address.
SetFirstAligned ==
    /\ phase = "offsets"
    /\ Alloc(list[at])
    /\ ~Adjoins
    /\ SetFileOffset(AlignTo(FileEnd, AlignOf(list[at])), at)

SetFirstOffset ==
    /\ phase = "offsets"
    /\ Alloc(list[at])
    /\ ~Adjoins
    /\ LET c == list[at] IN
       SetFileOffset(IF AlignOf(c) > Page THEN AlignTo(FileEnd, AlignOf(c))
                                          ELSE AlignWithSkew(FileEnd, Page, addr[c]), at)

SetNextOffset ==
    /\ phase = "offsets"
    /\ Adjoins
    /\ SetFileOffset(offset[list[run]] + addr[list[at]] - addr[list[run]], run)

-----------------------------------------------------------------------------
\* Each round starts at the same address.  The mistake is to go on where the last
\* one ended.
StartBehind == pos

StartAddress == ImageBase

\* A mistake: the test is the wrong way round.
Diverged == phdrSize' # phdrSize

Converged == phdrSize' = phdrSize

\* The loop of Set_output_chunk_locations: again, if the program headers have
\* changed their size.
Repeat ==
    /\ phase = "program headers"
    /\ UpdatePhdr
    /\ phase' = IF Converged THEN "symbols" ELSE "addresses"
    /\ pos' = StartAddress
    /\ run' = 0
    /\ UNCHANGED <<section, list, at, shndx, shdrSize, addr, offset, bssStart, fileVars>>

\* Fix_up_synthetic_symbols.  Only chunks that are not loaded get past the
\* inverted test, and _etext is a null pointer.
FixUpCrashes ==
    /\ phase = "symbols"
    /\ \E i \in 1 .. Len(list) : ~Alloc(list[i]) /\ "exec" \in FlagsOf(list[i])
    /\ phase' = "null symbol"
    /\ UNCHANGED <<section, list, at, shndx, phdrSize, shdrSize, layoutVars, segments, bssStart,
                   fileVars>>

FixUpSyntheticSymbols ==
    /\ phase = "symbols"
    /\ \A i \in 1 .. Len(list) : Alloc(list[i]) \/ "exec" \notin FlagsOf(list[i])
    /\ bssStart' = IF \E i \in 1 .. Len(list) : list[i] = Bss THEN AddrOf(Bss) ELSE bssStart
    /\ phase' = "copy"
    /\ UNCHANGED <<section, list, at, shndx, phdrSize, shdrSize, layoutVars, segments, fileVars>>

-----------------------------------------------------------------------------
(***************************************************************************)
(* Copy_chunks, for the chunks that are headers; the program headers are   *)
(* copied as they are.  What the other chunks copy is the matter of other  *)
(* modules.  There is no e_shstrndx: .shstrtab is empty and is dropped.    *)
(***************************************************************************)
\* Get_eflags compares every file with the first.
Compatible(kept) ==
    \A i \in DOMAIN kept : kept[i].float = kept[1].float /\ kept[i].rve = kept[1].rve

GetEflags(kept) == [kept[1] EXCEPT !.rvc = \E i \in DOMAIN kept : kept[i].rvc]

\* e_shnum has 16 bits; 0 says that the header at index 0 has the number.  A
\* mistake: 0 for every number at which an index escapes.
HalfFromReserve(n) == IF n < Reserve THEN n ELSE 0

Half(n) == IF n <= HalfMax THEN n ELSE 0

Copying(c) == phase = "copy" /\ list[at] = c

IncompatibleFiles ==
    /\ Copying(Ehdr)
    /\ eflags' \in KeptFlags /\ ~Compatible(eflags')
    /\ phase' = "incompatible"
    /\ UNCHANGED <<section, list, at, shndx, phdrSize, shdrSize, layoutVars, segments, bssStart,
                   ehdr, table>>

CopyEhdr ==
    /\ Copying(Ehdr)
    /\ eflags' \in KeptFlags /\ Compatible(eflags')
    /\ ehdr' = [flags |-> GetEflags(eflags'),
                phoff |-> IF offset[Phdr] = Unplaced THEN 0 ELSE offset[Phdr],
                phnum |-> (phdrSize \div PhdrEntry) % (HalfMax + 1),
                shoff |-> offset[Shdr],
                shnum |-> Half(shdrSize \div ShdrEntry)]
    /\ NextChunk("done")
    /\ UNCHANGED <<section, list, shndx, phdrSize, shdrSize, layoutVars, segments, bssStart,
                   table>>

\* The header at index i is that of the chunk that has i; 0 stands for none.
CopyShdr ==
    /\ Copying(Shdr)
    /\ LET n == shdrSize \div ShdrEntry
           having(i) == {j \in DOMAIN list : shndx[list[j]] = i}
       IN  table' = [null |-> IF n > HalfMax THEN n ELSE 0,
                     of |-> [i \in 1 .. n - 1 |->
                               IF having(i) = {} THEN 0
                               ELSE list[CHOOSE j \in having(i) : \A k \in having(i) : k <= j]]]
    /\ NextChunk("done")
    /\ UNCHANGED <<section, list, shndx, phdrSize, shdrSize, layoutVars, segments, bssStart,
                   eflags, ehdr>>

CopyOther ==
    /\ phase = "copy" /\ list[at] \notin {Ehdr, Shdr}
    /\ NextChunk("done")
    /\ UNCHANGED <<section, list, shndx, phdrSize, shdrSize, layoutVars, segments, bssStart,
                   fileVars>>

Ended == phase \in {"done", "null symbol", "incompatible"}
Terminated == Ended /\ UNCHANGED vars

Next ==
    \/ SortOutputSections
    \/ RemoveEmptyChunks \/ SetSectionIndices
    \/ SetVirtualAddress
    \/ SetUnloadedOffset \/ SetFirstOffset \/ SetNextOffset
    \/ Repeat
    \/ FixUpCrashes \/ FixUpSyntheticSymbols
    \/ IncompatibleFiles \/ CopyEhdr \/ CopyShdr \/ CopyOther
    \/ Terminated

Spec == Init /\ [][Next]_vars

\* One thread runs the passes and never waits.
FairSpec == Spec /\ WF_vars(Next)

-----------------------------------------------------------------------------
(***************************************************************************)
(* Properties                                                              *)
(***************************************************************************)
Phases == {"sort", "headers", "indices", "addresses", "offsets",
           "program headers", "symbols", "copy", "done", "null symbol", "incompatible"}

SegmentType == [type : {"load", "tls"}, flags : SUBSET Flags, vaddr : Nat,
                offset : Nat \union {Unplaced}, memsz : Nat, align : Nat]
EhdrType == [flags : EFlags, phoff : Nat, phnum : 0 .. HalfMax, shoff : Nat,
             shnum : 0 .. HalfMax]

SectionTypes == DOMAIN section \subseteq Names /\ \A n \in DOMAIN section : section[n] \in Shapes
LoopTypes ==
    /\ list \in Seq(Ids) /\ phase \in Phases
    /\ at = 1 \/ at \in 1 .. Len(list)
    /\ run \in 0 .. Len(list)
SizeTypes == shndx \in [Ids -> Nat] /\ phdrSize \in Nat /\ shdrSize \in Nat
PlaceTypes ==
    /\ pos \in Nat /\ bssStart \in Nat
    /\ addr \in [Ids -> Nat \union {Unplaced}] /\ offset \in [Ids -> Nat \union {Unplaced}]
SegmentTypes == \A s \in segments : s \in SegmentType
FileTypes ==
    /\ eflags = <<>> \/ eflags \in KeptFlags
    /\ ehdr \in EhdrType
    /\ table.null \in Nat /\ table.of \in Seq({0} \union Ids)

\* Every variable has its type, and a loop over the list stays in the list.
TypeOK == SectionTypes /\ LoopTypes /\ SizeTypes /\ PlaceTypes /\ SegmentTypes /\ FileTypes

InList == {list[i] : i \in 1 .. Len(list)}
Loaded == {c \in InList : Alloc(c)}
LoadedPairs == {p \in Loaded \X Loaded : p[1] # p[2]}
PagesOf(c) == IF SizeOf(c) = 0 THEN {}
              ELSE (addr[c] \div Page) .. ((addr[c] + SizeOf(c) - 1) \div Page)

\* Set_virtual_addresses: every loaded chunk is aligned, no two share a byte,
\* and two that are to be mapped with different rights do not even share a page
\* (Linking_passes.cpp:504, "Memory protection works at page size granularity").
PagesSeparated ==
    phase \in {"offsets", "program headers"} =>
        /\ \A c \in Loaded : addr[c] >= ImageBase /\ addr[c] % AlignOf(c) = 0
        /\ \A p \in LoadedPairs :
            /\ addr[p[1]] + SizeOf(p[1]) <= addr[p[2]] \/ addr[p[2]] + SizeOf(p[2]) <= addr[p[1]]
            /\ PhdrFlags(p[1]) # PhdrFlags(p[2]) => PagesOf(p[1]) \intersect PagesOf(p[2]) = {}

\* What Set_file_offsets returns: the size of the output file.
FileSize == offset[list[Len(list)]] + SizeOf(list[Len(list)])

\* Set_file_offsets, after its last round: the ELF header is at 0, every chunk is
\* inside the file, and no two chunks share a byte of it, with the program
\* headers as long as they are in the end.
FileDisjoint ==
    phase = "done" =>
        /\ offset[Ehdr] = 0
        /\ \A c \in InList : offset[c] + SizeOf(c) <= FileSize
        /\ \A p \in InList \X InList : p[1] # p[2] =>
            \/ offset[p[1]] + SizeOf(p[1]) <= offset[p[2]]
            \/ offset[p[2]] + SizeOf(p[2]) <= offset[p[1]]

\* Linking_passes.cpp:554: "Section's file offset must be congruent to its
\* virtual address modulo the page size."
Congruent ==
    phase \in {"program headers", "symbols", "done"} =>
        \A c \in Loaded : offset[c] % Page = addr[c] % Page

\* The program headers that are written map the chunks where they are: all the
\* bytes of a loaded chunk are in one PT_LOAD, with the rights of the chunk, and
\* that PT_LOAD takes them from where the chunk is in the file.
SegmentsMap ==
    phase = "done" => \A c \in Loaded : SizeOf(c) # 0 =>
        LET covering == {s \in segments :
                /\ s.type = "load"
                /\ s.vaddr <= addr[c] /\ addr[c] + SizeOf(c) <= s.vaddr + s.memsz}
        IN  /\ Cardinality(covering) = 1
            /\ \A s \in covering : /\ s.flags = PhdrFlags(c)
                                   /\ offset[c] - s.offset = addr[c] - s.vaddr

\* Why the loop of Set_output_chunk_locations comes to an end: offsets agree with
\* addresses modulo a page, so that a new PT_LOAD of the same rights begins only
\* at an alignment that is greater than a page and than all before it.  All the
\* program headers fit in the page that the first loaded chunk leaves to them.
FewSegments ==
    phase \in {"symbols", "done"} =>
        \A fs \in SUBSET {"write", "exec"} :
            Cardinality({s \in segments : s.type = "load" /\ s.flags = fs})
                <= 1 + Cardinality({AlignOf(c) : c \in {d \in Loaded : AlignOf(d) > Page}})

\* Linking_passes.cpp:475, of TLS chunks: "in addition to having their virtual
\* addresses aligned, ... their offset against tls_begin also has to be aligned."
\* A loader copies PT_TLS to where p_align allows, so that p_align must be enough
\* for each of them, and the segment itself must begin at a multiple of it.
TlsAligned ==
    /\ phase \in {"offsets", "done"} =>
        \A c, first \in {d \in Loaded : Tls(d)} :
            IsFirstTls(first) => (addr[c] - addr[first]) % AlignOf(c) = 0
    /\ phase = "done" => \A s \in segments : s.type = "tls" =>
        /\ s.vaddr % s.align = 0
        /\ \A c \in {d \in Loaded : Tls(d)} : s.align % AlignOf(c) = 0

\* Section indices name the entries of the table of section headers, and two
\* chunks never the same one.  Who reads the output file, and takes the number of
\* section headers from index 0 where e_shnum is 0, finds the program headers that
\* were made and a header for every chunk at its index; and the flags are those
\* that all files agree on, or else two files do not agree.
HeadersRead ==
    /\ phase \in {"addresses", "copy"} =>
         \A c \in InList \ Headers :
             /\ shndx[c] \in 1 .. (shdrSize \div ShdrEntry) - 1
             /\ \A d \in InList \ {c} : shndx[d] # shndx[c]
    /\ phase = "incompatible" =>
         \E i, j \in DOMAIN eflags :
             eflags[i].float # eflags[j].float \/ eflags[i].rve # eflags[j].rve
    /\ phase = "done" =>
         LET shnum == IF ehdr.shnum # 0 THEN ehdr.shnum ELSE table.null
         IN  /\ shnum = 1 + Cardinality(InList \ Headers)
             /\ ehdr.shoff + ShdrEntry * shnum <= FileSize
             /\ \A c \in InList \ Headers : table.of[shndx[c]] = c
             /\ ehdr.phnum = Cardinality(segments)
             /\ ehdr.phnum # 0 => ehdr.phoff = offset[Phdr]
             /\ \A i \in DOMAIN eflags :
                  /\ eflags[i].rvc => ehdr.flags.rvc
                  /\ eflags[i].float = ehdr.flags.float /\ eflags[i].rve = ehdr.flags.rve

\* Memory is laid out as Placement says: each loaded section behind those before
\* it; and the rounds that follow do not move it, though offsets change.
Memory == INSTANCE Placement WITH
    Containers <- {"memory"},
    Items      <- Names \X Shapes,
    Size       <- [i \in Names \X Shapes |-> i[2].size],
    start      <- [m \in {"memory"} |-> [i \in Names \X Shapes |->
                     IF i[1] \in DOMAIN section /\ section[i[1]] = i[2]
                     THEN addr[i[1]] ELSE Unplaced]],
    end        <- [m \in {"memory"} |-> -1]
ImplementsPlacement == Memory!Spec

\* The rounds end.  WF_vars(Next): one thread runs the passes and never waits.
Termination == <>Ended
=============================================================================

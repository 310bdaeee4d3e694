# A verification project for simple-linker

simple-linker is a static linker for 64 bit RISC-V ELF objects, about 5000
lines of C++ without tests, much of whose layout code follows mold. It reads
objects and archives, decides which archive members are needed, merges strings,
lays out memory and the file, applies relocations and writes an executable.

This directory has TLA+ models of the linker's passes, TLC configurations that
check them on small instances, and proofs for all instances.

The program runs in one thread, from one pass to the next, and ends with a file
or with an error. Nothing is concurrent and nothing is persisted. What is hard
about it is data that one pass leaves for another: pointers into tables that a
later pass empties, indices that two loops must count alike, orders that two
sorts must agree on, offsets that are aligned for one property and break
another, and a fixed point that has to be reached. The inputs are hostile to
testing as well: the outcome depends on the order of files, on what archive
members define, and on hash tables.

## Inventory

`Linking_context::Link` (`src/src/Linking_context.cpp:448`) calls the passes in
this order; `Linking_context` holds all the state they share.

| Component | State | Operations | Correct when |
|---|---|---|---|
| **Command line, library search** (`Linking_context.cpp`, `main.cpp`) | options, search paths | `Parse_args`, `Find_libraries` | options mean what was given, libraries keep their order |
| **Archive reader** (`Linking_context.cpp`, `Archive_file.h`) | position in the archive, long names, symbol index | `Load_archived_file_section` | every member is read once under its own name |
| ELF object reader (`Relocatable_file.*`) | views of the tables of one object | constructor, accessors | tables are those of the file |
| **Symbol resolution** (`Linking_passes.cpp`, `Linking_context.*`, `Input_file.cpp`) | `m_global_symbol_map`, `symbol_list` of every file, `m_is_alive`, work list, special symbols | `Put_global_symbol`, `Bind_special_symbols`, `Resolve_symbols`, `Clear_unused_resources`, `Check_duplicate_smbols` | the files kept are those needed; every reference is bound to the first definition, by a valid pointer; clashes are found |
| **Mergeable sections** (`Input_file.cpp`, `Merged_section.*`, `Mergeable_section.h`) | relocate states, pieces, `m_merged_section_map`, fragment symbols | `Init_mergeable_section`, `Collect_mergeable_section_piece`, `Resolve_sesction_pieces`, `Assign_offset`, copy | a symbol reads in the output the byte it read in the input |
| **Output sections** (`Linking_passes.cpp`, `Linking_passes.h`) | osec pool, member lists, offsets of members | `Combined_input_sections`, `Assign_input_section_offset`, copy | every needed section is in one output section, aligned, without overlap |
| **Output layout** (`Linking_passes.cpp`, `Output_chunk.cpp`) | `output_chunk_list`, `sh_addr`, `sh_offset`, `shndx`, `phdrs` | `Sort_output_sections`, `Compute_section_headers`, `Set_output_chunk_locations`, `Create_phdrs`, `Fix_up_synthetic_symbols` | no overlap in memory or file, pages of one protection, program headers that map what was laid out, the rounds end |
| **Relocation** (`Linking_passes.cpp`, `Input_file.cpp`) | bytes of an output section | `Sort_relocation`, `Relocate_symbols`, `Reloc_alloc` | a relocated place refers to where its symbol is |
| Output symbol table | counts and offsets | `Create_output_symtab` | unfinished in the code, never written |
| **Header writers** (`Output_chunk.cpp`, `Linking_context_helper.h`) | bytes of the headers | `Get_eflags`, copy of EHDR, PHDR, SHDR | a reader finds what was made, the flags agree |
| Output file (`Output_file.h`) | a buffer | open, serialize | pure I/O |
| Third party code | | ULEB128, spin lock | vendored, one thread only |

The bold ones are modelled. How they interact: the command line and the archives
decide which input files there are; symbol resolution decides which of them
exist for all later passes and which `Symbol` each `symbol_list` entry points to.
Merging takes the files kept and changes what these symbols and the relocations
stand for (a piece and an offset in it). Output sections take the sections that
merging leaves. Output sections, merged sections and headers become `Chunk`s; the
layout gives every chunk an address and an offset, and reads nothing of a chunk
but flags, size and alignment. Relocation asks all of them: the symbol, its
piece, the address of the chunk. The components meet in this narrow data, which is
why each module takes it as its input (any symbol table, any section list, any
set of chunks, any address) and they are not composed into one state machine.

## Modules

| Module | What it is |
|---|---|
| `InputFiles` | the command line, the search for libraries, and the files and archive members that are read |
| `InputFilesProofs` | its invariants, proved |
| `ReferenceClosure` | abstract: the files kept are the least set closed under references |
| `SymbolResolution` | the passes from `Put_global_symbol` to `Check_duplicate_smbols`; implements `ReferenceClosure` |
| `SymbolResolutionProofs` | its invariants and its refinement, proved |
| `Placement` | abstract: items are put into a container one behind the other and stay there |
| `MergedSections` | the passes over mergeable sections, up to the copy; implements `Placement` |
| `MergedSectionsProofs` | its invariants and its refinement, proved |
| `OutputSections` | the other sections: output sections, offsets of members, copy and padding; implements `Placement` |
| `OutputSectionsProofs` | its invariants and its refinement, proved |
| `Selection` | the elements of a sequence that are kept, in their order, by their number |
| `OutputLayout` | sorting, addresses, offsets, program headers, and the headers that are written; implements `Placement` |
| `OutputLayoutProofs` | most of its invariants and its refinement, proved |
| `OutputHeadersProofs` | what is read in the headers and how program headers map the file, proved |
| `LayoutLemmas` | what the proofs share: induction, finite sets, maxima, division, `align_to`, `Select` |
| `Relocation` | sorted relocations applied to the members of an output section, bit by bit |
| `RelocationProofs` | what the encoders write and its five properties, proved |
| `MCInputFiles`, `MCSymbolResolution`, `MCMergedSections`, `MCOutputSections`, `MCOutputLayout`, `MCRelocation` | the instances TLC checks, and the statements of comments that it refutes |

Operators named as a *mistake* in comments belong to no specification. They are
variants of the definition below them, and each shows that some property
notices when the code goes wrong in that way (`PROJECT.json`, "mutants").

### InputFiles

The constructor of `Linking_context`. An argument has the kind that `Parse_args`
finds by its first characters, and a value; `Parse_args` is one action for each
kind of argument. `named` is the place of the name of the output among the
arguments, as the code keeps a pointer into `argv`. `Find_libraries` is a loop over directories (`dir`) and names
(`lib`), `libraries` what it has found, by these two indices. An archive is a
sequence of entries at even offsets, `pos` the position in it; a symbol table, a
string table and a member each have an action, and so has everything that ends
the program: an archive that is cut off, a file that is refused, a long name
before the table of long names. `inputs` is `m_rel_file` with `m_is_alive`.
Member contents are a file type and a machine.

### SymbolResolution

| Variable | Code |
|---|---|
| `symtab`, `numObj` | the symbol tables read; objects come before archive members, and the synthetic object is the last file |
| `phase`, `next` | the pass of `Link` and the index of its loop over `m_input_file` |
| `definer` | `m_global_symbol_map`: the file whose entry, and whose `Symbol`, a name has |
| `binding` | `symbol_list` of each file: plain pointers, named by the file that owns the `Symbol` |
| `special` | `special_symbols` |
| `alive`, `queue`, `cur`, `todo` | `m_is_alive`, `file_idx_queue`, and the loop of `Reference_dependent_file` |
| `files` | `m_input_file` |

A pointer is valid as long as the map maps the name to the same file
(`Dangling`). `Clear_unused_resources` erases entries and with them `Symbol`s,
while pointers stay; reading one of these may give anything, so that
`Check_duplicate_smbols` may report a clash or not. `Reference_dependent_file`
takes the undefined symbols in any order, as the order of a symbol table is any.
A weak reference is an undefined symbol to this linker. The merging passes
between `Clear_unused_resources` and `Check_duplicate_smbols` do not touch this
state.

### MergedSections

An input section comes with the pieces that `Split_section` would cut it into;
a piece is known by its contents, and two of the same contents are one. `pool`
and `align` are the maps of the `Merged_section`s. `named` and `fragment` are
what `Resolve_sesction_pieces` gives to symbols and relocations, at every place
of a section. `Assign_offset` and the copy go piece by piece in the order of
`Get_ordered_span`, and `image` is what is in the output buffer, byte by byte,
zero where nothing was written. `Get_ordered_span` is an order on contents
(length, then bytes), given as `Rank`.

### OutputSections

An input file is the list of its section headers. The constructor of
`Input_file` is `ReadFile` (which sections are linked, how many relocations each
has), `Combined_input_sections` the phases "count", "bind" and "add" with one action
for each loop body, `Assign_input_section_offset` one for each
member. A name is the sequence of its parts, as `get_output_name` compares whole
parts. `Power` is `1 <<`; an `int` has `IntBits` bits: beyond them `1 << p2align` is undefined, and
gives 0 or what the machine makes of it. `image` is the output byte by byte:
a byte of a section, of a trap instruction, zero, or, for a section that has
no bytes in its file, whatever happens to be there (`Stray`).

### OutputLayout

A chunk is a section with flags, size and alignment, or one of the headers EHDR,
PHDR, SHDR and the index table `SymtabShndx`. Every pass over
`output_chunk_list` goes chunk by chunk (`at`), with the address `pos` or the
chunk `run` that the current stretch of the file began with. `UpdatePhdr` is
`Create_phdrs`: it sorts the loaded chunks by address and joins them into
PT_LOAD segments. `Repeat` is the test at the end of
`Set_output_chunk_locations`. `CopyEhdr` and `CopyShdr` write the headers, with
`HalfMax` for 65535; the flags of the input files are an input that is first
looked at then, and the last file is the synthetic one. Left out, since no path
reaches them: `Output_section` never sets `sh_type`, so that nothing that is loaded
has type SHT_NOBITS or SHT_NOTE; merged sections with SHF_ALLOC have no bytes and
are erased, as is `.shstrtab`, so that `e_shstrndx` stays 0; no header has
SHF_ALLOC; `.riscv.attributes` is always empty; `physical_image_base` is never
set. `p_paddr`, `e_entry` and the constants of the ELF header are not modelled.

### Relocation

`Sort_relocation` for every member, then `Relocate_symbols`: copy a member,
apply its relocations in order (`relIdx`), go to the next. A member in the buffer
is the set of its bits that are one, and the encoders (`write_itype` and so on)
put the bits of a value into the real places of the real fields. Two widths are
constants, as TLC counts in 32 bits: `WordBits` is the width of a `uint32_t` and
`AddrBits` that of an address. Instruction words keep their 32 bits but for the
upper immediate, which ends at `WordBits`. Addresses of the section elsewhere are
an input, the one of a member is `Base` and `Stride`.

A relocation asks for the address of its symbol before it looks at its type, and a
low part once more for that of its high part (`Asked`). There may be none
(`NoAddress`): the place in `symbol_list` is a null pointer, as `Put_global_symbol`
skips a global that is defined in a section not needed (`Unbound`, "why this symbol is
not binded?"); the section is a member of no output section (`Unplaced`,
"unreachable", or the end of the map is dereferenced); or the symbol is `gone`: its
entry was erased with a dead file while a live file points there, the
case of `own_definition`. Then its name is in no map ("symbol is not found"), the
program crashes, or what is left in the memory gives some address. The other ways to
give up are a distance out of range, a low part without high part, a type not
supported, and the assertion that a padding is even (`OddPadding`).

LEB128 is written as a `uint64_t`, with zeros above it (`Overwrite_uleb`), and read as
`read_uleb` does (`shifted`): each byte is shifted as an `int`, whose sign is extended,
so that the `int` of the program holds four bytes of it and part of the fifth. A shift
by `WordBits` or more is undefined; the model takes nothing of the byte, or the shift by the
remainder that the processor makes of it (`wraps`).

## What is checked

Two passes loop until something is reached: the work list of `Resolve_symbols`,
and the rounds of `Set_output_chunk_locations`. For these, `symbol_resolution` and
`output_layout` check `Termination` under `FairSpec`, with `WF_vars(Next)`: there
is one thread, and no pass waits for anything, so that a step that can be taken is
taken. All other passes are `for` loops over lists that do not grow, and for
them it is enough that none gets stuck. Every state that has no successor in
the code is an end of the program and stutters there (`Terminated`), so that this
is TLC's check for deadlock, which all runs have.

### input_files

All command lines of up to two of 17 arguments, alone, and of up to three behind
`-melf64lriscv` and two directories, which is what finds anything: every kind of
argument before and after every other, as the name of an output file and as the
value of an unknown flag. Seven archives: a library that is in both directories, a
string table between members, one behind a long name, sizes that are odd with and
without padding at the end, a foreign machine, and no archive at all.

- `OptionsRead`: what `Parse_args` returns is what the command line says when it
  is read as a whole: `-o` takes the next argument whatever it looks like, `-v` and
  `-h` end the parse and forget the name of the output, an unknown flag takes
  what follows up to the next dash.
- `InputsComplete`: libraries come from the first directory that has them, in the
  order of directories; objects come before members, in order, and each member of
  a library is read once and under its own name.
- `ErrorsAreReal`: each failure has its reason in the arguments or in a file.

### symbol_resolution

Three files besides the synthetic one, every choice of 19 symbol tables for
them, every split into objects and members. Three files are enough for a
definition shadowed by an unneeded member of an archive, a chain or a cycle of
references between members, and a third file that clashes; four names are the
entry, an optional one, an ordinary one, and one that the linker defines itself.

- `WorkListSound`: no file is queued twice or handled twice.
- `ReferencesBound`: what is left when dead files are gone is closed: every
  reference goes, by a valid pointer, to the first definition, in a file kept.
- `DanglingExactly`: which pointers are left to destroyed Symbols, exactly.
- `UniqueDefinition`: the duplicate check lets no other clash through.
- `ShadowedNeverKept`: a member whose names are all defined earlier is not used.
- `ErrorsAreReal`: each error message has its reason.
- `ImplementsClosure`: refinement of `ReferenceClosure`, whatever the order of
  the queue. `Termination`: the queue gets empty, in spite of cycles.

`own_definition` refutes a comment: a definition in a kept file may be bound to
the `Symbol` of a member that is thrown away. A weak reference without definition
ends the link like any other, though relocation has code for it.

### merged_sections

Two files of 23 shapes, with one or two sections that share pieces, outputs and
alignments 1, 2 and 4, sections that cannot be cut up, and relocations at every
place, the end included. Two files are enough for equal pieces of different
alignments in either order. Sizes 1 to 3 against these alignments give gaps.

- `ReferencesReadSame`: the property of the component, from the input byte over
  symbol, piece and offset to the byte in the output.
- `CopyInBounds`: no gap of negative length, nothing outside the section.
- `AlignedForEarlier`: what `Assign_offset` does guarantee about alignment.
- `ErrorsAreReal`: the link stops for a section that cannot be cut up, and, by an
  assertion, for a relocation into a section that has no entry size.
- `ImplementsPlacement`.

Refuted: `dead_alloc_piece` (pieces of SHF_ALLOC sections are never alive),
`redirected_relocation` (`Set_sym` writes the type). A piece may be misaligned, as
`AlignedForEarlier` leaves open.

### output_sections

Two files of eleven shapes, of one to three sections: names with and without a
suffix that lead to one output section or to several, relocation sections
before and behind, constructors and destructors with and without an
`.init_array` in the other file, sections that are never linked, mergeable ones
that are merged and that are not, no size, alignments 0 to 8. An int of 8 bits
makes 8 an alignment by which a shift is undefined, as 32 is in the program. Two
files are enough for members of two files in one section, in either order.

- `SectionsAreMembers`: every section that is linked is a member, once, of the
  output section it will be looked up in, in the order of files; counting, binding
  and placing agree.
- `AddressesReadSection`: the bytes at the address that relocation is told for a
  section are its own. This is where members that overlap, and padding that goes too
  far, would show.
- `PaddingHarmless`: no padding of negative length; only zeros or whole trap
  instructions between members.
- `AlignedForEarlier`: what alignment there is, since `sh_addralign` is used as
  an exponent.
- `ImplementsPlacement`.

Refuted: `member_alignment` (a member may be misaligned), `nobits_data` (`.bss` is
filled from the input file). Sections `.ctors` are not merged into `.init_array`
unless they have relocations.

### output_layout

Up to three sections of thirteen shapes: sizes from none to a page, alignments
below, at and above a page, flags for the three protections, TLS, not loaded, and
an executable one that is not loaded; files of soft and hard float and of RVE.
The page has 8 bytes, the ELF header 2 and a program header 1, which keeps the
real proportions: all headers fit in a page (64 bytes and 56 for each header
against 4096). `Reserve = 3` makes the index
table appear with two sections, and `HalfMax = 4` lets `e_shnum` escape with
three: the two bounds differ, as 65280 and 65535 do.

- `PagesSeparated`: chunks are aligned, do not overlap, and those of different
  protection share no page.
- `FileDisjoint`, `Congruent`: no overlap in the file with the final size of the
  program headers; offsets agree with addresses modulo a page.
- `SegmentsMap`: each section is mapped by exactly one PT_LOAD, with its
  protection, from where it is in the file.
- `FewSegments`: a protection has at most one PT_LOAD more than there are
  alignments above a page. This is why the headers fit in a page, and why the
  loop ends: the first loaded section begins at the second page whatever their
  number is. `Termination` is the loop's end itself.
- `TlsAligned`: the comment about offsets against `tls_begin`; and PT_TLS begins at
  a multiple of its `p_align`, which is enough for every TLS section. The same is
  not stated for PT_LOAD: its address and offset agree modulo a page, and a section
  of more alignment than that may join a segment and raise its `p_align` above it.
- `HeadersRead`: section indices are unique and inside the table; a reader of the
  output file, who knows the escape of `e_shnum`, finds the program headers and a
  section header for every chunk at its index; the flags in the ELF header are
  those all files agree on. The model also says when the link stops here: the
  synthetic object has no flags and takes part, so that objects of a hard-float ABI
  are never linked.
- `ImplementsPlacement`: the loaded sections are placed one behind the other,
  and no later round moves one.

`std::sort` keeps the order of equal elements for up to 16 of them (it is an
insertion sort then). The constant `Stable` is that number. `segment_cover` sets
it to 1, so that two sections show what needs 17 in the program: an empty section
behind one with bytes at the same address cuts the segment short.

### relocation

Two members of 25 shapes, in which each relocation type occurs, and a section
elsewhere at 28 addresses: those at which the range of an instruction ends, two
bytes before and behind, where a low part carries, near zero and negative. With
`WordBits = 22` and `AddrBits = 26` all distances around 2^20, the longest range of
a jump, fit. Jumps, pairs and data are decoded by the instruction formats, given
as tables of bits and independent of the encoders. LEB128 has two to five bytes: with
`WordBits = 22` an `int` holds three, the fourth has its sign, and the fifth is shifted
too far, as it is with four, five and six bytes in the program. Symbols that are null, in no
output section or gone occur at a relocation, and at the high part of another. The
run has 226,957 states.

- `JumpsReach`: a branch, a jump or a call goes to its symbol.
- `HighAndLowMeet`: the two halves of an address, in instructions that may be far
  apart and in any order, add up to it; a register is dropped only near zero.
- `DataHolds`: of what is stored, the lower half of a word or a double word; sums and
  differences of several relocations at one offset, for R_RISCV_ADD and SUB whatever the
  sort does to equal ones; and what LEB128 is set to. The difference in LEB128 is stated
  as far as `read_uleb` reads what is there (`IsRead`): the field is shorter than
  an `int`, or the first address is one that an `int` holds.
- `OtherBitsKept`: opcodes, registers, the continuation bits of LEB128 and
  the neighbours of a member are as they were.
- `ErrorsAreReal`: the link stops only for a distance that does not fit, a label
  without high part, a type that is not known, an odd padding, or a relocation by a symbol
  that is not bound, is in no output section or is gone, each for its own message; and
  no member is finished with a relocation that could not be applied.

The properties leave out what the code gets wrong: the address of a local symbol is
computed from the section that is relocated, so that nothing is said of one in
another section; a distance at the end of the range carries out of the upper
part, and R_RISCV_PCREL_HI20 is not checked at all; `set_rs1` has a mask of 31
digits and clears the sign of the low part, so that small negative addresses are
not said to work; R_RISCV_ADD8 and SUB8 store nothing, and nothing is stated of them;
R_RISCV_64 stores 32 bits, and of the upper half nothing is stated but that it is kept; of
a difference in LEB128 that `read_uleb` misreads nothing is stated; a symbol that is gone may
be given any address, and where its relocation points is not stated;
R_RISCV_SET before its R_RISCV_SUB is only right when the relocations need no
sort.

## What is proved

Each `...Proofs` module but `RelocationProofs` has one inductive invariant
`IInv`, a lemma for each step (or each part and each step), `Invariance` (`Spec => []IInv`), and then the
theorems that the properties of the runs follow from it, for all values of the
constants. TLC has checked every `IInv` on the instance of the run.

### SymbolResolutionProofs

The seven invariants of `symbol_resolution` and the refinement of
`ReferenceClosure`, for any number of files, any set of names and any symbol
tables. The assumptions are those of `SymbolResolution`: the number of files is a
natural number, the entry and the names the linker defines are among the names,
and tables give each name one of six kinds.

None of the invariants is inductive. `IInv` adds what one pass knows of another:

- `MapInv`: the map has the first definer among the files put so far;
- `BindInv`: a definition is bound to what the map has; other pointers were set
  by `Resolve_symbols`, in a live file, to a live file;
- `AliveInv`: objects are alive, and a live member is the first definer of
  something;
- `ListInv`: a live file with a reference that is not bound yet is in the queue,
  or is the file at hand and the reference is in `todo` (the invariant of the
  work list; when the queue is empty, everything is bound);
- `ClearedInv`: what is left of map and pointers when dead files are gone;
- `CheckInv`: for files already checked, only dangling definitions are not
  their own.

The refinement `Implementation` maps `ReferenceFile` to `Reach` (or a stutter, if
the file was alive), `ClearUnusedResources` to `Settle`, failures to `Stop`.

### MergedSectionsProofs

All invariants of `merged_sections` and the refinement of `Placement`, for any
files, contents, sizes, alignments and outputs. Assumed are the shape of the
constants, that `Rank` orders contents (as `Get_ordered_span` does), that no two
alignments exist of which the lesser does not divide the greater (they are powers
of two), and that no output is the null pointer (`OutputsAssumption`).

What each pass leaves for the next is in `SplitInv` (which sections are listed),
`PoolInv` (their pieces are in the pool, with an alignment that is enough for each
section that has them) and `ResolveInv` (what symbols and relocations stand for).
`LayoutInv` is about the loop of `Assign_offset`: exactly the pieces it has passed
have an offset, in the order of their ranks, none before the end of one of lower
rank, and `cursor` is the end of the last. `ImageInv` says that a piece which was
copied is still there. `ReferencesCorrect` goes the whole way: from the place in
the input section to the piece, to its offset, to the byte in the output.

### OutputLayoutProofs

`TypeOK`, `PagesSeparated`, `FileDisjoint`, `Congruent`, `TlsAligned` and the
refinement of `Placement`, for any number of sections, any page size and image
base, any sizes. `LayoutAssumption` has what the code gives: alignments and
the page are powers of two (of two of them the lesser divides the greater), the
image base is a multiple of the page, a loaded chunk that is no
`Output_section` is empty. `TlsAssumption`: thread-local sections are loaded
and writable.

The difficulty is that the rounds are repeated while the addresses and offsets of
the last round are still there, and that `phdrs` changes in between.

- `ListInv`: the list is sorted but for the index table, which comes last, and
  it keeps the ELF header and the section headers. From that, the loaded
  chunks are contiguous in it, and so are the thread-local ones.
- `AddressInv`: an address that is there, of this round or of the last, is what
  this round computes for it. It depends on flags, sizes and alignments of loaded
  chunks only, and no header is loaded; so a round moves none.
- `OffsetInv`: at the positions `Set_file_offsets` has passed in this round, each
  offset is behind the chunk before it and agrees with the address; in the
  stretch since `run`, distances on disk are distances in memory.
- `TlsInv`: what is known of each PT_TLS when it was made; `TlsAligned` speaks of
  the segments that are written, long after that.

The recursive function of `Loads` is shown to exist, and to begin each PT_LOAD
before it ends, by induction on positions.

### OutputHeadersProofs

`HeadersRead`, by an invariant of its own above `IInv` of `OutputLayoutProofs`. The
headers are written in the last pass, from numbers that were counted before the
first round or in the last one.

- `IndexInv`: the indices are `1 .. n` for the `n` chunks that are no headers, each
  once, and `shdrSize` counts them and the null header. No pass after
  `Compute_section_headers` adds or drops a chunk.
- `PhdrInv`: `phdrSize` counts the program headers of this round; and PHDR, which is
  dropped if it is empty in the beginning, is missing only if nothing is loaded,
  when no round makes a program header.
- `CopyInv`: what stands in the ELF header and in the table once the loop is past
  them.

The theorem has a hypothesis: there are at most `HalfMax` program headers.
`e_phnum` has 16 bits, and unlike `e_shnum` the code gives it no escape
(`Output_chunk.cpp:254`). On the instance of the run, TLC checks the property
without the hypothesis.

`SegmentsMap` and `FewSegments`, if `FewLoaded`: at most `Stable` chunks are loaded, for
which `std::sort` keeps the order of equal addresses. The hypothesis cannot be left
out, `segment_cover` violates `SegmentsMap` without it. Under it there is one possible
order, that of the list (`StableOrder`).

- `MapInv`: the program headers that are written map each chunk. Only the last
  round matters, and it moves nothing afterwards. From the start of a PT_LOAD to each
  of its chunks the distance in the file is that in memory (`Stretch`, by induction
  on the recursive function of `Loads`), and addresses follow the order, so that one
  PT_LOAD covers a chunk with bytes and the others end before it or begin behind it.
- `ShiftInv`: of two neighbours of the same rights, both have the same difference of
  address and offset; or the second has an alignment of more than a page which divides
  its difference but not that of the first. `Set_file_offsets` begins a run inside
  one kind of rights only behind a gap of a page or more, and then rounds the
  offset up like the address (`FirstShift`).
- `FewInv`: behind such a break, the alignment divides all differences of the same
  rights (`Growth`), so that the next break has a greater alignment. Each
  PT_LOAD but the first of its rights begins with a break (`StartBreaks`): its
  alignment tells it from the others, which is the injection that counts them.

### OutputSectionsProofs

All invariants of `output_sections` and the refinement of `Placement`, for any
number of files, any section headers and any width of `int`. Assumed are the shape
of the constants and that an alignment is none or a power of two
(`CountsAssumption`, `FilesAssumption`, `AlignmentsAssumption`).

- `ReadInv`: which sections of a file are to be linked, once the file was read.
- `BindInv`: the bindings made number the members of each output section without a
  gap, in the order of files, and are as many as were counted. Counting and binding
  are two loops with two conditions, and a slot that is left over would be a
  member nobody filled.
- `MemberInv`: the members that are there are those of the bindings, each in its
  slot.
- `LayoutInv`: the loop of `Assign_input_section_offset`. Members before `member`
  have an offset, none before the end of the one in front, and the cursor is the
  end of the last.
- `AlignInv`: the exponent with which each offset was aligned. Powers of two are
  divided by the smaller ones, and from there comes `AlignmentsCorrect`.
- `ImageInv`: what was copied, and what was filled in between, is still there.
  `AddressesCorrect` goes from the section through its binding, its slot and its
  offset to the bytes of the image.

`Power` is shown to exist and to divide by induction (`PowerDefined`,
`PowerDivides` and what they rest on).

### InputFilesProofs

All invariants of `input_files`, for any command line, any object files and any
archives. `ArgumentsAssumption` and `FilesAssumption` give types: an argument has
a kind and a value, an archive a sequence of entries with sizes, and no size of a
header is 0.

`OptionsRead`, `InputsComplete` and the reasons of a failure read the arguments and
the archives as a whole; `IInv` says how much of that the loops have done.

- `ParseInv`: `at` is never a name of an output nor the value of a flag
  (`IsHead`), and the options are those given before it. The three ways in which
  `Parse_args` moves on (by one, by two, up to the next dash) are three lemmas on
  `IsHead`, and `NamesOutput` is shown to exist by induction.
- `FindInv`: of the pairs of directory and name that were passed, those with a
  file are found, the pairs are in order, and each comes from the first directory
  that has it.
- `InputsInv`: `inputs` has the objects and then the members before the position
  read, each at the place that the number of members before it gives; `names`
  says whether a string table is before that position.

`Start` is shown to exist and to increase (`StartDefined`, `StartOrdered`). From that
come which entry is at a position, and that all of an archive but its last byte of
padding is there (`FileHolds`), which is why `short_read` has but one reason.

### RelocationProofs

All five properties of `relocation`, for any members, relocations, symbols and
addresses. `WidthAssumption` says that a word has 22 to 32 bits and an address more,
up to 64; so it covers the program (32 and 64), and the run's instance (22 and 26).
`AddressAssumption`, `SymbolsAssumption` and `MembersAssumption` give types: what is in a
member's data is inside the member.

The module goes from numbers to bits to steps.

- Powers of two, `SumSet`, remainders: a number modulo `2 ^ n` is the sum of its low
  `n` bits, and a set of bits added up is a number with just these bits. The provers know no law
  of `^`; the first comes from the number of subsets of a set (`PowerNext`).
- Encoders against formats: for each of `write_itype`, `write_stype`, `write_btype`,
  `write_utype`, `write_jtype`, `write_cbtype`, `write_cjtype` and the LEB128 writer,
  the bits of the format hold the value and no other bit changes (`Encodes`, `Keeps`).
  `Decoded` turns this into a number that is read. Of LEB128 this is the value
  as a `uint64_t` (`Narrowed`), and `ReadExactly` says when `read_uleb` finds it: the
  field is shorter than an `int`, or the value is at most the largest `int`.
- `Effect` is what one handler promises about a member. From here on no proof looks
  into a handler again. Every handler has a lemma that its step has the effect.

`Relocation` has no single `IInv`, but `TypeInv` and six invariants that are proved
one by one: each is inductive together with `TypeInv`, `RelInv` and `FieldInv` with `OtherInv`
as well.

- `OtherInv`: at every moment a member that was copied is that of the file outside the
  bits relocations are about (`OtherBitsKept` speaks of the end).
- `RelInv`: the relocations applied have what they should at their place, those to come
  find the bits of the file. It is the middle of `JumpsReach` and `HighAndLowMeet`: the
  later relocation does not spoil the earlier one.
- `FieldInv`: for a field that two relocations share, the sum of what has been put
  there so far. For R_RISCV_ADD and SUB it does not depend on the order; for
  R_RISCV_SET it does, and there `OrderInv` comes in. What is subtracted from LEB128 counts
  if `read_uleb` can read what has been set (`Fits`).
- `OrderInv`: the relocations applied are sorted, and those that were sorted already are as
  they were. `find_paired_reloc` searches in one direction only, and finds every high
  part because of this order.
- `GaveUpInv`: why the link stopped, for each of the eight ways to stop. `DoneInv`: it ends behind the last member.

The theorems have hypotheses about the members, as the code writes wherever a relocation
tells it to, and takes what it finds there for granted. Each is a property of what an
assembler emits, and none is checked by the linker:

| Hypothesis | Says | Used by | Without it |
|---|---|---|---|
| `WellFormed` | LEB128 ends within ten bytes and no relocation is about its continuation bits | all but `ErrorsCorrect` | `overwrite_uleb` goes on into what follows |
| `FieldsFit` | no field reaches past its member | `OtherBitsCorrect` | the next member is overwritten |
| `FieldsApart` | two relocations have no bit in common, unless they are an R_RISCV_ADD or SET and its one R_RISCV_SUB | `JumpsCorrect`, `MeetCorrect`, `DataCorrect` | the second overwrites the first |
| `HalvesApart` | no offset has both a high and a low part | `ErrorsCorrect` | `find_paired_reloc` looks before or behind, not at the same offset |
| `EvenDistances` | branches go to even distances | `JumpsCorrect` | the formats of branches have no bit 0 |

They speak of the members that were read and of no step. TLC has checked on the instance of
the run that every member has all five in every reachable state, and that the six
invariants hold there: no theorem is empty, and the properties of the run do without
hypotheses.

### Only model-checked

- `Termination` of both loops: liveness is out of the prover's reach.

No safety invariant and no refinement that a passing run checks is without a theorem.
Where a theorem has a hypothesis that the run's property has not, it is named above:
`HeadersCorrect`, `SegmentsCorrect`, `FewSegmentsCorrect`, and those of `Relocation`.

Induction on natural numbers is there (`LeastNatural`, `Induction`), by a set
instead of a predicate: the theorems of the library that take an operator as a
parameter cannot be used. `SelectSeq` has no definition that the prover can unfold,
which is why `OutputLayout` has `Select`. No module declares a RECURSIVE
operator.

## Plan

Done: `ReferenceClosure`, `SymbolResolution` and its proofs; `Placement` and its
three implementations `MergedSections`, `OutputSections` and `OutputLayout`, the
last with the headers; `Relocation`; `InputFiles`; the proofs for all of them. To come, if
the project goes on:

1. The output symbol table, when the code has one.
2. One model in which the addresses of `Relocation` are those of `OutputLayout` and
   `OutputSections`, instead of any addresses.

## Not modelled

The ELF object reader: it finds tables in the bytes of an object, and what it
returns is the input of all the other modules. An archive is cut off
only at its last byte, the padding (`FileSize`): one that ends inside an entry stops
the link in the same place. That every short member name ends with a "/" is assumed
where the code has an assertion (`Linking_context.cpp:131`). The formatting of names, the output
file and its permissions, third party code. The output symbol table is not
finished in the code: its counts are computed and never used, and the function
that would write an entry aborts. Positions in `m_input_file` are not modelled: a
file is known by its old index, and that `Clear_unused_resources` turns pointers
into such indices correctly is not covered. `Relocation` takes each address by
itself: that all of them come from one layout is not used.

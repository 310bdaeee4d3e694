--------------------------- MODULE OutputSections ---------------------------
(***************************************************************************)
(* Output sections: Link sorts the sections of the files that are kept     *)
(* into output sections by name and type, gives each an offset in its      *)
(* output section, and copies it to the output file with what fills the    *)
(* room behind it.  Mergeable sections go their own way (MergedSections).  *)
(*                                                                         *)
(* A name is the sequence of its parts: ".text.a" is <<"text", "a">>.  A   *)
(* section header has what the passes read of it; sh_info and sh_size of a *)
(* relocation section are the section it is for and its number of entries. *)
(* Addresses are relative to the output section.                           *)
(***************************************************************************)
EXTENDS Integers, SequencesExt, Selection

CONSTANTS
    NumFiles,       \* number of input files that are kept
    FileShapes,     \* the section headers an input file may have
    MaxSections,    \* the most headers of a file
    IntBits         \* bits of an int, the width 1 << p2align is computed with

Attributes == {"ALLOC", "WRITE", "EXECINSTR", "MERGE", "STRINGS", "COMPRESSED", "GROUP"}

\* Types that are never linked, and relocation sections among them.
RelocationTypes == {"REL", "RELA"}
NeverLinked == {"NULL", "GROUP", "RISC_V_ATTRIBUTES", "SYMTAB", "SYMTAB_SHNDX", "STRTAB"}
                  \union RelocationTypes
InitTypes == {"INIT_ARRAY", "FINI_ARRAY", "PREINIT_ARRAY"}
Types == {"PROGBITS", "NOBITS", "NOTE"} \union NeverLinked \union InitTypes

Header == [name : Seq(STRING), type : Types, flags : SUBSET Attributes,
           size : Nat, align : Nat, info : Nat]

Shapes == UNION {Range(file) : file \in FileShapes}

ASSUME CountsAssumption ==
    NumFiles \in Nat \ {0} /\ MaxSections \in Nat /\ IntBits \in Nat \ {0}
ASSUME FilesAssumption ==
    \A file \in FileShapes : file \in Seq(Header) /\ Len(file) <= MaxSections

\* 1 << n
Power[n \in Nat] == IF n = 0 THEN 1 ELSE 2 * Power[n-1]

\* An alignment is none, or a power of two.
ASSUME AlignmentsAssumption ==
    \A h \in Shapes : h.align # 0 => \E p \in 0 .. h.align : h.align = Power[p]

VARIABLES
    files,      \* the section headers of the input files
    phase,      \* the pass that is running
    at,         \* loop index of the passes that go through files or bindings
    state,      \* m_relocate_state_list of the files
    listed,     \* input_section_list of the files
    relCount,   \* rel_count of their sections
    osecs,      \* osec_map, then m_osec_pool: the keys
    count,      \* member_cnt of the output sections
    flags,      \* their sh_flags
    bound,      \* in_out_section_bind
    members,    \* member_list of the output sections
    out,        \* the output section at hand
    todo,       \* those the running pass still has to do
    member,     \* index of the loop over its members
    cursor,     \* offset in Assign_input_section_offset
    top,        \* p2align in Assign_input_section_offset
    shsize,     \* sh_size of the output sections
    shalign,    \* sh_addralign of the output sections
    image       \* their bytes in the output file

readVars == <<files, state, listed, relCount>>
bindVars == <<osecs, count, flags, bound>>
workVars == <<out, todo, member, cursor, top>>
shdrVars == <<shsize, shalign>>
vars == <<readVars, phase, at, bindVars, members, workVars, shdrVars, image>>

-----------------------------------------------------------------------------
Files == 1 .. NumFiles
Phases == {"read", "merge", "count", "bind", "add", "assign", "copy", "done"}
States == {"no_need", "relocatable", "mergeable"}
Unplaced == -1
NoSection == <<0, 0>>   \* a null Input_section*
NoOutput == [name |-> <<>>, type |-> "NULL"]

\* Input sections are named by file and shndx.
HeaderOf(id) == files[id[1]][id[2]]

\* A byte of the output file: byte `at` of section `id`, or of c.ebreak, or
\* nothing that was written, or one of the input file that is in no section.
Filler(kind, i) == [from |-> kind, id |-> NoSection, at |-> i]
Zero == Filler("zero", 0)
Trap(i) == Filler("trap", i % 2)
Stray == Filler("stray", 0)

\* The data of an Input_section is what the file has at sh_offset.  There is
\* nothing of an SHT_NOBITS section there: what follows it, whatever that is.
Byte(id, j) == IF HeaderOf(id).type = "NOBITS" THEN Stray
               ELSE [from |-> "section", id |-> id, at |-> j]

-----------------------------------------------------------------------------
(***************************************************************************)
(* The name of an output section, and its key.                             *)
(***************************************************************************)
\* prefixes of get_output_name, in their order.
Stems == <<
    <<"text">>, <<"data", "rel", "ro">>, <<"data">>, <<"rodata">>,
    <<"bss", "rel", "ro">>, <<"bss">>, <<"init_array">>, <<"fini_array">>,
    <<"tbss">>, <<"tdata">>, <<"gcc_except_table">>, <<"ctors">>, <<"dtors">>,
    <<"gnu", "warning">>, <<"openbsd", "randomdata">> >>

\* get_output_name: the first stem the name has.
OutputName(h) ==
    LET stem == SelectInSeq(Stems, LAMBDA s : IsPrefix(s, h.name)) IN
    IF "MERGE" \in h.flags \/ stem = 0 THEN h.name ELSE Stems[stem]

\* Canonicalize_type
CanonicalType(name, type) ==
    CASE type = "PROGBITS" /\ IsPrefix(<<"init_array">>, name) -> "INIT_ARRAY"
      [] type = "PROGBITS" /\ IsPrefix(<<"fini_array">>, name) -> "FINI_ARRAY"
      [] OTHER                                                 -> type

IsCtors(h) == IsPrefix(<<"ctors">>, h.name)
IsDtors(h) == IsPrefix(<<"dtors">>, h.name)

\* Get_output_section_key
OutputKey(h, rels, inInitArray) ==
    CASE inInitArray /\ rels # 0 /\ IsCtors(h) ->
           [name |-> <<"init_array">>, type |-> "INIT_ARRAY"]
      [] inInitArray /\ rels # 0 /\ IsDtors(h) ->
           [name |-> <<"fini_array">>, type |-> "FINI_ARRAY"]
      [] OTHER ->
           [name |-> OutputName(h), type |-> CanonicalType(OutputName(h), h.type)]

Keys == {OutputKey(h, r, b) : h \in Shapes, r \in {0, 1}, b \in BOOLEAN}

\* Has_ctors_and_init_array, from has_ctors and has_init_array of the files: by
\* the name of a section the one, by its type the other.
CtorsInInitArray ==
    /\ \E f \in Files : \E i \in Range(listed[f]) :
         IsCtors(files[f][i]) \/ IsDtors(files[f][i])
    /\ \E f \in Files : \E i \in Range(listed[f]) : files[f][i].type \in InitTypes

KeyOf(id) == OutputKey(HeaderOf(id), relCount[id[1]][id[2]], CtorsInInitArray)

\* The input sections in the order the passes go through them.
Walk == FlattenSeq([f \in Files |-> [j \in DOMAIN listed[f] |-> <<f, listed[f][j]>>]])

Relocatable == {id \in Range(Walk) : state[id[1]][id[2]] = "relocatable"}

-----------------------------------------------------------------------------
Init ==
    /\ files \in [Files -> FileShapes]
    /\ phase = "read"
    /\ at = 1
    /\ state = [f \in Files |-> <<>>]
    /\ listed = [f \in Files |-> <<>>]
    /\ relCount = [f \in Files |-> <<>>]
    /\ osecs = {} /\ bound = <<>>
    /\ count = [k \in Keys |-> 0]
    /\ flags = [k \in Keys |-> {}]
    /\ members = [k \in Keys |-> <<>>]
    /\ out = NoOutput /\ todo = {} /\ member = 0 /\ cursor = 0 /\ top = 0
    /\ shsize = [k \in Keys |-> 0]
    /\ shalign = [k \in Keys |-> 1]
    /\ image = [k \in Keys |-> <<>>]

\* A mistake: the loop does not stop at the last file.  Like the other mistakes
\* below it is in no specification; a property notices each of them.
NextFileTooFar(then) ==
    /\ phase' = IF at = NumFiles THEN then ELSE phase
    /\ at' = at + 1

\* The loop of a pass goes on to the next file; after the last, pass `then` runs.
NextFile(then) ==
    IF at = NumFiles THEN phase' = then /\ at' = 1 ELSE phase' = phase /\ at' = at + 1

(***************************************************************************)
(* The constructor of an Input_file: which sections are linked, and how    *)
(* many relocations each has.  The last relocation section of a section    *)
(* counts; a file that has one has a symbol table, too.  sh_info of a      *)
(* linked section is 0, so that none is refused as a compressed one.       *)
(***************************************************************************)
NotSupported == {<<"debug_gnu_pubnames">>, <<"debug_gnu_pubtypes">>, <<"eh_frame">>}
Linked(h) == h.type \notin NeverLinked /\ h.name \notin NotSupported

RelocationSection(file, i) ==
    SelectLastInSeq(file, LAMBDA h : h.type \in RelocationTypes /\ h.info = i)

ReadFile ==
    /\ phase = "read"
    /\ LET file == files[at] IN
         /\ state' = [state EXCEPT ![at] =
              [i \in DOMAIN file |-> IF Linked(file[i]) THEN "relocatable" ELSE "no_need"]]
         /\ listed' = [listed EXCEPT ![at] =
              Select([i \in DOMAIN file |-> i], {i \in DOMAIN file : Linked(file[i])})]
         /\ relCount' = [relCount EXCEPT ![at] =
              [i \in DOMAIN file |->
                 IF Linked(file[i]) /\ RelocationSection(file, i) # 0
                 THEN file[RelocationSection(file, i)].size ELSE 0]]
    /\ NextFile("merge")
    /\ UNCHANGED <<files, bindVars, members, workVars, shdrVars, image>>

\* Init_mergeable_section, as far as it takes sections away from this module.
Mergeable(f, i) ==
    /\ i \in Range(listed[f])
    /\ "MERGE" \in files[f][i].flags
    /\ files[f][i].size # 0
    /\ relCount[f][i] = 0

InitMergeableSection ==
    /\ phase = "merge"
    /\ state' = [state EXCEPT ![at] =
         [i \in DOMAIN files[at] |-> IF Mergeable(at, i) THEN "mergeable" ELSE state[at][i]]]
    /\ NextFile("count")
    /\ UNCHANGED <<files, listed, relCount, bindVars, members, workVars, shdrVars, image>>

-----------------------------------------------------------------------------
(***************************************************************************)
(* Combined_input_sections: count the bindings, make them, make room for   *)
(* the members of every output section, and put the members there.         *)
(***************************************************************************)
NoBinding == [isec |-> NoSection, osec |-> NoOutput, member |-> 0]

\* A mistake: mergeable sections are counted as well.
CountListed ==
    /\ phase = "count"
    /\ bound' = [n \in 1 .. Len(Walk) |-> NoBinding]
    /\ phase' = "bind"
    /\ UNCHANGED <<readVars, at, osecs, count, flags, members, workVars, shdrVars, image>>

\* The states are counted, not the sections in the lists.
CountSections ==
    /\ phase = "count"
    /\ bound' = [n \in 1 .. Cardinality({id \in Files \X (1 .. MaxSections) :
                     /\ id[2] \in DOMAIN files[id[1]]
                     /\ state[id[1]][id[2]] = "relocatable"}) |-> NoBinding]
    /\ phase' = "bind"
    /\ UNCHANGED <<readVars, at, osecs, count, flags, members, workVars, shdrVars, image>>

SkipSection ==
    /\ phase = "bind" /\ at <= Len(Walk)
    /\ Walk[at] \notin Relocatable
    /\ at' = at + 1
    /\ UNCHANGED <<readVars, phase, bindVars, members, workVars, shdrVars, image>>

\* bind_offset is the number of bindings made.
BindOffset == Cardinality({n \in DOMAIN bound : bound[n] # NoBinding})

BindSection ==
    /\ phase = "bind" /\ at <= Len(Walk)
    /\ Walk[at] \in Relocatable
    /\ LET id == Walk[at]
           k  == KeyOf(id)
       IN  /\ osecs' = osecs \union {k}
           /\ count' = [count EXCEPT ![k] = @ + 1]
           /\ flags' = [flags EXCEPT ![k] =
                @ \union (HeaderOf(id).flags \ {"MERGE", "STRINGS", "COMPRESSED", "GROUP"})]
           /\ bound' = [bound EXCEPT ![BindOffset + 1] =
                [isec |-> id, osec |-> k, member |-> count[k] + 1]]
    /\ at' = at + 1
    /\ UNCHANGED <<readVars, phase, members, workVars, shdrVars, image>>

InsertOutputSections ==
    /\ phase = "bind" /\ at > Len(Walk)
    /\ members' = [k \in Keys |->
         [n \in 1 .. count[k] |-> [isec |-> NoSection, offset |-> Unplaced]]]
    /\ phase' = "add"
    /\ at' = 1
    /\ UNCHANGED <<readVars, bindVars, workVars, shdrVars, image>>

AddMember ==
    /\ phase = "add" /\ at <= Len(bound)
    /\ members' = [members EXCEPT ![bound[at].osec][bound[at].member].isec = bound[at].isec]
    /\ at' = at + 1
    /\ UNCHANGED <<readVars, phase, bindVars, workVars, shdrVars, image>>

AddDone ==
    /\ phase = "add" /\ at > Len(bound)
    /\ phase' = "assign"
    /\ at' = 1
    /\ todo' = osecs
    /\ UNCHANGED <<readVars, bindVars, members, out, member, cursor, top, shdrVars, image>>

-----------------------------------------------------------------------------
(***************************************************************************)
(* Assign_input_section_offset, for the output sections in the order of a  *)
(* hash map.                                                               *)
(***************************************************************************)
BeginAssign ==
    /\ phase = "assign" /\ out = NoOutput
    /\ out' \in todo
    /\ todo' = todo \ {out'}
    /\ member' = 1
    /\ cursor' = 0
    /\ top' = 0
    /\ UNCHANGED <<readVars, phase, at, bindVars, members, shdrVars, image>>

\* What 1 << p may be.  It is an int: from its width on the shift is undefined,
\* and gives 0 or what the machine makes of the lower bits of p.
Shifted(p) == IF p < IntBits THEN {Power[p]} ELSE {0, Power[p % IntBits]}

\* align_to
AlignTo(v, a) == IF a = 0 THEN v ELSE ((v + a - 1) \div a) * a

\* A mistake: only the alignment of the member before is taken.
AlignsToPrevious ==
    /\ phase = "assign" /\ out # NoOutput /\ member \in DOMAIN members[out]
    /\ LET h == HeaderOf(members[out][member].isec) IN
         \E a \in Shifted(top) :
           /\ members' = [members EXCEPT ![out][member].offset = AlignTo(cursor, a)]
           /\ cursor' = AlignTo(cursor, a) + h.size
           /\ top' = h.align
    /\ member' = member + 1
    /\ UNCHANGED <<readVars, phase, at, bindVars, out, todo, shdrVars, image>>

\* The offset is aligned for the members before this one; p2align is the
\* greatest sh_addralign, a number of bytes.
AssignOffset ==
    /\ phase = "assign" /\ out # NoOutput /\ member \in DOMAIN members[out]
    /\ LET h == HeaderOf(members[out][member].isec) IN
         \E a \in Shifted(top) :
           /\ members' = [members EXCEPT ![out][member].offset = AlignTo(cursor, a)]
           /\ cursor' = AlignTo(cursor, a) + h.size
           /\ top' = Max({top, h.align})
    /\ member' = member + 1
    /\ UNCHANGED <<readVars, phase, at, bindVars, out, todo, shdrVars, image>>

\* A mistake: the size is rounded up to the alignment.
SizeIsAligned ==
    /\ phase = "assign" /\ out # NoOutput /\ member \notin DOMAIN members[out]
    /\ \E a \in Shifted(top) :
         /\ shsize' = [shsize EXCEPT ![out] = AlignTo(cursor, a)]
         /\ shalign' = [shalign EXCEPT ![out] = a]
    /\ out' = NoOutput
    /\ UNCHANGED <<readVars, phase, at, bindVars, members, todo, member, cursor, top, image>>

AssignSize ==
    /\ phase = "assign" /\ out # NoOutput /\ member \notin DOMAIN members[out]
    /\ shsize' = [shsize EXCEPT ![out] = cursor]
    /\ \E a \in Shifted(top) : shalign' = [shalign EXCEPT ![out] = a]
    /\ out' = NoOutput
    /\ UNCHANGED <<readVars, phase, at, bindVars, members, todo, member, cursor, top, image>>

\* Output_file zeroes its buffer.  Output sections without bytes stay in the list,
\* from which other empty chunks are removed; there is nothing to copy to them.
OpenOutputFile ==
    /\ phase = "assign" /\ out = NoOutput /\ todo = {}
    /\ phase' = "copy"
    /\ todo' = {k \in osecs : shsize[k] # 0}
    /\ image' = [k \in Keys |-> [n \in 0 .. shsize[k] - 1 |-> Zero]]
    /\ UNCHANGED <<readVars, at, bindVars, members, out, member, cursor, top, shdrVars>>

-----------------------------------------------------------------------------
(***************************************************************************)
(* m_copy_chunk of an Output_section: Relocate_symbols copies the data of  *)
(* all members (what relocation then does to them is another module's),    *)
(* and the room behind each member is filled.                              *)
(***************************************************************************)
Member(k, n) == members[k][n]
MemberEnd(k, n) == Member(k, n).offset + HeaderOf(Member(k, n).isec).size

\* The members of k that byte n belongs to.
Covering(k, n) ==
    {m \in DOMAIN members[k] : Member(k, m).offset <= n /\ n < MemberEnd(k, m)}

BeginCopy ==
    /\ phase = "copy" /\ out = NoOutput
    /\ out' \in todo
    /\ todo' = todo \ {out'}
    /\ image' = [image EXCEPT ![out'] = [n \in DOMAIN image[out'] |->
         LET on == Covering(out', n) IN
         IF on = {} THEN image[out'][n]
         ELSE Byte(Member(out', Max(on)).isec, n - Member(out', Max(on)).offset)]]
    /\ member' = 1
    /\ UNCHANGED <<readVars, phase, at, bindVars, members, cursor, top, shdrVars>>

NextStart(k, n) == IF n < Len(members[k]) THEN Member(k, n + 1).offset ELSE shsize[k]

\* The bytes behind member n: c.ebreak as long as two bytes are left.  Two
\* mistakes: as long as one is, and half an instruction into the last byte.
PaddingHalf(k, n, i) ==
    IF i >= NextStart(k, n) THEN image[k][i]
    ELSE IF "EXECINSTR" \in flags[k] THEN Trap(i - MemberEnd(k, n)) ELSE Zero

PaddingTooLong(k, n, i) ==
    IF "EXECINSTR" \notin flags[k]
    THEN IF i < NextStart(k, n) THEN Zero ELSE image[k][i]
    ELSE LET size == NextStart(k, n) - MemberEnd(k, n)
             j    == i - MemberEnd(k, n)
         IN  IF j < 2 * ((size + 1) \div 2) THEN Trap(j) ELSE image[k][i]

Padding(k, n, i) ==
    IF "EXECINSTR" \notin flags[k]
    THEN IF i < NextStart(k, n) THEN Zero ELSE image[k][i]
    ELSE LET size == NextStart(k, n) - MemberEnd(k, n)
             j    == i - MemberEnd(k, n)
         IN  IF j < 2 * (size \div 2) THEN Trap(j) ELSE image[k][i]

PadMember ==
    /\ phase = "copy" /\ out # NoOutput /\ member \in DOMAIN members[out]
    /\ image' = [image EXCEPT ![out] = [i \in DOMAIN image[out] |->
         IF i < MemberEnd(out, member) THEN image[out][i] ELSE Padding(out, member, i)]]
    /\ member' = member + 1
    /\ UNCHANGED <<readVars, phase, at, bindVars, members, out, todo, cursor, top, shdrVars>>

CopyEnd ==
    /\ phase = "copy" /\ out # NoOutput /\ member \notin DOMAIN members[out]
    /\ out' = NoOutput
    /\ UNCHANGED <<readVars, phase, at, bindVars, members, todo, member, cursor, top,
                   shdrVars, image>>

CopyDone ==
    /\ phase = "copy" /\ out = NoOutput /\ todo = {}
    /\ phase' = "done"
    /\ UNCHANGED <<readVars, at, bindVars, members, workVars, shdrVars, image>>

Ended == phase = "done"
Terminated == Ended /\ UNCHANGED vars

Next ==
    \/ ReadFile \/ InitMergeableSection
    \/ CountSections \/ SkipSection \/ BindSection \/ InsertOutputSections
    \/ AddMember \/ AddDone
    \/ BeginAssign \/ AssignOffset \/ AssignSize \/ OpenOutputFile
    \/ BeginCopy \/ PadMember \/ CopyEnd \/ CopyDone
    \/ Terminated

Spec == Init /\ [][Next]_vars

-----------------------------------------------------------------------------
Ids == Files \X (1 .. MaxSections)

FileTypes ==
    /\ files \in [Files -> FileShapes]
    /\ state \in [Files -> Seq(States)]
    /\ listed \in [Files -> Seq(1 .. MaxSections)]
    /\ relCount \in [Files -> Seq(Nat)]
LoopTypes ==
    /\ phase \in Phases
    /\ at \in Nat \ {0}
    /\ phase \in {"read", "merge", "count"} => at \in Files
Slot == [isec : Ids \union {NoSection}, offset : Nat \union {Unplaced}]
BindTypes ==
    /\ osecs \subseteq Keys
    /\ count \in [Keys -> Nat]
    /\ flags \in [Keys -> SUBSET Attributes]
    /\ bound \in Seq([isec : Ids \union {NoSection}, osec : Keys \union {NoOutput},
                      member : Nat])
    /\ members \in [Keys -> Seq(Slot)]
WorkTypes ==
    /\ out \in Keys \union {NoOutput} /\ todo \subseteq osecs
    /\ member \in Nat /\ cursor \in Nat /\ top \in Nat
ShdrTypes == shsize \in [Keys -> Nat] /\ shalign \in [Keys -> Nat]

\* Every variable has its type.
TypeOK == FileTypes /\ LoopTypes /\ BindTypes /\ WorkTypes /\ ShdrTypes

-----------------------------------------------------------------------------
\* Get_input_section_addr: the key is computed anew, and the members of its
\* output section are searched.
MemberIndex(k, id) == SelectInSeq(members[k], LAMBDA m : m.isec = id)
AddressOf(id) == Member(KeyOf(id), MemberIndex(KeyOf(id), id)).offset

\* Combined_input_sections binds every section that is linked, once, where its
\* key will be looked up again, in the order of files and sections; no binding
\* that was counted and no slot of a member list is left without a section.
SectionsAreMembers ==
    /\ phase = "add" => \A n \in DOMAIN bound : bound[n] # NoBinding
    /\ phase \in {"assign", "copy", "done"} =>
        /\ \A id \in Relocatable :
             Cardinality({n \in DOMAIN members[KeyOf(id)] :
                            Member(KeyOf(id), n).isec = id}) = 1
        /\ \A k \in osecs : \A n \in DOMAIN members[k] :
             /\ Member(k, n).isec \in Relocatable
             /\ KeyOf(Member(k, n).isec) = k
             /\ \A m \in 1 .. n - 1 :
                  LET a == Member(k, m).isec
                      b == Member(k, n).isec
                  IN  a[1] < b[1] \/ (a[1] = b[1] /\ a[2] < b[2])

\* What relocation is told to be the address of a section holds the section,
\* byte for byte: no other member and no padding is written over it.
AddressesReadSection ==
    phase = "done" => \A id \in Relocatable : \A j \in 0 .. HeaderOf(id).size - 1 :
        image[KeyOf(id)][AddressOf(id) + j] = Byte(id, j)

\* The room behind a member is never of negative length, a huge one in size_t;
\* and what is left between members is zero, or whole trap instructions in a
\* section that is executed.
PaddingHarmless ==
    /\ phase = "copy" /\ out # NoOutput /\ member \in DOMAIN members[out] =>
         /\ MemberEnd(out, member) <= NextStart(out, member)
         /\ NextStart(out, member) <= shsize[out]
    /\ phase = "done" => \A k \in osecs : \A n \in DOMAIN image[k] :
         Covering(k, n) = {} =>
             \/ image[k][n] = Zero
             \/ /\ "EXECINSTR" \in flags[k]
                /\ \/ image[k][n] = Trap(0) /\ image[k][n + 1] = Trap(1)
                   \/ image[k][n] = Trap(1) /\ image[k][n - 1] = Trap(0)

\* As long as no shift is wider than an int: the output section is aligned for
\* all its members, and a member is misaligned only if it asks for more than
\* 1 << a for the alignments a of the members before it.
AlignedForEarlier ==
    phase \in {"copy", "done"} => \A k \in osecs :
        LET align(n) == HeaderOf(Member(k, n).isec).align
        IN  (\A n \in DOMAIN members[k] : align(n) < IntBits) =>
              \A n \in DOMAIN members[k] : align(n) > 0 =>
                /\ shalign[k] % align(n) = 0
                /\ (\E m \in 1 .. n - 1 : align(n) <= Power[align(m)]) =>
                     Member(k, n).offset % align(n) = 0

Placeable == Files \X (1 .. MaxSections) \X {h.size : h \in Shapes}

LaidOut(k) ==
    /\ k \in osecs
    /\ \/ phase = "assign" /\ k \notin todo \union {out}
       \/ phase \in {"copy", "done"}

StartOf(k, item) ==
    LET id == <<item[1], item[2]>> IN
    IF MemberIndex(k, id) # 0 /\ HeaderOf(id).size = item[3]
    THEN Member(k, MemberIndex(k, id)).offset ELSE Unplaced

Starts == [k \in Keys |-> [item \in Placeable |-> StartOf(k, item)]]
Ends == [k \in Keys |-> IF LaidOut(k) THEN shsize[k] ELSE -1]

\* The members of an output section are placed one behind the other, once.
Layout == INSTANCE Placement WITH
    Containers <- Keys, Items <- Placeable, Size <- [item \in Placeable |-> item[3]],
    start <- Starts, end <- Ends

ImplementsPlacement == Layout!Spec
=============================================================================

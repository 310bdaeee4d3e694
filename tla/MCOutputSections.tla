-------------------------- MODULE MCOutputSections --------------------------
(***************************************************************************)
(* An instance of OutputSections for TLC: two files of one to three        *)
(* sections, whose names, types, sizes and alignments meet or do not.  An  *)
(* int has eight bits, so that an alignment of 8 bytes stands for one of   *)
(* 32 bytes and more.                                                      *)
(***************************************************************************)
EXTENDS OutputSections

Code == {"ALLOC", "EXECINSTR"}
Data == {"ALLOC", "WRITE"}

Section(name, type, attributes, size, align) ==
    [name |-> name, type |-> type, flags |-> attributes, size |-> size,
     align |-> align, info |-> 0]

Other(type) == Section(<<"other">>, type, {}, 1, 1)

\* The relocations of section i.
Rela(i) == [Other("RELA") EXCEPT !.info = i, !.size = 2]

Text(suffix, size, align) == Section(<<"text">> \o suffix, "PROGBITS", Code, size, align)

MCFileShapes == {
    <<Text(<<"a">>, 1, 2), Rela(1), Text(<<"b">>, 2, 1)>>,
    <<Text(<<>>, 3, 1), Text(<<"a">>, 0, 2), Text(<<"c">>, 1, 8)>>,
    <<Text(<<"a">>, 2, 4), Section(<<"data", "x">>, "PROGBITS", Data, 1, 0)>>,
    <<Section(<<"data">>, "PROGBITS", Data, 1, 2),
      Section(<<"data", "rel", "ro", "x">>, "PROGBITS", Data, 2, 1),
      Section(<<"data", "y">>, "PROGBITS", Data \union {"GROUP"}, 2, 8)>>,
    <<Section(<<"bss", "x">>, "NOBITS", Data, 2, 2), Other("SYMTAB"), Other("GROUP")>>,
    <<Section(<<"ctors", "1">>, "PROGBITS", Data, 2, 1), Rela(1),
      Section(<<"dtors">>, "PROGBITS", Data, 1, 2)>>,
    <<Section(<<"ctors">>, "PROGBITS", Data, 1, 1), Rela(4), Other("STRTAB"),
      Section(<<"dtors">>, "PROGBITS", Data, 2, 1)>>,
    <<Section(<<"init_array">>, "INIT_ARRAY", Data, 1, 2)>>,
    <<Section(<<"init_array", "5">>, "PROGBITS", Data, 2, 1),
      Section(<<"fini_array", "5">>, "PROGBITS", Data, 1, 1)>>,
    <<Section(<<"rodata", "str">>, "PROGBITS", {"ALLOC", "MERGE", "STRINGS"}, 2, 1),
      Section(<<"rodata", "str">>, "PROGBITS", {"ALLOC", "MERGE", "STRINGS"}, 1, 1), Rela(2)>>,
    <<Section(<<"rodata", "str">>, "PROGBITS", {"ALLOC"}, 1, 1),
      Section(<<"eh_frame">>, "PROGBITS", {"ALLOC"}, 2, 2),
      Section(<<"note">>, "NOTE", {"ALLOC", "COMPRESSED"}, 2, 2)>> }

-----------------------------------------------------------------------------
\* What comments in the source say, refuted by the code.

\* src/include/util.h:20 says of p2align: "0b0->0, 0b1->0, 0b10->1, 0b100->2".
\* So 1 << p2align is the alignment again, and members are aligned to it.
MembersAligned ==
    \A k \in osecs : \A n \in DOMAIN members[k] :
        Member(k, n).offset # Unplaced /\ HeaderOf(Member(k, n).isec).align > 0 =>
            Member(k, n).offset % HeaderOf(Member(k, n).isec).align = 0

\* src/elf/ELF.h:183 says of SHT_NOBITS: "Program space with no data (bss)".  So
\* nothing of the input is in the output where such a section is.
NoDataOfNobits ==
    phase = "done" => \A id \in Relocatable : HeaderOf(id).type = "NOBITS" =>
        \A j \in 0 .. HeaderOf(id).size - 1 : image[KeyOf(id)][AddressOf(id) + j] = Zero
=============================================================================

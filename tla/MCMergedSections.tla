-------------------------- MODULE MCMergedSections --------------------------
(***************************************************************************)
(* An instance of MergedSections for TLC: two files of at most two         *)
(* sections, which share pieces, merged sections and alignments, or not.   *)
(***************************************************************************)
EXTENDS MergedSections

MCContents == {"", "x", "ab", "cd"}
MCSize == [c \in MCContents |-> CASE c = "" -> 1 [] c = "x" -> 2 [] OTHER -> 3]
MCRank == [c \in MCContents |-> CASE c = "" -> 1 [] c = "x" -> 2
                                  [] c = "ab" -> 3 [] c = "cd" -> 4]
MCAlignments == {1, 2, 4}

\* Split_section on strings: a cut behind every terminator.
Cuts(data) ==
    LET cut[i \in 1 .. Len(data)] ==
            IF i = 1 THEN 0 ELSE cut[i-1] + MCSize[data[i-1]]
    IN  [i \in 1 .. Len(data) |-> cut[i]]

Strings(o, a, data) ==
    [kind |-> "pieces", out |-> o, align |-> a, cuts |-> Cuts(data), data |-> data]

Odd(kind) == [kind |-> kind, out |-> "debug", align |-> 1, cuts |-> <<>>, data |-> <<>>]

Debug == {Strings("debug", a, data) : a \in MCAlignments,
            data \in {<<"x">>, <<"cd", "">>, <<"ab", "x", "cd", "ab">>}}
Rodata == {Strings("rodata", a, <<"ab", "x">>) : a \in {1, 4}}
Comment == {Strings("comment", 2, <<"x", "">>)}

\* A relocation to every place of the section, the one behind the end included.
Refs(k) == [i \in 1 .. SectionSize(k) + 1 |-> [sec |-> 1, at |-> i - 1]]

MCFileShapes ==
    {[sections |-> <<k>>, refs |-> Refs(k)] : k \in Debug \union Rodata}
    \union {[sections |-> <<k, l>>, refs |-> Refs(k)] :
              k \in {Strings("debug", 2, <<"x">>), Strings("debug", 1, <<"cd", "">>)},
              l \in {Strings("debug", 4, <<"x">>), Strings("debug", 1, <<"ab", "x", "ab">>)}
                      \union Comment}
    \union {[sections |-> <<k, Odd("plain")>>, refs |-> <<[sec |-> 2, at |-> 0]>>] : k \in Rodata}
    \union {[sections |-> <<Odd(kind)>>, refs |-> refs] :
              kind \in {"no entry size", "ragged"},
              refs \in {<<>>, <<[sec |-> 1, at |-> 0]>>}}

-----------------------------------------------------------------------------
\* What comments in the source say, refuted by the code.

\* src/include/Linking_passes.h:100: "This condition is met if a non-alloc
\* section refers an alloc section".  So what a relocation of an SHF_ALLOC
\* section refers to is alive and has an address.
AllocRefersToAlive ==
    phase = "done" => \A f \in Files : \A r \in DOMAIN fragment[f] :
        Alive(fragment[f][r].out)

\* src/src/Input_file.cpp:432: "redirect the relocation to the new symbol".
RelocationsRedirected ==
    \A f \in Files : \A r \in DOMAIN fragment[f] :
        rel[f][r].sym = FragmentIndex(f, r)
=============================================================================

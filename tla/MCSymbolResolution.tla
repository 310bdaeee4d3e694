------------------------- MODULE MCSymbolResolution -------------------------
(***************************************************************************)
(* An instance of SymbolResolution for TLC: three files besides the        *)
(* synthetic one, every assignment of the symbol tables below to them and  *)
(* every split into objects and archive members.                           *)
(***************************************************************************)
EXTENDS SymbolResolution

MCSymbols == {"_start", "foo", "bar", "end"}

Table(entry, foo, bar, end) ==
    [s \in MCSymbols |-> CASE s = "_start" -> entry
                           [] s = "foo" -> foo
                           [] s = "bar" -> bar
                           [] s = "end" -> end]

GraphKinds == {"none", "undef", "def"}

MCSymbolTables ==
    \* chains and cycles of references, shadowed members, clashes
    {Table("none", foo, bar, "none") : foo, bar \in GraphKinds}
    \union {Table("def", foo, "none", "none") : foo \in GraphKinds}
    \* an entry that needs foo and the synthetic object
    \union {Table("def", "undef", "none", "undef")}
    \* weak references, definitions in unsupported sections, common symbols
    \union {Table("none", foo, "def", "none") : foo \in {"weak", "dropped", "common"}}
    \union {Table("dropped", "weak", "none", "none")}
    \* a file with a definition of its own of a synthetic name
    \union {Table("none", "none", "def", "def"), NoSymtab}

-----------------------------------------------------------------------------
\* What comments in the source say, refuted by the code.

\* src/src/Linking_passes.cpp:83, of a symbol that is not undefined: "it's
\* defined, don't mark alive its source, because it's itself".  So a symbol
\* that just one file of the output defines is bound, in that file, to the
\* Symbol of that file.
DefinedIsItself ==
    Cleared => \A f \in files, s \in Symbols :
        Defines(f, s) /\ (\A g \in files \ {f} : ~Defines(g, s))
            => binding[f][s] = f
=============================================================================

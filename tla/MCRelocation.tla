---------------------------- MODULE MCRelocation ----------------------------
(***************************************************************************)
(* An instance of Relocation for TLC: two members of up to six             *)
(* relocations, in which each type occurs, and a section elsewhere whose   *)
(* distance from the first member takes the values at which the ranges of  *)
(* the instructions and the carries between their parts end.               *)
(***************************************************************************)
EXTENDS Relocation

MCBase == 2 ^ 20

Sym(local, piece, where, val) ==
    [local |-> local, piece |-> piece, gone |-> FALSE, where |-> where, val |-> val]

\* far, static and piece are of the section elsewhere, here, label and start of
\* this one.  The memory of the one that is lost still says elsewhere.
MCSymbols ==
    [far |-> Sym(FALSE, FALSE, "elsewhere", 0),
     static |-> Sym(TRUE, FALSE, "elsewhere", 2),
     piece |-> Sym(TRUE, TRUE, "elsewhere", 4),
     dead |-> Sym(TRUE, TRUE, DeadPiece, 1),
     four |-> Sym(FALSE, FALSE, Absolute, 4),
     here |-> Sym(FALSE, FALSE, Here, 6),
     start |-> Sym(TRUE, FALSE, Here, 0),
     label |-> Sym(TRUE, FALSE, Here, 4),
     null |-> Sym(FALSE, FALSE, Unbound, 0),
     nowhere |-> Sym(FALSE, FALSE, Unplaced, 0),
     lost |-> [Sym(FALSE, FALSE, "elsewhere", 0) EXCEPT !.gone = TRUE]]

R(type, offset, sym, addend) ==
    [type |-> type, offset |-> offset, sym |-> sym, addend |-> addend]
Ones(n) == 0 .. 8 * n - 1
Shape(rs, size, data) == [rels |-> rs, size |-> size, data |-> data]

\* Of the addresses the first member reaches, the ones at a limit.
Limits == {0, 2 ^ 8, 2 ^ 11, 2 ^ 12, 2 ^ 20, 2 ^ 21}
MCAddresses ==
    {(MCBase + d) % 2 ^ 26 : d \in UNION {{l - 2, l, -l - 2, -l} : l \in Limits}}
    \union {MCBase + 87380, MCBase - 43692, 2 ^ 11, 2 ^ 11 - 2, 2 ^ 21 - 2 ^ 11 - 2,
            2 ^ 26 - 2 ^ 11}

Jumps ==
    {Shape(<<R("BRANCH", 0, "far", 0), R("BRANCH", 4, "start", 0)>>, 8, Ones(8)),
     Shape(<<R("JAL", 0, "far", 0), R("RELAX", 0, "start", 0)>>, 4, Ones(4)),
     Shape(<<R("JAL", 0, "piece", -4), R("BRANCH", 4, "static", 0)>>, 8, {}),
     Shape(<<R("RVC_BRANCH", 0, "far", 0)>>, 4, Ones(4)),
     Shape(<<R("RVC_JUMP", 2, "far", 2)>>, 4, {}),
     Shape(<<R("CALL_PLT", 0, "far", 0), R("RELAX", 0, "start", 0), R("CALL", 8, "here", 0)>>,
           16, Ones(16))}

Pairs ==
    {Shape(<<R("PCREL_HI20", 4, "far", 4), R("PCREL_LO12_I", 8, "label", 0),
             R("PCREL_LO12_S", 12, "label", 0)>>, 16, Ones(16)),
     Shape(<<R("PCREL_LO12_S", 0, "label", 0), R("PCREL_HI20", 4, "far", 2)>>, 8, {}),
     Shape(<<R("PCREL_LO12_I", 0, "label", 0), R("GOT_HI20", 4, "far", 0)>>, 8, {}),
     Shape(<<R("PCREL_LO12_I", 8, "label", 0), R("PCREL_HI20", 4, "piece", 0)>>, 12, Ones(12)),
     Shape(<<R("PCREL_HI20", 0, "dead", 0), R("PCREL_LO12_I", 8, "label", 0)>>, 12, {}),
     Shape(<<R("HI20", 0, "far", 0), R("LO12_I", 4, "far", 0), R("LO12_S", 8, "far", 0)>>,
           12, Ones(12)),
     Shape(<<R("HI20", 8, "piece", 6), R("LO12_S", 4, "piece", 6), R("TPREL_HI20", 0, "far", 0)>>,
           12, {})}

Data ==
    {Shape(<<R("32", 0, "far", 1), R("64", 4, "piece", 0), R("SET8", 8, "far", 3),
             R("32_PCREL", 12, "far", 0)>>, 16, Ones(16)),
     Shape(<<R("SUB32", 0, "start", 1), R("ADD32", 0, "far", 2), R("SUB16", 4, "four", 0),
             R("SET16", 4, "here", 0)>>, 8, Ones(8)),
     Shape(<<R("SUB64", 8, "dead", 3), R("ADD64", 8, "far", 0), R("ADD8", 4, "far", 0),
             R("SUB8", 4, "four", 0), R("ADD16", 0, "four", 5)>>, 12, Ones(1)),
     Shape(<<R("SET6", 0, "here", 0), R("SUB6", 0, "start", 1),
             R("SET_ULEB128", 1, "far", 1), R("SUB_ULEB128", 1, "label", 0),
             R("SET8", 3, "far", 0)>>, 4, Ones(2)),
     Shape(<<R("ALIGN", 2, "start", 6), R("NONE", 8, "null", 0), R("SET32", 8, "four", 0)>>,
           12, Ones(12))}

\* LEB128 of three, four and five bytes: an int holds the first, the top bit of
\* the second is its sign, and the last byte of the third is shifted too far.
Lebs ==
    {Shape(<<R("SET_ULEB128", 0, "far", 1), R("SUB_ULEB128", 0, "label", 0),
             R("SET_ULEB128", 3, "far", 0), R("SUB_ULEB128", 3, "start", 1)>>,
           7, Ones(2) \union (24 .. 47)),
     Shape(<<R("SET_ULEB128", 0, "far", 0), R("SUB_ULEB128", 0, "four", 0),
             R("SUB_ULEB128", 5, "far", 0)>>, 10, Ones(4) \union (40 .. 71))}

\* What the linker gives up at.
Stops ==
    {Shape(<<R("32", 0, "far", 0), R("JAL", 4, "null", 0)>>, 8, {}),
     Shape(<<R("PCREL_LO12_I", 0, "label", 0), R("PCREL_HI20", 4, "null", 0)>>, 8, {}),
     Shape(<<R("64", 0, "nowhere", 0)>>, 8, {}),
     Shape(<<R("JAL", 0, "lost", 0), R("SET8", 4, "far", 0)>>, 8, {}),
     Shape(<<R("ALIGN", 0, "start", -2), R("ALIGN", 4, "start", 3)>>, 8, Ones(8))}

MCMemberShapes == Jumps \union Pairs \union Data \union Lebs \union Stops
=============================================================================

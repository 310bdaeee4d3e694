---------------------------- MODULE MCInputFiles ----------------------------
(***************************************************************************)
(* An instance of InputFiles for TLC.  The command lines are all of up to  *)
(* two arguments, and of up to three behind -m and two -L, so that objects *)
(* and libraries are found, missed and refused in every order.             *)
(***************************************************************************)
EXTENDS InputFiles, TLC

Riscv == "riscv"
MCMachines == {Riscv}
Good == [rel |-> TRUE, machine |-> Riscv]
Foreign == [rel |-> TRUE, machine |-> "mips"]
\* e_machine is EM_NONE, which is what the option is when it is unknown.
None == [rel |-> TRUE, machine |-> Unknown]
NoObject == [rel |-> FALSE, machine |-> Riscv]

A(kind, val) == [kind |-> kind, val |-> val]
MCArgs ==
    {A("output", "-o"), A("info", "-v"), A("machine", Riscv), A("machine", "mips"),
     A("directory", "d2"), A("other", "-static"), A("plain", "a.o"), A("plain", "b.o"),
     A("plain", "exe"), A("plain", "missing.o")}
    \union {A("library", name) : name \in {"c", "m", "bad", "late", "odd", "foreign", "none"}}

Short(len) == UNION {[1 .. n -> MCArgs] : n \in 0 .. len}
Usual == <<A("machine", Riscv), A("directory", "d1"), A("directory", "d2")>>
MCArgLists == Short(2) \union {Usual \o rest : rest \in Short(3)}

MCObjects == [path \in {"a.o", "b.o", "exe"} |->
    CASE path = "a.o" -> Good [] path = "b.o" -> None [] OTHER -> NoObject]

E(kind, size, name, long, object) ==
    [kind |-> kind, size |-> size, name |-> name, long |-> long, object |-> object]
Symtab == E("symtab", 2, "/", FALSE, NoObject)
Strtab == E("strtab", 3, "//", FALSE, NoObject)
Ar(entries) == [magic |-> TRUE, entries |-> entries, padded |-> TRUE]

\* libm is in both directories; what else there is, in one of them.
MCArchives ==
    <<"d1", "m">> :> Ar(<<Symtab, Strtab, E("member", 1, "short.o", FALSE, Good),
                          E("member", 3, "a_long_name.o", TRUE, Good)>>)
    @@ <<"d2", "m">> :> Ar(<<E("member", 2, "another.o", FALSE, Good)>>)
    @@ <<"d2", "c">> :> Ar(<<Symtab, E("member", 2, "c1.o", FALSE, Good), Strtab,
                             E("member", 1, "c2.o", FALSE, Good),
                             E("member", 2, "the_third_of_c.o", TRUE, Good)>>)
    @@ <<"d1", "bad">> :> [Ar(<<>>) EXCEPT !.magic = FALSE]
    @@ <<"d1", "late">> :> Ar(<<E("member", 2, "a_long_name.o", TRUE, Good), Strtab>>)
    @@ <<"d1", "odd">> :> [Ar(<<E("member", 2, "odd1.o", FALSE, Good),
                               E("member", 1, "odd2.o", FALSE, Good)>>) EXCEPT !.padded = FALSE]
    @@ <<"d1", "foreign">> :> Ar(<<E("member", 2, "f.o", FALSE, Foreign)>>)
=============================================================================

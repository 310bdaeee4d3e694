--------------------------- MODULE MCOutputLayout ---------------------------
(***************************************************************************)
(* An instance of OutputLayout for TLC: pages of 8 bytes, sections of less *)
(* than a page, of a page and more, and of more alignment than a page.     *)
(***************************************************************************)
EXTENDS OutputLayout

Osec(flags, size, align) == [flags |-> flags, size |-> size, align |-> align, osec |-> TRUE]

MCShapes ==
    {Osec({"alloc"}, 1, 1), Osec({"alloc"}, 3, 16), Osec({"alloc"}, 5, 32), Osec({"alloc"}, 12, 4),
     Osec({"alloc", "exec"}, 8, 2), Osec({"alloc", "exec"}, 0, 4),
     Osec({"alloc", "write"}, 0, 1), Osec({"alloc", "write"}, 3, 8),
     Osec({"alloc", "write", "tls"}, 3, 1), Osec({"alloc", "write", "tls"}, 2, 4),
     Osec({"exec"}, 2, 1),
     [flags |-> {}, size |-> 3, align |-> 2, osec |-> FALSE],
     [flags |-> {"alloc"}, size |-> 0, align |-> 1, osec |-> FALSE]}

\* Soft-float objects with and without compressed instructions, a hard-float one,
\* one of RVE, and no file but the synthetic one.
Soft == [NoEFlags EXCEPT !.rvc = TRUE]
MCKeptFlags ==
    {<<NoEFlags>>, <<NoEFlags, Soft, NoEFlags>>, <<[Soft EXCEPT !.float = "double"], NoEFlags>>,
     <<Soft, [Soft EXCEPT !.rve = TRUE], NoEFlags>>}

-----------------------------------------------------------------------------
\* What a comment in the source says, refuted by the code.

\* src/src/Output_chunk.cpp:114: "Add contiguous ALLOC sections as long as they
\* have the same section flags".  So the segment has all bytes of the sections
\* that were added to it.
SegmentsCover ==
    phase = "done" => \A c \in Loaded : SizeOf(c) # 0 =>
        \E s \in segments :
            /\ s.type = "load"
            /\ s.vaddr <= addr[c] /\ addr[c] + SizeOf(c) <= s.vaddr + s.memsz
=============================================================================

-------------------------- MODULE SymbolResolution --------------------------
(***************************************************************************)
(* Symbol resolution: the passes of Linking_context::Link from             *)
(* Put_global_symbol to Check_duplicate_smbols.  They decide which archive *)
(* members become part of the output and which definition every global     *)
(* symbol of every input file is bound to.                                 *)
(*                                                                         *)
(* A Symbol object lives in the global symbol map, inside the entry of the *)
(* file that inserted it; symbol_list holds plain pointers to such         *)
(* objects.  A pointer is modelled by the file that owns the object: it is *)
(* valid while the map still maps the name to that file.                   *)
(***************************************************************************)
EXTENDS Naturals, Sequences

CONSTANTS
    NumFiles,       \* number of files read from the command line and archives
    Symbols,        \* names of global symbols
    Entry,          \* ctx.special_symbols.entry_name, "_start"
    Optional,       \* "_fini" and "_init": bound when somebody defines them
    Synthetic,      \* the names that Add_synthetic_symbols defines
    Boundary,       \* those Bind_special_symbols binds: __bss_start and end
    SymbolTables    \* the symbol tables an input file may have

\* What the symbol table of a file says of a name.  "weak" is an undefined
\* weak symbol, "dropped" one defined in a section whose state is no_need.
Kinds == {"none", "undef", "weak", "def", "dropped", "common"}

\* A file that has no SHT_SYMTAB section: symbol_table() is nullptr.
NoSymtab == [s \in {} |-> "none"]

ASSUME NumFilesAssumption == NumFiles \in Nat
ASSUME SymbolsAssumption ==
    /\ Entry \in Symbols
    /\ Optional \subseteq Symbols
    /\ Synthetic \subseteq Symbols
    /\ Boundary \subseteq Synthetic
    /\ SymbolTables \subseteq [Symbols -> Kinds] \union {NoSymtab}

SyntheticFile == NumFiles + 1       \* "linker-synthetic_obj", appended last
Files == 1 .. SyntheticFile
NoFile == 0                         \* a null pointer
SyntheticTable == [s \in Symbols |-> IF s \in Synthetic THEN "def" ELSE "none"]
Special == {Entry} \union Optional \union Boundary

VARIABLES
    symtab,     \* symtab[f]: the global part of the symbol table of f
    numObj,     \* files 1 .. numObj are objects, the others archive members
    phase,      \* the pass that is running, or how the link ended
    next,       \* loop index of the passes that go through m_input_file
    definer,    \* m_global_symbol_map: the file whose Symbol the name maps to
    binding,    \* symbol_list of every file
    special,    \* ctx.special_symbols
    alive,      \* m_is_alive, as a set
    queue,      \* file_idx_queue of Resolve_symbols
    cur,        \* the file Reference_dependent_file works on
    todo,       \* its undefined symbols that are not bound yet
    files       \* m_input_file, as a set

inputs == <<symtab, numObj>>
vars == <<inputs, phase, next, definer, binding, special, alive, queue, cur,
          todo, files>>

-----------------------------------------------------------------------------
HasSymtab(f) == symtab[f] # NoSymtab

\* Is_sym_undef holds of weak references as well.
Undef(f, s) == HasSymtab(f) /\ symtab[f][s] \in {"undef", "weak"}

\* A definition Put_global_symbol inserts: absolute, or in a section in use.
Defines(f, s) == HasSymtab(f) /\ symtab[f][s] = "def"

Common(f) == HasSymtab(f) /\ \E s \in Symbols : symtab[f][s] = "common"

\* The pointer f holds for the name s points to a Symbol the map has destroyed.
Dangling(f, s) == binding[f][s] \notin {NoFile, definer[s]}

Passes == {"put", "bind", "seed", "resolve", "clear", "check"}
Failures == {"common symbol", "no entry symbol", "undefined symbol",
             "null symbol table", "duplicate symbols"}

-----------------------------------------------------------------------------
\* Add_synthetic_symbols and insert_object_file have run: objects come before
\* archive members, the synthetic object is last, and the members are not alive.
Init ==
    /\ \E t \in [1 .. NumFiles -> SymbolTables] :
         symtab = [f \in Files |-> IF f = SyntheticFile THEN SyntheticTable
                                                        ELSE t[f]]
    /\ numObj \in 0 .. NumFiles
    /\ phase = "put"
    /\ next = 1
    /\ definer = [s \in Symbols |-> NoFile]
    /\ binding = [f \in Files |-> [s \in Symbols |-> NoFile]]
    /\ special = [s \in Special |-> NoFile]
    /\ alive = {f \in Files : f <= numObj \/ f = SyntheticFile}
    /\ queue = <<>>
    /\ cur = NoFile
    /\ todo = {}
    /\ files = Files

\* FATALF, abort() or a crash: the process is gone.
Fail(reason) ==
    /\ phase' = reason
    /\ UNCHANGED <<inputs, next, definer, binding, special, alive, queue, cur,
                   todo, files>>

-----------------------------------------------------------------------------
(***************************************************************************)
(* Variants of the passes with a mistake in them.  No specification uses   *)
(* them: each shows that a property below notices the mistake.             *)
(***************************************************************************)
\* The loop does not stop at the last file.
NextFileTooFar(then) ==
    /\ phase' = IF next = SyntheticFile THEN then ELSE phase
    /\ next' = next + 1

\* The loop of a pass goes on to the next file; after the last, pass `then` runs.
NextFile(then) ==
    IF next = SyntheticFile THEN phase' = then /\ next' = 1
                            ELSE phase' = phase /\ next' = next + 1

\* The map overwrites an entry that is already there.
PutOverwrites ==
    /\ phase = "put"
    /\ ~Common(next)
    /\ definer' = [s \in Symbols |-> IF Defines(next, s) THEN next ELSE definer[s]]
    /\ binding' = [binding EXCEPT ![next] =
                     [s \in Symbols |-> IF Defines(next, s) THEN next ELSE NoFile]]
    /\ NextFile("bind")
    /\ UNCHANGED <<inputs, special, alive, queue, cur, todo, files>>

\* The file that owns the entry symbol is made alive without being queued.
BindMakesAlive ==
    /\ phase = "bind"
    /\ definer[Entry] # NoFile
    /\ special' = [s \in Special |-> definer[s]]
    /\ alive' = alive \union {definer[Entry]}
    /\ phase' = "seed"
    /\ UNCHANGED <<inputs, next, definer, binding, queue, cur, todo, files>>

\* front() without pop().
PopKeepsFront ==
    /\ phase = "resolve" /\ todo = {} /\ queue # <<>>
    /\ HasSymtab(Head(queue))
    /\ cur' = Head(queue)
    /\ todo' = {s \in Symbols : Undef(cur', s) /\ binding[cur'][s] = NoFile}
    /\ UNCHANGED <<inputs, phase, next, definer, binding, special, alive, queue, files>>

\* reference_file queues without the test of is_alive.
ReferenceQueuesAlways ==
    /\ phase = "resolve"
    /\ \E s \in todo :
         /\ definer[s] # NoFile
         /\ binding' = [binding EXCEPT ![cur][s] = definer[s]]
         /\ queue' = Append(queue, definer[s])
         /\ alive' = alive \union {definer[s]}
         /\ todo' = todo \ {s}
    /\ UNCHANGED <<inputs, phase, next, definer, special, cur, files>>

\* The symbol is bound but reference_file is not called.
ReferenceBindsOnly ==
    /\ phase = "resolve"
    /\ \E s \in todo :
         /\ definer[s] # NoFile
         /\ binding' = [binding EXCEPT ![cur][s] = definer[s]]
         /\ todo' = todo \ {s}
    /\ UNCHANGED <<inputs, phase, next, definer, special, alive, queue, cur, files>>

\* is_alive is cleared before the loop over the map.
ClearForgetsFirst ==
    /\ phase = "clear"
    /\ files' = files \intersect alive
    /\ definer' = [s \in Symbols |-> NoFile]
    /\ alive' = {}
    /\ phase' = "check"
    /\ UNCHANGED <<inputs, next, binding, special, queue, cur, todo>>

\* The check does not ask whose Symbol it is, only whether there is one; or it
\* leaves out the test for the file's own Symbol.
ClashesIfUnbound(f) == {s \in Symbols : Defines(f, s) /\ binding[f][s] = NoFile}
ClashesWithItself(f) == {s \in Symbols : Defines(f, s)}

\* Put_global_symbol of one file.  The map's insert keeps an entry that is
\* already there, and symbol_list gets the Symbol of the entry, whoever put it.
PutCommonSymbol ==
    /\ phase = "put"
    /\ Common(next)
    /\ Fail("common symbol")

PutGlobalSymbol ==
    /\ phase = "put"
    /\ ~Common(next)
    /\ definer' = [s \in Symbols |->
                     IF definer[s] = NoFile /\ Defines(next, s) THEN next
                                                                ELSE definer[s]]
    /\ binding' = [binding EXCEPT ![next] =
                     [s \in Symbols |-> IF Defines(next, s) THEN definer'[s]
                                                            ELSE NoFile]]
    /\ NextFile("bind")
    /\ UNCHANGED <<inputs, special, alive, queue, cur, todo, files>>

BindWithoutEntry ==
    /\ phase = "bind"
    /\ definer[Entry] = NoFile
    /\ Fail("no entry symbol")

\* Bind_special_symbols takes the pointers; it makes no file alive.
BindSpecialSymbols ==
    /\ phase = "bind"
    /\ definer[Entry] # NoFile
    /\ special' = [s \in Special |-> definer[s]]
    /\ phase' = "seed"
    /\ UNCHANGED <<inputs, next, definer, binding, alive, queue, cur, todo, files>>

\* Resolve_symbols first queues the files that are alive, in their order.
SeedQueue ==
    /\ phase = "seed"
    /\ queue' = IF next \in alive THEN Append(queue, next) ELSE queue
    /\ NextFile("resolve")
    /\ UNCHANGED <<inputs, definer, binding, special, alive, cur, todo, files>>

\* Resolve_symbols takes the file at the front of the queue and calls
\* Reference_dependent_file on it, which asks for the count of its symbol table.
NextReferencing ==
    /\ phase = "resolve"
    /\ todo = {}
    /\ queue # <<>>

PopFileWithoutSymtab ==
    /\ NextReferencing
    /\ ~HasSymtab(Head(queue))
    /\ Fail("null symbol table")

PopFile ==
    /\ NextReferencing
    /\ HasSymtab(Head(queue))
    /\ cur' = Head(queue)
    /\ queue' = Tail(queue)
    /\ todo' = {s \in Symbols : Undef(cur', s) /\ binding[cur'][s] = NoFile}
    /\ UNCHANGED <<inputs, phase, next, definer, binding, special, alive, files>>

\* The loop of Reference_dependent_file, one undefined symbol at a time, in any
\* order since the order of a symbol table is any.
ReferenceUndefined ==
    /\ phase = "resolve"
    /\ \E s \in todo : definer[s] = NoFile
    /\ Fail("undefined symbol")

ReferenceFile ==
    /\ phase = "resolve"
    /\ \E s \in todo :
         /\ definer[s] # NoFile
         /\ binding' = [binding EXCEPT ![cur][s] = definer[s]]
         /\ queue' = IF definer[s] \in alive THEN queue
                                             ELSE Append(queue, definer[s])
         /\ alive' = alive \union {definer[s]}
         /\ todo' = todo \ {s}
    /\ UNCHANGED <<inputs, phase, next, definer, special, cur, files>>

ResolveDone ==
    /\ phase = "resolve"
    /\ todo = {}
    /\ queue = <<>>
    /\ phase' = "clear"
    /\ UNCHANGED <<inputs, next, definer, binding, special, alive, queue, cur,
                   todo, files>>

\* Clear_unused_resources erases dead files and the map entries they own, and
\* with an entry its Symbol.  Pointers to these Symbols stay where they are.
ClearUnusedResources ==
    /\ phase = "clear"
    /\ files' = files \intersect alive
    /\ definer' = [s \in Symbols |-> IF definer[s] \in alive THEN definer[s]
                                                             ELSE NoFile]
    /\ alive' = {}
    /\ phase' = "check"
    /\ UNCHANGED <<inputs, next, binding, special, queue, cur, todo>>

\* Check_duplicate_smbols asks whose Symbol a definition is bound to.  Reading
\* a destroyed Symbol gives anything, the file that is checked included.
Clashes(f) == {s \in Symbols : Defines(f, s) /\ binding[f][s] # f}

CheckFindsDuplicate ==
    /\ phase = "check"
    /\ next \in files
    /\ Clashes(next) # {}
    /\ Fail("duplicate symbols")

CheckDuplicateSymbols ==
    /\ phase = "check"
    /\ next \in files => \A s \in Clashes(next) : Dangling(next, s)
    /\ NextFile("done")
    /\ UNCHANGED <<inputs, definer, binding, special, alive, queue, cur, todo, files>>

Ended == phase \in {"done"} \union Failures

\* The process has ended, or linking goes on with the sections.
Terminated == Ended /\ UNCHANGED vars

Next ==
    \/ PutCommonSymbol \/ PutGlobalSymbol
    \/ BindWithoutEntry \/ BindSpecialSymbols
    \/ SeedQueue
    \/ PopFileWithoutSymtab \/ PopFile
    \/ ReferenceUndefined \/ ReferenceFile \/ ResolveDone
    \/ ClearUnusedResources
    \/ CheckFindsDuplicate \/ CheckDuplicateSymbols
    \/ Terminated

Spec == Init /\ [][Next]_vars

\* One thread runs the passes one after the other and never waits.
FairSpec == Spec /\ WF_vars(Next)

-----------------------------------------------------------------------------
TypeOK ==
    /\ symtab \in [Files -> [Symbols -> Kinds] \union {NoSymtab}]
    /\ numObj \in 0 .. NumFiles
    /\ phase \in Passes \union {"done"} \union Failures
    /\ next \in Files
    /\ definer \in [Symbols -> Files \union {NoFile}]
    /\ binding \in [Files -> [Symbols -> Files \union {NoFile}]]
    /\ special \in [Special -> Files \union {NoFile}]
    /\ alive \subseteq Files
    /\ queue \in Seq(Files)
    /\ cur \in Files \union {NoFile}
    /\ todo \subseteq Symbols
    /\ files \subseteq Files

-----------------------------------------------------------------------------
Definers(s) == {f \in Files : Defines(f, s)}

\* The earliest file that defines s: objects first, then members, as loaded.
IsFirstDefiner(f, s) == f \in Definers(s) /\ \A g \in Definers(s) : f <= g

\* The files that the undefined symbols of f stand for.
Refers(f) == {g \in Files : \E s \in Symbols : Undef(f, s) /\ IsFirstDefiner(g, s)}

Objects == {f \in Files : f <= numObj \/ f = SyntheticFile}
Cleared == phase \in {"check", "done", "duplicate symbols"}
Kept == IF Cleared THEN files ELSE alive
Queued == {queue[i] : i \in 1 .. Len(queue)}

\* The work list of Resolve_symbols: no file is in it twice, every file in it
\* is alive and none of its undefined symbols has been bound, so that no file
\* is handled twice (reference_file tests and sets is_alive for that).
WorkListSound ==
    /\ \A i, j \in 1 .. Len(queue) : queue[i] = queue[j] => i = j
    /\ Queued \subseteq alive
    /\ \A f \in Queued : \A s \in Symbols : Undef(f, s) => binding[f][s] = NoFile

\* Once the dead files are gone, every undefined symbol of every file left is
\* bound to a Symbol that still exists, that of the earliest definition among
\* all the files read, and the file it belongs to is in the output as well.
ReferencesBound ==
    Cleared => \A f \in files, s \in Symbols :
        Undef(f, s) => /\ binding[f][s] \in files
                       /\ IsFirstDefiner(binding[f][s], s)
                       /\ ~Dangling(f, s)

\* The only pointers to destroyed Symbols are those of definitions in a file
\* that is kept while an earlier definition of the name, in an archive member
\* nobody needed, took the map entry; and there the pointer does dangle.
DanglingExactly ==
    Cleared => \A f \in files, s \in Symbols :
        Dangling(f, s) <=> /\ Defines(f, s)
                           /\ \E g \in Files \ files : IsFirstDefiner(g, s)

\* When the link goes on, two files of the output define the same name only if
\* both definitions are bound to a destroyed Symbol: Check_duplicate_smbols
\* lets no other clash through.
UniqueDefinition ==
    phase = "done" => \A f, g \in files, s \in Symbols :
        f # g /\ Defines(f, s) /\ Defines(g, s) => Dangling(f, s) /\ Dangling(g, s)

\* An archive member that is not the first to define any name never becomes
\* part of the link.  The makefile names libgcc.a twice: of its second copy
\* nothing is ever used.
ShadowedNeverKept ==
    \A f \in Files \ Objects :
        (\A s \in Symbols : ~IsFirstDefiner(f, s)) => f \notin Kept

\* An error message tells the truth: there is a common symbol, nobody defines
\* the entry, a file needed by the objects refers to a name nobody defines, a
\* needed file has no symbol table, two files define a name.
ErrorsAreReal ==
    /\ phase = "common symbol" => \E f \in Files : Common(f)
    /\ phase = "no entry symbol" => Definers(Entry) = {}
    /\ phase = "undefined symbol" =>
         \E f \in Kept, s \in Symbols : Undef(f, s) /\ Definers(s) = {}
    /\ phase = "null symbol table" => \E f \in Kept : ~HasSymtab(f)
    /\ phase = "duplicate symbols" =>
         \E f \in files, g \in Files, s \in Symbols :
            f # g /\ Defines(f, s) /\ Defines(g, s)

\* Whatever the order of the queue and of the symbol tables, the files kept
\* are the least set that holds the objects and is closed under references:
\* the passes implement ReferenceClosure.
Closure == INSTANCE ReferenceClosure WITH
    roots <- Objects,
    refers <- [f \in Files |-> Refers(f)],
    kept <- Kept,
    status <- CASE phase \in Failures -> "stopped"
                [] phase \in {"check", "done"} -> "settled"
                [] OTHER -> "running"

ImplementsClosure == Closure!Spec

\* The passes come to an end: the queue is empty at last.
Termination == <>Ended
=============================================================================

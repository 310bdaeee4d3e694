----------------------------- MODULE InputFiles -----------------------------
(***************************************************************************)
(* What is linked: the constructor of Linking_context reads the command    *)
(* line, looks for the libraries, and reads the object files and then the  *)
(* archives into m_rel_file.                                               *)
(*                                                                         *)
(* An argument has a kind, as Parse_args tells them apart, and a value.    *)
(* An archive is the sequence of its entries; their data begins at even    *)
(* offsets, so that an entry of odd size is followed by a byte of padding. *)
(***************************************************************************)
EXTENDS Integers, FiniteSetsExt, Selection

CONSTANTS
    ArgLists,       \* the command lines, sequences of arguments
    Machines,       \* what an e_machine may be
    Objects,        \* Objects[path]: the object files there are
    Archives,       \* Archives[<<dir, name>>]: the file dir/lib<name>.a
    MagicSize,      \* bytes of ARCHIVE_FILE_MAGIC
    HeaderSize      \* bytes of an Archive_file_header

\* "other" is any argument that begins with a dash and is none of the others,
\* -m, -L and -l without a value among them; "plain" begins with no dash.
ArgKinds == {"output", "info", "machine", "directory", "library", "other", "plain"}
Arg == [kind : ArgKinds, val : STRING]
Unknown == "unknown"

\* What is read of an object file: Get_file_type and e_machine.
Object == [rel : BOOLEAN, machine : STRING]

\* The long names of an archive are in its string table.
EntryKinds == {"symtab", "strtab", "member"}
Entry == [kind : EntryKinds, size : Nat, name : STRING, long : BOOLEAN, object : Object]

ASSUME ArgumentsAssumption == ArgLists \subseteq Seq(Arg) /\ Unknown \notin Machines

\* padded: there is a padding byte behind the last entry, if its size is odd.
ASSUME FilesAssumption ==
    /\ \A path \in DOMAIN Objects : Objects[path] \in Object
    /\ \A path \in DOMAIN Archives :
         Archives[path] \in [magic : BOOLEAN, entries : Seq(Entry), padded : BOOLEAN]
    /\ {MagicSize, HeaderSize} \subseteq Nat \ {0}

VARIABLES
    args,       \* argv
    phase,      \* what is running, or how it ended
    at,         \* loop index of Parse_args and of the loop over the objects
    named,      \* output_file of Parse_args, a pointer into argv: 0 if there is no -o
    options,    \* m_link_option_args
    dir, lib,   \* loop indices of Find_libraries
    libraries,  \* libraries found, by the indices of directory and name
    archive,    \* loop index over them
    pos,        \* position in the archive
    names,      \* str_tbl_sec has been read
    inputs      \* m_rel_file, with m_is_alive

parseVars == <<args, named, options>>
findVars == <<dir, lib, libraries>>
readVars == <<archive, pos, names>>
vars == <<parseVars, phase, at, findVars, readVars, inputs>>

-----------------------------------------------------------------------------
Failures == {"no_output", "no_archive", "no_library", "no_file",
             "not_relocatable", "wrong_machine", "short_read", "null_pointer"}
Phases == {"parse", "find", "objects", "archives", "done"} \union Failures

PathOf(found) == <<options.directories[found[1]], options.libraries[found[2]]>>
Current == Archives[PathOf(libraries[archive])]

\* Where the entries of an archive begin, the end being that of one more.
Even(n) == n + (n % 2)
Start(a) ==
    LET start[n \in 1 .. Len(a.entries) + 1] ==
            IF n = 1 THEN MagicSize
            ELSE start[n - 1] + HeaderSize + Even(a.entries[n - 1].size)
    IN  start

\* The size of the file: the padding at the end may be missing.
FileSize(a) ==
    LET last == Len(a.entries) IN
    IF last = 0 \/ a.padded THEN Start(a)[last + 1]
    ELSE Start(a)[last] + HeaderSize + a.entries[last].size

EntryAt(a, p) == a.entries[CHOOSE n \in DOMAIN a.entries : Start(a)[n] = p]

\* A file of m_rel_file: where it comes from, its name, and whether it is alive.
FromObject(path) == [path |-> <<path>>, name |-> path, alive |-> TRUE]
FromArchive(path, name) == [path |-> path, name |-> name, alive |-> FALSE]

-----------------------------------------------------------------------------
\* Parse_args forgets what main() has set.
Init ==
    /\ args \in ArgLists
    /\ phase = "parse"
    /\ at = 1
    /\ named = 0
    /\ options = [directories |-> <<>>, libraries |-> <<>>, objects |-> <<>>,
                  output |-> "a.out", machine |-> Unknown]
    /\ dir = 1 /\ lib = 1 /\ libraries = <<>>
    /\ archive = 1 /\ pos = 0 /\ names = FALSE
    /\ inputs = <<>>

Fail(reason) ==
    /\ phase' = reason
    /\ UNCHANGED <<parseVars, at, findVars, readVars, inputs>>

(***************************************************************************)
(* Parse_args, argument by argument.                                       *)
(***************************************************************************)
Parsing(kind) == phase = "parse" /\ at <= Len(args) /\ args[at].kind = kind

Take(newOptions) ==
    /\ options' = newOptions
    /\ at' = at + 1
    /\ UNCHANGED <<args, phase, named, findVars, readVars, inputs>>

\* The next argument is the name of the output, whatever it looks like.  A
\* mistake: it is not skipped.
ParseOutputOnly ==
    /\ Parsing("output") /\ at < Len(args)
    /\ named' = at + 1
    /\ at' = at + 1
    /\ UNCHANGED <<args, phase, options, findVars, readVars, inputs>>

ParseOutput ==
    /\ Parsing("output") /\ at < Len(args)
    /\ named' = at + 1
    /\ at' = at + 2
    /\ UNCHANGED <<args, phase, options, findVars, readVars, inputs>>

ParseOutputMissing == Parsing("output") /\ at = Len(args) /\ Fail("no_output")

\* -v and -h return at once: the name of the output is not set.
ParseInfo ==
    /\ Parsing("info")
    /\ phase' = "find"
    /\ UNCHANGED <<parseVars, at, findVars, readVars, inputs>>

ParseMachine ==
    /\ Parsing("machine")
    /\ Take([options EXCEPT !.machine =
               IF args[at].val \in Machines THEN args[at].val ELSE Unknown])

ParseDirectory ==
    /\ Parsing("directory")
    /\ Take([options EXCEPT !.directories = Append(@, args[at].val)])

ParseLibrary ==
    /\ Parsing("library")
    /\ Take([options EXCEPT !.libraries = Append(@, args[at].val)])

\* Another flag takes what follows up to the next dash for its values.
NextFlag == Min({n \in at + 1 .. Len(args) + 1 : n > Len(args) \/ args[n].kind # "plain"})

\* A mistake: the argument that ended the loop is skipped as well.
SkipFlagToo ==
    /\ Parsing("other")
    /\ at' = NextFlag + 1
    /\ UNCHANGED <<parseVars, phase, findVars, readVars, inputs>>

SkipFlag ==
    /\ Parsing("other")
    /\ at' = NextFlag
    /\ UNCHANGED <<parseVars, phase, findVars, readVars, inputs>>

ParseObject ==
    /\ Parsing("plain")
    /\ Take([options EXCEPT !.objects = Append(@, args[at].val)])

ParseDone ==
    /\ phase = "parse" /\ at > Len(args)
    /\ options' = [options EXCEPT !.output = IF named = 0 THEN @ ELSE args[named].val]
    /\ phase' = "find"
    /\ UNCHANGED <<args, at, named, findVars, readVars, inputs>>

-----------------------------------------------------------------------------
(***************************************************************************)
(* Find_libraries: for every directory, for every name not found yet.      *)
(***************************************************************************)
Looking ==
    phase = "find" /\ dir <= Len(options.directories) /\ lib <= Len(options.libraries)

\* A mistake: what has been found is looked for again.
FoundNever(l) == FALSE

Found(l) == \E n \in DOMAIN libraries : libraries[n][2] = l

NextLibrary ==
    IF lib < Len(options.libraries) THEN lib' = lib + 1 /\ dir' = dir
                                    ELSE lib' = 1 /\ dir' = dir + 1

LookElsewhere ==
    /\ Looking
    /\ Found(lib) \/ PathOf(<<dir, lib>>) \notin DOMAIN Archives
    /\ NextLibrary
    /\ UNCHANGED <<parseVars, phase, at, libraries, readVars, inputs>>

LibraryIsNoArchive ==
    /\ Looking
    /\ ~Found(lib) /\ PathOf(<<dir, lib>>) \in DOMAIN Archives
    /\ ~Archives[PathOf(<<dir, lib>>)].magic
    /\ Fail("no_archive")

FindLibrary ==
    /\ Looking
    /\ ~Found(lib) /\ PathOf(<<dir, lib>>) \in DOMAIN Archives
    /\ Archives[PathOf(<<dir, lib>>)].magic
    /\ libraries' = Append(libraries, <<dir, lib>>)
    /\ NextLibrary
    /\ UNCHANGED <<parseVars, phase, at, readVars, inputs>>

LibraryMissing ==
    /\ phase = "find" /\ ~Looking
    /\ \E l \in DOMAIN options.libraries : ~Found(l)
    /\ Fail("no_library")

LibrariesFound ==
    /\ phase = "find" /\ ~Looking
    /\ \A l \in DOMAIN options.libraries : Found(l)
    /\ phase' = "objects"
    /\ at' = 1
    /\ UNCHANGED <<parseVars, findVars, readVars, inputs>>

-----------------------------------------------------------------------------
(***************************************************************************)
(* Collect_rel_file_content: the object files, then the archives.  Both    *)
(* refuse what is no relocatable file, and insert_object_file what is for  *)
(* another machine.                                                        *)
(***************************************************************************)
\* object is a file about to be inserted, or refused.
Refuse(object) ==
    IF ~object.rel THEN Fail("not_relocatable")
                   ELSE object.machine # options.machine /\ Fail("wrong_machine")

Fits(object) == object.rel /\ object.machine = options.machine

ReadingObject == phase = "objects" /\ at <= Len(options.objects)
ThisObject == options.objects[at]

ObjectMissing ==
    ReadingObject /\ ThisObject \notin DOMAIN Objects /\ Fail("no_file")

RefuseObject ==
    ReadingObject /\ ThisObject \in DOMAIN Objects /\ Refuse(Objects[ThisObject])

ReadObject ==
    /\ ReadingObject /\ ThisObject \in DOMAIN Objects
    /\ Fits(Objects[ThisObject])
    /\ inputs' = Append(inputs, FromObject(ThisObject))
    /\ at' = at + 1
    /\ UNCHANGED <<parseVars, phase, findVars, readVars>>

ObjectsRead ==
    /\ phase = "objects" /\ at > Len(options.objects)
    /\ phase' = "archives"
    /\ UNCHANGED <<parseVars, at, findVars, readVars, inputs>>

\* Load_archived_file_section, entry by entry.  pos is 0 while no archive is open.
Reading == phase = "archives" /\ archive <= Len(libraries) /\ pos # 0
ReadingEntry == Reading /\ pos + HeaderSize <= FileSize(Current)
ThisEntry == EntryAt(Current, pos)
EntryEnd == pos + HeaderSize + Even(ThisEntry.size)

\* A mistake: everything whose name begins with "/" is taken for a symbol table.
IsSymtabOrLong(e) == e.kind \in {"symtab", "strtab"} \/ e.long

\* Is_symtab
IsSymtab(e) == e.kind = "symtab"

OpenArchive ==
    /\ phase = "archives" /\ archive <= Len(libraries) /\ pos = 0
    /\ pos' = MagicSize
    /\ names' = FALSE
    /\ UNCHANGED <<parseVars, phase, at, findVars, archive, inputs>>

EntryTruncated == ReadingEntry /\ EntryEnd > FileSize(Current) /\ Fail("short_read")

SkipSymtab ==
    /\ ReadingEntry /\ EntryEnd <= FileSize(Current)
    /\ IsSymtab(ThisEntry)
    /\ pos' = EntryEnd
    /\ UNCHANGED <<parseVars, phase, at, findVars, archive, names, inputs>>

ReadStrtab ==
    /\ ReadingEntry /\ EntryEnd <= FileSize(Current)
    /\ ~IsSymtab(ThisEntry) /\ ThisEntry.kind = "strtab"
    /\ names' = TRUE
    /\ pos' = EntryEnd
    /\ UNCHANGED <<parseVars, phase, at, findVars, archive, inputs>>

ReadingMember ==
    /\ ReadingEntry /\ EntryEnd <= FileSize(Current)
    /\ ~IsSymtab(ThisEntry) /\ ThisEntry.kind = "member"

\* Read_archive_scetion_name looks a long name up through a null pointer, if
\* the string table has not been read.
NameMissing ==
    ReadingMember /\ ThisEntry.object.rel /\ ThisEntry.long /\ ~names /\ Fail("null_pointer")

NameKnown == ~ThisEntry.long \/ names

RefuseMember == ReadingMember /\ (ThisEntry.object.rel => NameKnown) /\ Refuse(ThisEntry.object)

ReadMember ==
    /\ ReadingMember /\ NameKnown
    /\ Fits(ThisEntry.object)
    /\ inputs' = Append(inputs, FromArchive(PathOf(libraries[archive]), ThisEntry.name))
    /\ pos' = EntryEnd
    /\ UNCHANGED <<parseVars, phase, at, findVars, archive, names>>

\* A header cannot be read any more: the end of the file.
CloseArchive ==
    /\ Reading /\ pos + HeaderSize > FileSize(Current)
    /\ pos' = 0
    /\ archive' = archive + 1
    /\ UNCHANGED <<parseVars, phase, at, findVars, names, inputs>>

CollectDone ==
    /\ phase = "archives" /\ archive > Len(libraries)
    /\ phase' = "done"
    /\ UNCHANGED <<parseVars, at, findVars, readVars, inputs>>

Ended == phase \in {"done"} \union Failures
Terminated == Ended /\ UNCHANGED vars

Next ==
    \/ ParseOutput \/ ParseOutputMissing \/ ParseInfo \/ ParseMachine
    \/ ParseDirectory \/ ParseLibrary \/ SkipFlag \/ ParseObject \/ ParseDone
    \/ LookElsewhere \/ LibraryIsNoArchive \/ FindLibrary
    \/ LibraryMissing \/ LibrariesFound
    \/ ObjectMissing \/ RefuseObject \/ ReadObject \/ ObjectsRead
    \/ OpenArchive \/ EntryTruncated \/ SkipSymtab \/ ReadStrtab
    \/ NameMissing \/ RefuseMember \/ ReadMember \/ CloseArchive \/ CollectDone
    \/ Terminated

Spec == Init /\ [][Next]_vars

-----------------------------------------------------------------------------
Paths == {<<path>> : path \in DOMAIN Objects} \union DOMAIN Archives

OptionTypes ==
    /\ args \in ArgLists
    /\ named \in 0 .. Len(args)
    /\ options \in [directories : Seq(STRING), libraries : Seq(STRING),
                    objects : Seq(STRING), output : STRING \union {"a.out"},
                    machine : Machines \union {Unknown}]
LoopTypes ==
    /\ phase \in Phases
    /\ at \in Nat \ {0}
    /\ phase = "parse" => at <= Len(args) + 1
    /\ phase = "objects" => at <= Len(options.objects) + 1
    /\ dir \in 1 .. Len(options.directories) + 1
    /\ lib = 1 \/ lib \in 1 .. Len(options.libraries)
LibraryTypes ==
    /\ libraries \in Seq((DOMAIN options.directories) \X DOMAIN options.libraries)
    /\ \A n \in DOMAIN libraries : PathOf(libraries[n]) \in DOMAIN Archives
ReadTypes ==
    /\ archive \in 1 .. Len(libraries) + 1
    /\ pos = 0 \/ /\ archive <= Len(libraries)
                  /\ \E n \in 1 .. Len(Current.entries) + 1 : pos = Start(Current)[n]
    /\ names \in BOOLEAN
    /\ inputs \in Seq([path : Paths, name : STRING, alive : BOOLEAN])

\* Every variable has its type; a position in an archive is where an entry begins.
TypeOK == OptionTypes /\ LoopTypes /\ LibraryTypes /\ ReadTypes

-----------------------------------------------------------------------------
(***************************************************************************)
(* The command line, read as a whole: an argument is the name of an output *)
(* file, comes after -v or -h, is a value of a flag that is not known, or  *)
(* is given.                                                               *)
(***************************************************************************)
NamesOutput[n \in 1 .. Len(args)] ==
    n > 1 /\ args[n - 1].kind = "output" /\ ~NamesOutput[n - 1]

Stop == Min({n \in 1 .. Len(args) : args[n].kind = "info" /\ ~NamesOutput[n]}
              \union {Len(args) + 1})

ValueOfFlag(n) ==
    /\ args[n].kind = "plain"
    /\ \E m \in 1 .. n - 1 : /\ args[m].kind = "other" /\ ~NamesOutput[m]
                             /\ \A l \in m + 1 .. n - 1 : args[l].kind = "plain"

Given(kind) ==
    {n \in 1 .. Stop - 1 : args[n].kind = kind /\ ~NamesOutput[n] /\ ~ValueOfFlag(n)}
Values(kind) ==
    [n \in 1 .. Cardinality(Given(kind)) |-> args[Nth(Given(kind), n)].val]

\* Parse_args has done when it returns what the command line says, read as a
\* whole; the name of the output is that of the last -o, unless -v or -h is given.
OptionsRead ==
    phase \notin {"parse", "no_output"} =>
        /\ options.directories = Values("directory")
        /\ options.libraries = Values("library")
        /\ options.objects = Values("plain")
        /\ options.machine = IF Given("machine") = {} THEN Unknown
                             ELSE LET val == args[Max(Given("machine"))].val
                                  IN  IF val \in Machines THEN val ELSE Unknown
        /\ options.output = IF Stop <= Len(args) \/ Given("output") = {} THEN "a.out"
                            ELSE args[Max(Given("output")) + 1].val

FirstDirectory(l) ==
    {d \in DOMAIN options.directories :
       /\ PathOf(<<d, l>>) \in DOMAIN Archives
       /\ \A e \in 1 .. d - 1 : PathOf(<<e, l>>) \notin DOMAIN Archives}

\* Find_libraries takes a library from the first directory that has it, once,
\* in the order of directories and, within one, of names; it misses none.
TakenInOrder ==
    /\ \A n \in DOMAIN libraries :
         /\ libraries[n][1] \in FirstDirectory(libraries[n][2])
         /\ \A m \in 1 .. n - 1 :
              /\ libraries[m][2] # libraries[n][2]
              /\ libraries[m][1] <= libraries[n][1]
              /\ libraries[m][1] = libraries[n][1] => libraries[m][2] < libraries[n][2]
    /\ phase \in {"objects", "archives", "done"} =>
         \A l \in DOMAIN options.libraries : Found(l)

\* The members of all the libraries, by library and entry.
EntriesOf(n) == Archives[PathOf(libraries[n])].entries
Members ==
    UNION {{n} \X {i \in DOMAIN EntriesOf(n) : EntriesOf(n)[i].kind = "member"} :
             n \in DOMAIN libraries}
Earlier(p, q) == p[1] < q[1] \/ (p[1] = q[1] /\ p[2] < q[2])
MembersBefore(p) == {q \in Members : Earlier(q, p)}

\* m_rel_file holds the object files, alive, in the order they are given; then
\* the members of the libraries, not alive and under their own names, in the
\* order of the libraries and of the members in each.
InputsComplete ==
    /\ TakenInOrder
    /\ phase = "done" =>
         LET count == Len(options.objects) IN
         /\ Len(inputs) = count + Cardinality(Members)
         /\ \A n \in 1 .. count : inputs[n] = FromObject(options.objects[n])
         /\ \A p \in Members :
              inputs[count + Cardinality(MembersBefore(p)) + 1] =
                FromArchive(PathOf(libraries[p[1]]), EntriesOf(p[1])[p[2]].name)

\* Everything read so far, in both loops.
Refused(test(_)) ==
    \/ \E path \in {options.objects[n] : n \in DOMAIN options.objects} :
         path \in DOMAIN Objects /\ test(Objects[path])
    \/ \E n \in DOMAIN libraries :
         LET entries == Archives[PathOf(libraries[n])].entries IN
         \E i \in DOMAIN entries : entries[i].kind = "member" /\ test(entries[i].object)

\* The linker stops only for what is wrong with the command line or a file: a
\* string table that comes after a long name included.
ErrorsAreReal ==
    /\ phase = "no_output" => args[Len(args)].kind = "output" /\ ~NamesOutput[Len(args)]
    /\ phase = "no_archive" =>
         \E l \in DOMAIN options.libraries : \E d \in FirstDirectory(l) :
             ~Archives[PathOf(<<d, l>>)].magic
    /\ phase = "no_library" =>
         \E l \in DOMAIN options.libraries : FirstDirectory(l) = {}
    /\ phase = "no_file" =>
         \E n \in DOMAIN options.objects : options.objects[n] \notin DOMAIN Objects
    /\ phase = "not_relocatable" => Refused(LAMBDA o : ~o.rel)
    /\ phase = "wrong_machine" => Refused(LAMBDA o : o.machine # options.machine)
    /\ phase = "short_read" =>
         LET entries == Current.entries IN
         entries # <<>> /\ entries[Len(entries)].size % 2 = 1 /\ ~Current.padded
    /\ phase = "null_pointer" =>
         LET entries == Current.entries IN
         \E n \in DOMAIN entries :
             entries[n].long /\ \A m \in 1 .. n - 1 : entries[m].kind # "strtab"
=============================================================================

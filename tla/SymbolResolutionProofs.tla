----------------------- MODULE SymbolResolutionProofs -----------------------
(***************************************************************************)
(* Symbol resolution is correct for every number of files, every set of    *)
(* names and all symbol tables: the invariants SymbolResolution states     *)
(* hold, and it implements ReferenceClosure.                               *)
(*                                                                         *)
(* None of the invariants is inductive by itself.  IInv adds what the      *)
(* passes know of each other: the map holds the first definer of all the   *)
(* files put so far (MapInv), which pointers are set by which pass         *)
(* (BindInv), that a name a live file still has to bind belongs to a file  *)
(* in the queue or to the file at hand (ListInv), why a file is alive      *)
(* (AliveInv), what is left of the map when the dead files are gone        *)
(* (ClearedInv), and how far the search for duplicates has come (CheckInv).*)
(***************************************************************************)
EXTENDS SymbolResolution, TLAPS

\* The states before the dead files are removed, those after a common symbol
\* excepted, where Put_global_symbol was left half way.
Uncleared == phase \in {"put", "bind", "seed", "resolve", "clear",
                        "no entry symbol", "undefined symbol", "null symbol table"}

\* Put_global_symbol has run on f.
IsPut(f) == phase = "put" => f < next

MapInv ==
    Uncleared => \A s \in Symbols :
        /\ definer[s] # NoFile => Defines(definer[s], s) /\ IsPut(definer[s])
        /\ \A f \in Files : Defines(f, s) /\ IsPut(f) =>
             definer[s] # NoFile /\ definer[s] <= f

BindInv ==
    Uncleared => \A f \in Files, s \in Symbols :
        /\ Defines(f, s) /\ IsPut(f) => binding[f][s] = definer[s]
        /\ binding[f][s] # NoFile /\ ~Defines(f, s) =>
             /\ phase \notin {"put", "bind", "seed"}
             /\ binding[f][s] = definer[s]
             /\ Undef(f, s)
             /\ f \in alive
             /\ definer[s] \in alive

AliveInv ==
    /\ Uncleared => files = Files /\ Objects \subseteq alive
    /\ phase \in {"put", "bind", "seed"} => alive = Objects
    /\ \A f \in Kept \ Objects : \E s \in Symbols : IsFirstDefiner(f, s)

ListInv ==
    /\ phase \in {"bind", "resolve", "clear"} => next = 1
    /\ phase \in {"put", "bind"} => queue = <<>>
    /\ phase \in {"put", "bind", "seed"} => todo = {}
    /\ phase = "seed" => Queued = {f \in alive : f < next}
    /\ phase = "resolve" =>
         /\ \A f \in alive, s \in Symbols :
              Undef(f, s) /\ binding[f][s] = NoFile =>
                f \in Queued \/ (f = cur /\ s \in todo)
         /\ \A s \in todo : /\ cur \in alive
                            /\ cur \notin Queued
                            /\ Undef(cur, s)
                            /\ binding[cur][s] = NoFile
    /\ phase \in {"clear", "check", "done", "duplicate symbols"} => queue = <<>>
    /\ phase = "clear" => \A f \in alive, s \in Symbols :
         Undef(f, s) => binding[f][s] # NoFile

ClearedInv ==
    Cleared => \A s \in Symbols :
        /\ \A f \in files : IsFirstDefiner(f, s) => definer[s] = f
        /\ definer[s] # NoFile => definer[s] \in files
        /\ \A f \in files :
             /\ Defines(f, s) => IsFirstDefiner(binding[f][s], s)
             /\ Undef(f, s) => binding[f][s] \in files /\ IsFirstDefiner(binding[f][s], s)
             /\ ~Defines(f, s) /\ ~Undef(f, s) => binding[f][s] = NoFile

CheckInv ==
    phase \in {"check", "done"} => \A f \in files :
        phase = "done" \/ f < next => \A s \in Clashes(f) : Dangling(f, s)

IInv == /\ TypeOK /\ MapInv /\ BindInv /\ AliveInv /\ WorkListSound /\ ListInv
        /\ ClearedInv /\ CheckInv /\ ErrorsAreReal

-----------------------------------------------------------------------------
(***************************************************************************)
(* Facts used in all the proofs.                                           *)
(***************************************************************************)

\* The synthetic object is an input file, and a null pointer is not one.
LEMMA FilesFacts ==
    /\ \A f \in Files : f \in Nat /\ f >= 1
    /\ SyntheticFile \in Files
    /\ NoFile \notin Files
    /\ 1 \in Files
    /\ \A f \in Files : f # SyntheticFile => f + 1 \in Files
    /\ \A f \in Files : f <= SyntheticFile
BY NumFilesAssumption DEF Files, SyntheticFile, NoFile

\* There is at most one first definer of a name.
LEMMA FirstDefinerUnique ==
    ASSUME NEW f, NEW g, NEW s, IsFirstDefiner(f, s), IsFirstDefiner(g, s)
    PROVE  f = g
BY FilesFacts DEF IsFirstDefiner, Definers

\* A symbol is not both defined and undefined in one file.
LEMMA DefinesOrUndef ==
    ASSUME NEW f, NEW s PROVE ~(Defines(f, s) /\ Undef(f, s))
BY DEF Defines, Undef

-----------------------------------------------------------------------------
(***************************************************************************)
(* Type correctness.                                                       *)
(***************************************************************************)
LEMMA TypeInit == Init => TypeOK
<1> SUFFICES ASSUME Init PROVE TypeOK
  OBVIOUS
<1>1. SyntheticTable \in [Symbols -> Kinds]
  BY DEF SyntheticTable, Kinds
<1>2. symtab \in [Files -> [Symbols -> Kinds] \union {NoSymtab}]
  <2>1. PICK t \in [1 .. NumFiles -> SymbolTables] :
          symtab = [f \in Files |-> IF f = SyntheticFile THEN SyntheticTable ELSE t[f]]
    BY DEF Init
  <2>2. ASSUME NEW f \in Files, f # SyntheticFile
        PROVE  t[f] \in [Symbols -> Kinds] \union {NoSymtab}
    BY <2>1, <2>2, NumFilesAssumption, SymbolsAssumption DEF Files, SyntheticFile
  <2>3. QED
    BY <1>1, <2>1, <2>2
<1>3. phase \in Passes \union {"done"} \union Failures
  BY DEF Init, Passes
<1>4. queue \in Seq(Files)
  BY DEF Init
<1>5. QED
  BY <1>2, <1>3, <1>4, FilesFacts DEF Init, TypeOK

\* No pass breaks the types: one step for every action, one for every variable it sets.
LEMMA TypeStep == TypeOK /\ [Next]_vars => TypeOK'
<1> SUFFICES ASSUME TypeOK, [Next]_vars PROVE TypeOK'
  OBVIOUS
<1> USE FilesFacts DEF TypeOK
<1>0. ASSUME NEW r \in Failures, Fail(r) PROVE TypeOK'
  BY <1>0 DEF Fail, inputs
<1>1. CASE PutCommonSymbol
  BY <1>0, <1>1 DEF PutCommonSymbol, Failures
<1>2. CASE PutGlobalSymbol
  <2>1. definer' \in [Symbols -> Files \union {NoFile}]
    BY <1>2 DEF PutGlobalSymbol
  <2>2. binding' \in [Files -> [Symbols -> Files \union {NoFile}]]
    <3>1. [s \in Symbols |-> IF Defines(next, s) THEN definer'[s] ELSE NoFile]
            \in [Symbols -> Files \union {NoFile}]
      BY <2>1
    <3>2. QED
      BY <1>2, <3>1 DEF PutGlobalSymbol
  <2>3. phase' \in Passes \union {"done"} \union Failures /\ next' \in Files
    BY <1>2 DEF PutGlobalSymbol, NextFile, Passes
  <2>4. QED
    BY <1>2, <2>1, <2>2, <2>3 DEF PutGlobalSymbol, inputs
<1>3. CASE BindWithoutEntry
  BY <1>0, <1>3 DEF BindWithoutEntry, Failures
<1>4. CASE BindSpecialSymbols
  BY <1>4, SymbolsAssumption DEF BindSpecialSymbols, inputs, Passes, Special
<1>5. CASE SeedQueue
  BY <1>5 DEF SeedQueue, inputs, Passes, NextFile
<1>6. CASE PopFileWithoutSymtab
  BY <1>0, <1>6 DEF PopFileWithoutSymtab, Failures
<1>7. CASE PopFile
  BY <1>7 DEF PopFile, NextReferencing, inputs
<1>8. CASE ReferenceUndefined
  BY <1>0, <1>8 DEF ReferenceUndefined, Failures
<1>9. CASE ReferenceFile
  <2>1. PICK s \in todo :
          /\ definer[s] # NoFile
          /\ binding' = [binding EXCEPT ![cur][s] = definer[s]]
          /\ queue' = IF definer[s] \in alive THEN queue ELSE Append(queue, definer[s])
          /\ alive' = alive \union {definer[s]}
          /\ todo' = todo \ {s}
    BY <1>9 DEF ReferenceFile
  <2>2. definer[s] \in Files
    BY <2>1
  <2>3. binding' \in [Files -> [Symbols -> Files \union {NoFile}]]
    BY <2>1, <2>2
  <2>4. queue' \in Seq(Files)
    BY <2>1, <2>2
  <2>5. QED
    BY <1>9, <2>1, <2>2, <2>3, <2>4 DEF ReferenceFile, inputs
<1>10. CASE ResolveDone
  BY <1>10 DEF ResolveDone, inputs, Passes
<1>11. CASE ClearUnusedResources
  BY <1>11 DEF ClearUnusedResources, inputs, Passes
<1>12. CASE CheckFindsDuplicate
  BY <1>0, <1>12 DEF CheckFindsDuplicate, Failures
<1>13. CASE CheckDuplicateSymbols
  BY <1>13 DEF CheckDuplicateSymbols, inputs, NextFile, Passes
<1>14. CASE Terminated \/ UNCHANGED vars
  BY <1>14 DEF Terminated, vars, inputs
<1>15. QED
  BY <1>1, <1>2, <1>3, <1>4, <1>5, <1>6, <1>7, <1>8, <1>9, <1>10, <1>11, <1>12,
     <1>13, <1>14 DEF Next

\* TypeOK, on every reachable state of the passes.
THEOREM TypeCorrect == Spec => []TypeOK
<1>1. Init => TypeOK
  BY TypeInit
<1>2. TypeOK /\ [Next]_vars => TypeOK'
  BY TypeStep
<1>3. QED
  BY <1>1, <1>2, PTL DEF Spec

-----------------------------------------------------------------------------
(***************************************************************************)
(* The map: Put_global_symbol keeps the first definer of every name.       *)
(***************************************************************************)
LEMMA MapStep == TypeOK /\ MapInv /\ [Next]_vars => MapInv'
<1> SUFFICES ASSUME TypeOK, MapInv, [Next]_vars PROVE MapInv'
  OBVIOUS
<1>1. ASSUME UNCHANGED <<symtab, definer>>, UNCHANGED <<phase, next>> PROVE MapInv'
  BY <1>1 DEF MapInv, Uncleared, IsPut, Defines, HasSymtab
<1>2. ASSUME UNCHANGED <<symtab, definer>>, Uncleared, phase # "put", phase' # "put"
      PROVE  MapInv'
  BY <1>2 DEF MapInv, Uncleared, IsPut, Defines, HasSymtab
<1>3. CASE PutCommonSymbol
  BY <1>3 DEF PutCommonSymbol, Fail, MapInv, Uncleared
<1>4. CASE PutGlobalSymbol
  <2> SUFFICES ASSUME NEW s \in Symbols
               PROVE  (/\ definer[s] # NoFile => Defines(definer[s], s) /\ IsPut(definer[s])
                       /\ \A f \in Files : Defines(f, s) /\ IsPut(f) =>
                            definer[s] # NoFile /\ definer[s] <= f)'
    BY DEF MapInv
  <2>1. /\ phase = "put" /\ next \in Files
        /\ \A f \in Files : Defines(f, s)' <=> Defines(f, s)
        /\ definer'[s] = IF definer[s] = NoFile /\ Defines(next, s) THEN next
                                                                   ELSE definer[s]
        /\ definer[s] \in Files \union {NoFile}
    BY <1>4 DEF PutGlobalSymbol, inputs, TypeOK, Defines, HasSymtab
  <2>2. /\ definer[s] # NoFile => Defines(definer[s], s) /\ definer[s] < next
        /\ \A f \in Files : Defines(f, s) /\ f < next =>
             definer[s] # NoFile /\ definer[s] <= f
    BY <2>1 DEF MapInv, Uncleared, IsPut
  <2>3. ASSUME NEW f \in Files PROVE IsPut(f)' <=> f <= next
    BY <1>4, FilesFacts DEF PutGlobalSymbol, NextFile, IsPut, TypeOK
  <2>4. CASE definer[s] = NoFile /\ Defines(next, s)
    <3>1. definer'[s] = next /\ next # NoFile
      BY <2>1, <2>4, FilesFacts
    <3>2. \A f \in Files : Defines(f, s) /\ f <= next => f = next
      BY <2>1, <2>2, <2>4, FilesFacts
    <3>3. Defines(definer[s], s)' /\ IsPut(definer[s])'
      BY <1>4, <2>1, <2>3, <2>4, <3>1, FilesFacts
         DEF PutGlobalSymbol, inputs, Defines, HasSymtab, IsPut
    <3>4. QED
      BY <2>1, <2>3, <3>1, <3>2, <3>3, FilesFacts
  <2>5. CASE definer[s] # NoFile \/ ~Defines(next, s)
    <3>1. definer'[s] = definer[s]
      BY <2>1, <2>5
    <3>2. ASSUME NEW f \in Files, Defines(f, s), f <= next
          PROVE  definer[s] # NoFile /\ definer[s] <= f
      <4>1. f < next \/ f = next
        BY <2>1, <3>2, FilesFacts
      <4>2. CASE f < next
        BY <2>2, <3>2, <4>2
      <4>3. CASE f = next
        BY <2>1, <2>2, <2>5, <3>2, <4>3, FilesFacts
      <4>4. QED
        BY <4>1, <4>2, <4>3
    <3>3. definer[s] # NoFile => Defines(definer[s], s)' /\ IsPut(definer[s])'
      BY <1>4, <2>1, <2>2, <2>3, <3>1, FilesFacts
         DEF PutGlobalSymbol, inputs, Defines, HasSymtab, IsPut
    <3>4. QED
      BY <2>1, <2>3, <3>1, <3>2, <3>3, FilesFacts
  <2>6. QED
    BY <2>4, <2>5
<1>5. CASE BindWithoutEntry \/ PopFileWithoutSymtab \/ ReferenceUndefined
  BY <1>2, <1>5 DEF BindWithoutEntry, PopFileWithoutSymtab, ReferenceUndefined,
     NextReferencing, Fail, inputs, Uncleared
<1>6. CASE BindSpecialSymbols \/ SeedQueue \/ PopFile \/ ReferenceFile \/ ResolveDone
  BY <1>2, <1>6 DEF BindSpecialSymbols, SeedQueue, PopFile, ReferenceFile, ResolveDone,
     NextReferencing, NextFile, inputs, Uncleared
<1>7. CASE ClearUnusedResources \/ CheckFindsDuplicate \/ CheckDuplicateSymbols
  BY <1>7 DEF ClearUnusedResources, CheckFindsDuplicate, CheckDuplicateSymbols,
     NextFile, Fail, MapInv, Uncleared
<1>8. CASE Terminated \/ UNCHANGED vars
  BY <1>1, <1>8 DEF Terminated, vars, inputs
<1>9. QED
  BY <1>3, <1>4, <1>5, <1>6, <1>7, <1>8 DEF Next

\* After Put_global_symbol has run on all files, the map gives the first
\* definer of every name that is defined anywhere.
LEMMA MapFirst ==
    ASSUME TypeOK, MapInv, Uncleared, phase # "put", NEW s \in Symbols
    PROVE  /\ definer[s] # NoFile => IsFirstDefiner(definer[s], s)
           /\ definer[s] = NoFile => Definers(s) = {}
BY DEF TypeOK, MapInv, IsPut, IsFirstDefiner, Definers

-----------------------------------------------------------------------------
(***************************************************************************)
(* The pointers in the symbol lists.                                       *)
(***************************************************************************)
LEMMA BindStep ==
    TypeOK /\ MapInv /\ BindInv /\ ListInv /\ [Next]_vars => BindInv'
<1> SUFFICES ASSUME TypeOK, MapInv, BindInv, ListInv, [Next]_vars PROVE BindInv'
  OBVIOUS
<1>1. ASSUME UNCHANGED <<symtab, definer, binding, alive>>, Uncleared, phase # "put",
             phase' # "put", phase' \in {"bind", "seed"} => phase \in {"bind", "seed"}
      PROVE  BindInv'
  BY <1>1 DEF BindInv, Uncleared, IsPut, Defines, Undef, HasSymtab
<1>0. ASSUME UNCHANGED <<symtab, phase, next, definer, binding, alive>> PROVE BindInv'
  BY <1>0 DEF BindInv, Uncleared, IsPut, Defines, Undef, HasSymtab
<1>2. CASE PutCommonSymbol
  BY <1>2 DEF PutCommonSymbol, Fail, BindInv, Uncleared
<1>3. CASE PutGlobalSymbol
  <2> SUFFICES ASSUME NEW f \in Files, NEW s \in Symbols
               PROVE  (/\ Defines(f, s) /\ IsPut(f) => binding[f][s] = definer[s]
                       /\ ~(binding[f][s] # NoFile /\ ~Defines(f, s)))'
    BY DEF BindInv
  <2>1. /\ phase = "put" /\ next \in Files
        /\ Defines(f, s)' <=> Defines(f, s)
        /\ definer[s] # NoFile => definer'[s] = definer[s]
        /\ binding'[f][s] = IF f # next THEN binding[f][s]
                            ELSE IF Defines(f, s) THEN definer'[s] ELSE NoFile
    BY <1>3 DEF PutGlobalSymbol, inputs, TypeOK, Defines, HasSymtab
  <2>2. IsPut(f)' <=> f <= next
    BY <1>3, FilesFacts DEF PutGlobalSymbol, NextFile, IsPut, TypeOK
  <2>3. CASE f = next
    BY <2>1, <2>3
  <2>4. CASE f # next
    <3>1. ~(binding[f][s] # NoFile /\ ~Defines(f, s))
      BY <2>1 DEF BindInv, Uncleared
    <3>2. ASSUME Defines(f, s), f <= next PROVE binding[f][s] = definer'[s]
      <4>0. f < next
        BY <2>1, <2>4, <3>2, FilesFacts
      <4>1. IsPut(f)
        BY <4>0 DEF IsPut
      <4>2. binding[f][s] = definer[s] /\ definer[s] # NoFile
        BY <2>1, <3>2, <4>1 DEF BindInv, MapInv, Uncleared
      <4>3. QED
        BY <2>1, <4>2
    <3>3. QED
      BY <2>1, <2>2, <2>4, <3>1, <3>2
  <2>5. QED
    BY <2>3, <2>4
<1>4. CASE BindWithoutEntry
  BY <1>4 DEF BindWithoutEntry, Fail, inputs, BindInv, Uncleared, IsPut, Defines, Undef,
     HasSymtab
<1>5. CASE BindSpecialSymbols \/ SeedQueue \/ PopFile \/ ResolveDone
          \/ PopFileWithoutSymtab \/ ReferenceUndefined
  BY <1>1, <1>5 DEF BindSpecialSymbols, SeedQueue, PopFile, ResolveDone,
     PopFileWithoutSymtab, ReferenceUndefined, Fail, NextReferencing, NextFile, inputs,
     Uncleared
<1>6. CASE ReferenceFile
  <2>1. PICK s \in todo :
          /\ definer[s] # NoFile
          /\ binding' = [binding EXCEPT ![cur][s] = definer[s]]
          /\ alive' = alive \union {definer[s]}
    BY <1>6 DEF ReferenceFile
  <2>2. /\ phase = "resolve" /\ UNCHANGED <<symtab, phase, definer>>
        /\ s \in Symbols /\ cur \in alive /\ cur \in Files
        /\ Undef(cur, s) /\ binding[cur][s] = NoFile
    BY <1>6, <2>1 DEF ReferenceFile, inputs, ListInv, TypeOK
  <2> SUFFICES ASSUME NEW f \in Files, NEW r \in Symbols
               PROVE  (/\ Defines(f, r) /\ IsPut(f) => binding[f][r] = definer[r]
                       /\ binding[f][r] # NoFile /\ ~Defines(f, r) =>
                            /\ phase \notin {"put", "bind", "seed"}
                            /\ binding[f][r] = definer[r]
                            /\ Undef(f, r)
                            /\ f \in alive
                            /\ definer[r] \in alive)'
    BY DEF BindInv
  <2>3. CASE f = cur /\ r = s
    <3>1. binding'[f][r] = definer[r]
      BY <2>1, <2>2, <2>3 DEF TypeOK
    <3>2. QED
      BY <2>1, <2>2, <2>3, <3>1 DEF Undef, HasSymtab
  <2>4. CASE ~(f = cur /\ r = s)
    <3>1. binding'[f][r] = binding[f][r]
      BY <2>1, <2>2, <2>4 DEF TypeOK
    <3>2. QED
      BY <2>1, <2>2, <3>1 DEF BindInv, Uncleared, IsPut, Defines, Undef, HasSymtab
  <2>5. QED
    BY <2>3, <2>4
<1>7. CASE ClearUnusedResources \/ CheckFindsDuplicate \/ CheckDuplicateSymbols
  BY <1>7 DEF ClearUnusedResources, CheckFindsDuplicate, CheckDuplicateSymbols,
     NextFile, Fail, BindInv, Uncleared
<1>8. CASE Terminated \/ UNCHANGED vars
  BY <1>0, <1>8 DEF Terminated, vars, inputs
<1>9. QED
  BY <1>2, <1>3, <1>4, <1>5, <1>6, <1>7, <1>8 DEF Next

-----------------------------------------------------------------------------
(***************************************************************************)
(* Why a file is alive.                                                    *)
(***************************************************************************)
LEMMA AliveStep ==
    TypeOK /\ MapInv /\ AliveInv /\ [Next]_vars => AliveInv'
<1> SUFFICES ASSUME TypeOK, MapInv, AliveInv, [Next]_vars PROVE AliveInv'
  OBVIOUS
<1>1. Objects' = Objects
  BY DEF Next, vars, Objects, inputs, Fail, Terminated, PutCommonSymbol, PutGlobalSymbol,
     BindWithoutEntry, BindSpecialSymbols, SeedQueue, PopFileWithoutSymtab, PopFile,
     ReferenceUndefined, ReferenceFile, ResolveDone, ClearUnusedResources,
     CheckFindsDuplicate, CheckDuplicateSymbols
<1>2. \A f, s : IsFirstDefiner(f, s)' <=> IsFirstDefiner(f, s)
  <2>1. UNCHANGED symtab
    BY DEF Next, vars, inputs, Fail, Terminated, PutCommonSymbol, PutGlobalSymbol,
       BindWithoutEntry, BindSpecialSymbols, SeedQueue, PopFileWithoutSymtab, PopFile,
       ReferenceUndefined, ReferenceFile, ResolveDone, ClearUnusedResources,
       CheckFindsDuplicate, CheckDuplicateSymbols
  <2>2. QED
    BY <2>1 DEF IsFirstDefiner, Definers, Defines, HasSymtab
<1>3. ASSUME UNCHANGED <<alive, files>>, Cleared' <=> Cleared, Uncleared' => Uncleared,
             phase' \in {"put", "bind", "seed"} => phase \in {"put", "bind", "seed"}
      PROVE  AliveInv'
  BY <1>1, <1>2, <1>3 DEF AliveInv, Kept
<1>4. CASE PutCommonSymbol \/ PutGlobalSymbol \/ BindWithoutEntry \/ BindSpecialSymbols
          \/ SeedQueue \/ PopFileWithoutSymtab \/ PopFile \/ ReferenceUndefined
          \/ ResolveDone
  BY <1>3, <1>4 DEF PutCommonSymbol, PutGlobalSymbol, BindWithoutEntry,
     BindSpecialSymbols, SeedQueue, PopFileWithoutSymtab, PopFile, ReferenceUndefined,
     ResolveDone, NextReferencing, NextFile, Fail, Cleared, Uncleared
<1>5. CASE ReferenceFile
  <2>1. PICK s \in todo : definer[s] # NoFile /\ alive' = alive \union {definer[s]}
    BY <1>5 DEF ReferenceFile
  <2>2. s \in Symbols /\ phase = "resolve" /\ UNCHANGED <<phase, files>>
    BY <1>5 DEF ReferenceFile, TypeOK
  <2>3. IsFirstDefiner(definer[s], s)
    BY <2>1, <2>2, MapFirst DEF Uncleared
  <2>4. QED
    BY <1>1, <1>2, <2>1, <2>2, <2>3 DEF AliveInv, Kept, Cleared, Uncleared
<1>6. CASE ClearUnusedResources
  <2>1. files' = alive /\ Cleared' /\ ~Uncleared' /\ ~Cleared
    BY <1>6 DEF ClearUnusedResources, AliveInv, TypeOK, Cleared, Uncleared
  <2>2. Kept' = Kept
    BY <2>1 DEF Kept
  <2>3. phase' = "check"
    BY <1>6 DEF ClearUnusedResources
  <2>4. QED
    BY <1>1, <1>2, <2>1, <2>2, <2>3 DEF AliveInv
<1>7. CASE CheckFindsDuplicate \/ CheckDuplicateSymbols
  BY <1>3, <1>7 DEF CheckFindsDuplicate, CheckDuplicateSymbols, NextFile, Fail, Cleared,
     Uncleared
<1>8. CASE Terminated \/ UNCHANGED vars
  BY <1>3, <1>8 DEF Terminated, vars, Cleared, Uncleared
<1>9. QED
  BY <1>4, <1>5, <1>6, <1>7, <1>8 DEF Next

-----------------------------------------------------------------------------
(***************************************************************************)
(* The work list.                                                          *)
(***************************************************************************)
Elements(q) == {q[i] : i \in 1 .. Len(q)}
Distinct(q) == \A i, j \in 1 .. Len(q) : q[i] = q[j] => i = j

\* push() adds the file, and no second copy of one that is not there yet.
LEMMA AppendFacts ==
    ASSUME NEW q \in Seq(Files), NEW f \in Files
    PROVE  /\ Elements(Append(q, f)) = Elements(q) \union {f}
           /\ Distinct(q) /\ f \notin Elements(q) => Distinct(Append(q, f))
<1> DEFINE p == Append(q, f)
<1>1. /\ Len(p) = Len(q) + 1 /\ Len(q) \in Nat
      /\ \A i \in 1 .. Len(q) : p[i] = q[i]
      /\ p[Len(q) + 1] = f
  OBVIOUS
<1> HIDE DEF p
<1>2. Elements(p) = Elements(q) \union {f}
  <2>1. \A i \in 1 .. Len(p) : p[i] \in Elements(q) \union {f}
    BY <1>1 DEF Elements
  <2>2. \A i \in 1 .. Len(q) : q[i] \in Elements(p)
    BY <1>1 DEF Elements
  <2>3. f \in Elements(p)
    <3>1. Len(q) + 1 \in 1 .. Len(p)
      BY <1>1
    <3>2. QED
      BY <1>1, <3>1 DEF Elements
  <2>4. QED
    BY <2>1, <2>2, <2>3 DEF Elements
<1>3. ASSUME Distinct(q), f \notin Elements(q) PROVE Distinct(p)
  <2> SUFFICES ASSUME NEW i \in 1 .. Len(p), NEW j \in 1 .. Len(p), p[i] = p[j]
               PROVE  i = j
    BY DEF Distinct
  <2>1. \A k \in 1 .. Len(q) : p[k] # f
    BY <1>1, <1>3 DEF Elements
  <2>2. QED
    BY <1>1, <1>3, <2>1 DEF Distinct
<1>4. QED
  BY <1>2, <1>3 DEF p

\* pop() takes the front away, and it is gone when there was one copy of it.
LEMMA TailFacts ==
    ASSUME NEW q \in Seq(Files), q # <<>>, Distinct(q)
    PROVE  /\ Head(q) \in Elements(q)
           /\ Elements(Tail(q)) = Elements(q) \ {Head(q)}
           /\ Distinct(Tail(q))
<1> DEFINE p == Tail(q)
<1>1. /\ Len(q) \in Nat \ {0} /\ Len(p) = Len(q) - 1
      /\ \A i \in 1 .. Len(p) : p[i] = q[i + 1]
      /\ Head(q) = q[1]
  OBVIOUS
<1> HIDE DEF p
<1>2. 1 \in 1 .. Len(q) /\ \A i \in 1 .. Len(p) : i + 1 \in 1 .. Len(q)
  BY <1>1
<1>3. Head(q) \in Elements(q)
  BY <1>1, <1>2 DEF Elements
<1>4. Elements(p) \subseteq Elements(q) \ {Head(q)}
  <2> SUFFICES ASSUME NEW i \in 1 .. Len(p)
               PROVE  p[i] \in Elements(q) /\ p[i] # Head(q)
    BY DEF Elements
  <2>1. i + 1 # 1
    OBVIOUS
  <2>2. QED
    BY <1>1, <1>2, <2>1 DEF Elements, Distinct
<1>5. Elements(q) \ {Head(q)} \subseteq Elements(p)
  <2> SUFFICES ASSUME NEW i \in 1 .. Len(q), q[i] # Head(q)
               PROVE  q[i] \in Elements(p)
    BY DEF Elements
  <2>1. i - 1 \in 1 .. Len(p) /\ p[i - 1] = q[i]
    BY <1>1
  <2>2. QED
    BY <2>1 DEF Elements
<1>6. Distinct(p)
  <2> SUFFICES ASSUME NEW i \in 1 .. Len(p), NEW j \in 1 .. Len(p), p[i] = p[j]
               PROVE  i = j
    BY DEF Distinct
  <2>1. i + 1 = j + 1
    BY <1>1, <1>2 DEF Distinct
  <2>2. QED
    BY <2>1
<1>7. QED
  BY <1>3, <1>4, <1>5, <1>6 DEF p

\* The state the work list is in, in terms of Elements and Distinct.
LEMMA WorkListForm ==
    /\ Queued = Elements(queue)
    /\ WorkListSound <=>
         /\ Distinct(queue)
         /\ Elements(queue) \subseteq alive
         /\ \A f \in Elements(queue), s \in Symbols : Undef(f, s) => binding[f][s] = NoFile
BY DEF Queued, Elements, Distinct, WorkListSound

\* The work list stays sound: reference_file queues a file only when it makes it alive.
LEMMA ListStep ==
    TypeOK /\ MapInv /\ BindInv /\ AliveInv /\ WorkListSound /\ ListInv /\ [Next]_vars
      => WorkListSound' /\ ListInv'
<1> SUFFICES ASSUME TypeOK, MapInv, BindInv, AliveInv, WorkListSound, ListInv,
                    [Next]_vars
             PROVE  WorkListSound' /\ ListInv'
  OBVIOUS
<1> DEFINE Facts(q) ==
      /\ Distinct(q)
      /\ Elements(q) \subseteq alive
      /\ \A f \in Elements(q), s \in Symbols : Undef(f, s) => binding[f][s] = NoFile
<1>a. Queued = Elements(queue) /\ Facts(queue)
  BY WorkListForm
<1>b. Queued' = Elements(queue') /\ (WorkListSound' <=> Facts(queue)')
  BY DEF Queued, Elements, Distinct, WorkListSound
<1>c. Elements(<<>>) = {} /\ Distinct(<<>>)
  BY DEF Elements, Distinct
<1>d. ASSUME UNCHANGED <<symtab, queue, alive, binding>> PROVE WorkListSound'
  BY <1>d DEF WorkListSound, Queued, Undef, HasSymtab
<1>e. ASSUME queue' = <<>> PROVE WorkListSound'
  BY <1>b, <1>c, <1>e
<1>1. CASE PutCommonSymbol \/ BindWithoutEntry \/ PopFileWithoutSymtab
           \/ ReferenceUndefined \/ CheckFindsDuplicate
  <2>1. WorkListSound'
    BY <1>1, <1>d DEF PutCommonSymbol, BindWithoutEntry, PopFileWithoutSymtab,
       ReferenceUndefined, CheckFindsDuplicate, Fail, inputs
  <2>2. ListInv'
    BY <1>1 DEF PutCommonSymbol, BindWithoutEntry, PopFileWithoutSymtab,
       ReferenceUndefined, CheckFindsDuplicate, Fail, ListInv
  <2>3. QED
    BY <2>1, <2>2
<1>2. CASE PutGlobalSymbol
  <2>1. /\ queue' = <<>> /\ todo' = {} /\ phase' \in {"put", "bind"}
        /\ phase' = "bind" => next' = 1
    BY <1>2 DEF PutGlobalSymbol, NextFile, ListInv
  <2>2. QED
    BY <1>e, <2>1 DEF ListInv
<1>3. CASE BindSpecialSymbols
  <2>1. /\ queue' = <<>> /\ todo' = {} /\ phase' = "seed" /\ next' = 1
        /\ UNCHANGED alive
    BY <1>3 DEF BindSpecialSymbols, ListInv
  <2>2. Queued' = {f \in alive' : f < next'}
    BY <1>b, <1>c, <2>1, FilesFacts DEF TypeOK
  <2>3. QED
    BY <1>e, <2>1, <2>2 DEF ListInv
<1>4. CASE SeedQueue
  <2>1. /\ phase = "seed" /\ next \in Files /\ todo = {} /\ todo' = {}
        /\ UNCHANGED <<symtab, alive, binding, cur>> /\ alive \subseteq Files
        /\ queue' = IF next \in alive THEN Append(queue, next) ELSE queue
        /\ queue \in Seq(Files)
        /\ Elements(queue) = {f \in alive : f < next}
    BY <1>4, <1>a DEF SeedQueue, ListInv, TypeOK, inputs
  <2>2. \A f \in Files, s \in Symbols : Undef(f, s) => binding[f][s] = NoFile
    BY <2>1, DefinesOrUndef DEF BindInv, Uncleared
  <2>3. Distinct(queue') /\ Elements(queue') = {f \in alive : f <= next}
    <3>1. CASE next \in alive
      <4>1. next \notin Elements(queue)
        BY <2>1, FilesFacts
      <4>2. Distinct(queue') /\ Elements(queue') = Elements(queue) \union {next}
        BY <1>a, <2>1, <3>1, <4>1, AppendFacts
      <4>3. {f \in alive : f <= next} = {f \in alive : f < next} \union {next}
        BY <2>1, <3>1, FilesFacts
      <4>4. QED
        BY <2>1, <4>2, <4>3
    <3>2. CASE next \notin alive
      <4>1. {f \in alive : f <= next} = {f \in alive : f < next}
        BY <2>1, <3>2, FilesFacts
      <4>2. QED
        BY <1>a, <2>1, <3>2, <4>1
    <3>3. QED
      BY <3>1, <3>2
  <2>4. WorkListSound'
    <3>1. Elements(queue') \subseteq alive /\ Elements(queue') \subseteq Files
      BY <2>1, <2>3
    <3>2. Facts(queue)'
      BY <2>1, <2>2, <2>3, <3>1 DEF Undef, HasSymtab
    <3>3. QED
      BY <1>b, <3>2
  <2>5. CASE next = SyntheticFile
    <3>1. phase' = "resolve" /\ next' = 1
      BY <1>4, <2>5 DEF SeedQueue, NextFile
    <3>2. Queued' = alive'
      BY <1>b, <2>1, <2>3, <2>5, FilesFacts
    <3>3. QED
      BY <2>1, <2>4, <3>1, <3>2 DEF ListInv
  <2>6. CASE next # SyntheticFile
    <3>1. phase' = "seed" /\ next' = next + 1
      BY <1>4, <2>1, <2>6 DEF SeedQueue, NextFile
    <3>2. Queued' = {f \in alive' : f < next'}
      BY <1>b, <2>1, <2>3, <3>1, FilesFacts
    <3>3. QED
      BY <2>1, <2>4, <3>1, <3>2 DEF ListInv
  <2>7. QED
    BY <2>5, <2>6
<1>5. CASE PopFile
  <2>1. /\ phase = "resolve" /\ todo = {} /\ queue # <<>> /\ queue \in Seq(Files)
        /\ cur' = Head(queue) /\ queue' = Tail(queue)
        /\ \A s \in todo' : /\ s \in Symbols /\ Undef(cur', s)
                            /\ binding[cur'][s] = NoFile
        /\ \A s \in Symbols : Undef(cur', s) /\ binding[cur'][s] = NoFile => s \in todo'
        /\ UNCHANGED <<symtab, phase, next, alive, binding>>
    BY <1>5 DEF PopFile, NextReferencing, inputs, TypeOK
  <2>2. /\ Head(queue) \in Elements(queue)
        /\ Elements(queue') = Elements(queue) \ {Head(queue)}
        /\ Distinct(queue')
    BY <1>a, <2>1, TailFacts
  <2>3. Facts(queue)'
    BY <1>a, <2>1, <2>2 DEF Undef, HasSymtab
  <2>4. ASSUME NEW f \in alive, NEW s \in Symbols, Undef(f, s), binding[f][s] = NoFile
        PROVE  f \in Elements(queue') \/ (f = cur' /\ s \in todo')
    <3>1. f \in Elements(queue)
      BY <1>a, <2>1, <2>4 DEF ListInv
    <3>2. QED
      BY <2>1, <2>2, <2>4, <3>1
  <2>5. ASSUME NEW s \in todo'
        PROVE  cur' \in alive /\ cur' \notin Elements(queue') /\ Undef(cur', s)
               /\ binding[cur'][s] = NoFile
    BY <1>a, <2>1, <2>2
  <2>6. ListInv'
    BY <1>b, <2>1, <2>4, <2>5 DEF ListInv, Undef, HasSymtab
  <2>7. QED
    BY <1>b, <2>3, <2>6
<1>6. CASE ReferenceFile
  <2>1. PICK s \in todo :
          /\ definer[s] # NoFile
          /\ binding' = [binding EXCEPT ![cur][s] = definer[s]]
          /\ queue' = IF definer[s] \in alive THEN queue ELSE Append(queue, definer[s])
          /\ alive' = alive \union {definer[s]}
          /\ todo' = todo \ {s}
    BY <1>6 DEF ReferenceFile
  <2>2. /\ phase = "resolve" /\ UNCHANGED <<symtab, phase, next, definer, cur>>
        /\ s \in Symbols /\ definer[s] \in Files /\ cur \in alive /\ cur \in Files
        /\ cur \notin Elements(queue) /\ queue \in Seq(Files)
    BY <1>6, <1>a, <2>1 DEF ReferenceFile, ListInv, TypeOK, inputs
  <2>3. \A f \in Files, r \in Symbols :
          binding'[f][r] = IF f = cur /\ r = s THEN definer[s] ELSE binding[f][r]
    BY <2>1, <2>2 DEF TypeOK
  <2>4. /\ Distinct(queue')
        /\ Elements(queue') = Elements(queue) \union ({definer[s]} \ alive)
    <3>1. CASE definer[s] \in alive
      BY <1>a, <2>1, <3>1
    <3>2. CASE definer[s] \notin alive
      BY <1>a, <2>1, <2>2, <3>2, AppendFacts
    <3>3. QED
      BY <3>1, <3>2
  <2>5. cur \notin Elements(queue')
    BY <2>2, <2>4
  <2>6. Elements(queue') \subseteq alive' /\ alive \subseteq Files /\ alive' \subseteq Files
    BY <1>a, <2>1, <2>2, <2>4 DEF TypeOK
  \* a file that comes alive has bound none of its undefined symbols yet
  <2>7. ASSUME NEW f \in Files, f \notin alive, NEW r \in Symbols, Undef(f, r)
        PROVE  binding[f][r] = NoFile
    BY <2>2, <2>7, DefinesOrUndef DEF BindInv, Uncleared
  <2>8. ASSUME NEW f \in Elements(queue'), NEW r \in Symbols, Undef(f, r)
        PROVE  binding'[f][r] = NoFile
    <3>1. f # cur /\ f \in Files
      BY <2>5, <2>6
    <3>2. binding'[f][r] = binding[f][r]
      BY <2>3, <3>1
    <3>3. f \in Elements(queue) \/ f \notin alive
      BY <2>4
    <3>4. QED
      BY <1>a, <2>7, <2>8, <3>1, <3>2, <3>3
  <2>9. Facts(queue)'
    BY <2>2, <2>4, <2>6, <2>8 DEF Undef, HasSymtab
  <2>10. ASSUME NEW f \in alive', NEW r \in Symbols, Undef(f, r), binding'[f][r] = NoFile
         PROVE  f \in Elements(queue') \/ (f = cur /\ r \in todo')
    <3>1. CASE f \notin alive
      BY <2>1, <2>4, <3>1
    <3>2. CASE f \in alive
      <4>1. ~(f = cur /\ r = s) /\ binding[f][r] = NoFile
        BY <2>1, <2>3, <2>6, <2>10, <3>2
      <4>2. f \in Elements(queue) \/ (f = cur /\ r \in todo)
        BY <1>a, <2>2, <2>10, <3>2, <4>1 DEF ListInv
      <4>3. QED
        BY <2>1, <2>4, <4>1, <4>2
    <3>3. QED
      BY <3>1, <3>2
  <2>11. ASSUME NEW r \in todo'
         PROVE  cur \in alive' /\ Undef(cur, r) /\ binding'[cur][r] = NoFile
    <3>1. r # s /\ r \in todo /\ r \in Symbols
      BY <2>1, <2>11 DEF TypeOK
    <3>2. Undef(cur, r) /\ binding[cur][r] = NoFile
      BY <2>2, <3>1 DEF ListInv
    <3>3. QED
      BY <2>1, <2>2, <2>3, <3>1, <3>2
  <2>12. ListInv'
    <3>1. \A f, r : Undef(f, r)' <=> Undef(f, r)
      BY <2>2 DEF Undef, HasSymtab
    <3>2. next' = 1 /\ phase' = "resolve"
      BY <2>2 DEF ListInv
    <3>3. QED
      BY <1>b, <2>2, <2>5, <2>10, <2>11, <3>1, <3>2 DEF ListInv
  <2>13. QED
    BY <1>b, <2>9, <2>12
<1>7. CASE ResolveDone
  <2>1. /\ phase = "resolve" /\ phase' = "clear" /\ todo = {} /\ queue = <<>>
        /\ UNCHANGED <<symtab, next, alive, queue, binding>>
    BY <1>7 DEF ResolveDone, inputs
  <2>2. \A f \in alive, s \in Symbols : Undef(f, s) => binding[f][s] # NoFile
    BY <1>a, <1>c, <2>1 DEF ListInv
  <2>3. ListInv'
    BY <2>1, <2>2 DEF ListInv, Undef, HasSymtab
  <2>4. QED
    BY <1>d, <2>1, <2>3
<1>8. CASE ClearUnusedResources \/ CheckDuplicateSymbols
  <2>1. queue' = <<>> /\ phase' \in {"check", "done"}
    BY <1>8 DEF ClearUnusedResources, CheckDuplicateSymbols, NextFile, ListInv
  <2>2. QED
    BY <1>e, <2>1 DEF ListInv
<1>9. CASE Terminated \/ UNCHANGED vars
  <2>1. UNCHANGED vars
    BY <1>9 DEF Terminated
  <2>2. /\ UNCHANGED <<symtab, phase, next, alive, queue, cur, todo, binding>>
        /\ Queued' = Queued
    BY <2>1 DEF vars, inputs, Queued
  <2>3. ListInv'
    BY <2>2 DEF ListInv, Undef, HasSymtab
  <2>4. QED
    BY <1>d, <2>2, <2>3
<1>10. QED
  BY <1>1, <1>2, <1>3, <1>4, <1>5, <1>6, <1>7, <1>8, <1>9 DEF Next

-----------------------------------------------------------------------------
(***************************************************************************)
(* After the dead files are gone.                                          *)
(***************************************************************************)
LEMMA ClearedStep ==
    TypeOK /\ MapInv /\ BindInv /\ AliveInv /\ ListInv /\ ClearedInv /\ [Next]_vars
      => ClearedInv'
<1> SUFFICES ASSUME TypeOK, MapInv, BindInv, AliveInv, ListInv, ClearedInv, [Next]_vars
             PROVE  ClearedInv'
  OBVIOUS
<1>1. CASE ~Cleared'
  BY <1>1 DEF ClearedInv
<1>2. CASE ClearUnusedResources
  <2>1. /\ phase = "clear" /\ files' = alive /\ alive \subseteq Files
        /\ UNCHANGED <<symtab, binding>>
        /\ \A s \in Symbols : definer'[s] = IF definer[s] \in alive THEN definer[s]
                                                                   ELSE NoFile
    BY <1>2 DEF ClearUnusedResources, inputs, AliveInv, Uncleared, TypeOK
  <2>2. \A f, s : /\ Defines(f, s)' <=> Defines(f, s)
                  /\ Undef(f, s)' <=> Undef(f, s)
                  /\ IsFirstDefiner(f, s)' <=> IsFirstDefiner(f, s)
    BY <2>1 DEF Defines, Undef, HasSymtab, IsFirstDefiner, Definers
  <2> SUFFICES ASSUME NEW s \in Symbols
               PROVE  /\ \A f \in alive : IsFirstDefiner(f, s) => definer'[s] = f
                      /\ definer'[s] # NoFile => definer'[s] \in alive
                      /\ \A f \in alive :
                           /\ Defines(f, s) => IsFirstDefiner(binding[f][s], s)
                           /\ Undef(f, s) => /\ binding[f][s] \in alive
                                             /\ IsFirstDefiner(binding[f][s], s)
                           /\ ~Defines(f, s) /\ ~Undef(f, s) => binding[f][s] = NoFile
    BY <2>1, <2>2 DEF ClearedInv
  <2>3. /\ definer[s] # NoFile => IsFirstDefiner(definer[s], s)
        /\ definer[s] = NoFile => Definers(s) = {}
    BY <2>1, MapFirst DEF Uncleared
  <2>4. ASSUME NEW f \in alive, IsFirstDefiner(f, s) PROVE definer'[s] = f
    <3>1. definer[s] = f
      BY <2>3, <2>4, FirstDefinerUnique DEF IsFirstDefiner
    <3>2. QED
      BY <2>1, <3>1
  <2>5. ASSUME NEW f \in alive, Defines(f, s) PROVE IsFirstDefiner(binding[f][s], s)
    <3>1. binding[f][s] = definer[s]
      BY <2>1, <2>5 DEF BindInv, Uncleared, IsPut
    <3>2. definer[s] # NoFile
      BY <2>1, <2>3, <2>5 DEF Definers
    <3>3. QED
      BY <2>3, <3>1, <3>2
  <2>6. ASSUME NEW f \in alive, ~Defines(f, s), binding[f][s] # NoFile
        PROVE  /\ Undef(f, s) /\ binding[f][s] \in alive
               /\ IsFirstDefiner(binding[f][s], s)
    BY <2>1, <2>3, <2>6 DEF BindInv, Uncleared
  <2>7. ASSUME NEW f \in alive, Undef(f, s) PROVE binding[f][s] # NoFile
    BY <2>1, <2>7 DEF ListInv
  <2>8. QED
    BY <2>1, <2>4, <2>5, <2>6, <2>7, DefinesOrUndef
<1>3. CASE CheckFindsDuplicate \/ CheckDuplicateSymbols \/ (Terminated \/ UNCHANGED vars)
  <2>1. CASE ~Cleared
    BY <1>1, <1>3, <2>1 DEF CheckFindsDuplicate, CheckDuplicateSymbols, Terminated,
       Cleared, vars
  <2>2. CASE Cleared
    <3>1. UNCHANGED <<symtab, definer, binding, files>>
      BY <1>3 DEF CheckFindsDuplicate, CheckDuplicateSymbols, Terminated, Fail, vars, inputs
    <3>2. \A f, s : /\ Defines(f, s)' <=> Defines(f, s)
                    /\ Undef(f, s)' <=> Undef(f, s)
                    /\ IsFirstDefiner(f, s)' <=> IsFirstDefiner(f, s)
      BY <3>1 DEF Defines, Undef, HasSymtab, IsFirstDefiner, Definers
    <3>3. QED
      BY <2>2, <3>1, <3>2 DEF ClearedInv, IsFirstDefiner, Definers
  <2>3. QED
    BY <2>1, <2>2
<1>4. CASE PutCommonSymbol \/ PutGlobalSymbol \/ BindWithoutEntry \/ BindSpecialSymbols
           \/ SeedQueue \/ PopFileWithoutSymtab \/ PopFile \/ ReferenceUndefined
           \/ ReferenceFile \/ ResolveDone
  BY <1>1, <1>4 DEF PutCommonSymbol, PutGlobalSymbol, BindWithoutEntry,
     BindSpecialSymbols, SeedQueue, PopFileWithoutSymtab, PopFile, ReferenceUndefined,
     ReferenceFile, ResolveDone, NextReferencing, NextFile, Fail, Cleared
<1>5. QED
  BY <1>2, <1>3, <1>4 DEF Next

\* The search for duplicates has let through only clashes of two destroyed Symbols.
LEMMA CheckStep == TypeOK /\ ListInv /\ CheckInv /\ [Next]_vars => CheckInv'
<1> SUFFICES ASSUME TypeOK, ListInv, CheckInv, [Next]_vars PROVE CheckInv'
  OBVIOUS
<1>1. CASE phase' \notin {"check", "done"}
  BY <1>1 DEF CheckInv
<1>2. CASE ClearUnusedResources
  <2>1. phase' = "check" /\ next' = 1 /\ files' \subseteq Files
    BY <1>2 DEF ClearUnusedResources, ListInv, TypeOK
  <2>2. QED
    BY <2>1, FilesFacts DEF CheckInv
<1>3. CASE CheckDuplicateSymbols
  <2>1. /\ phase = "check" /\ next \in Files /\ files \subseteq Files
        /\ next \in files => \A s \in Clashes(next) : Dangling(next, s)
        /\ UNCHANGED <<symtab, definer, binding, files>>
    BY <1>3 DEF CheckDuplicateSymbols, TypeOK, inputs
  <2>2. ASSUME NEW f \in files PROVE phase' = "done" \/ f < next' => f <= next
    BY <1>3, <2>1, FilesFacts DEF CheckDuplicateSymbols, NextFile
  <2>3. ASSUME NEW f \in files, f <= next PROVE \A s \in Clashes(f) : Dangling(f, s)
    <3>1. f = next \/ f < next
      BY <2>1, <2>3, FilesFacts
    <3>2. QED
      BY <2>1, <3>1 DEF CheckInv
  <2>4. \A f, s : Clashes(f)' = Clashes(f) /\ (Dangling(f, s)' <=> Dangling(f, s))
    BY <2>1 DEF Clashes, Defines, HasSymtab, Dangling
  <2>5. QED
    BY <2>1, <2>2, <2>3, <2>4 DEF CheckInv
<1>4. CASE Terminated \/ UNCHANGED vars
  <2>1. UNCHANGED <<symtab, phase, next, definer, binding, files>>
    BY <1>4 DEF Terminated, vars, inputs
  <2>2. \A f, s : Clashes(f)' = Clashes(f) /\ (Dangling(f, s)' <=> Dangling(f, s))
    BY <2>1 DEF Clashes, Defines, HasSymtab, Dangling
  <2>3. QED
    BY <2>1, <2>2 DEF CheckInv
<1>5. CASE PutCommonSymbol \/ PutGlobalSymbol \/ BindWithoutEntry \/ BindSpecialSymbols
           \/ SeedQueue \/ PopFileWithoutSymtab \/ PopFile \/ ReferenceUndefined
           \/ ReferenceFile \/ ResolveDone \/ CheckFindsDuplicate
  BY <1>1, <1>5 DEF PutCommonSymbol, PutGlobalSymbol, BindWithoutEntry,
     BindSpecialSymbols, SeedQueue, PopFileWithoutSymtab, PopFile, ReferenceUndefined,
     ReferenceFile, ResolveDone, CheckFindsDuplicate, NextReferencing, NextFile, Fail
<1>6. QED
  BY <1>2, <1>3, <1>4, <1>5 DEF Next

-----------------------------------------------------------------------------
(***************************************************************************)
(* The messages.                                                           *)
(***************************************************************************)
LEMMA ErrorsStep ==
    TypeOK /\ MapInv /\ AliveInv /\ WorkListSound /\ ListInv /\ ClearedInv
      /\ ErrorsAreReal /\ [Next]_vars => ErrorsAreReal'
<1> SUFFICES ASSUME TypeOK, MapInv, AliveInv, WorkListSound, ListInv, ClearedInv,
                    ErrorsAreReal, [Next]_vars
             PROVE  ErrorsAreReal'
  OBVIOUS
<1>0. CASE phase' \notin Failures
  BY <1>0 DEF ErrorsAreReal, Failures
<1>1. CASE PutCommonSymbol
  BY <1>1 DEF PutCommonSymbol, Fail, inputs, Common, HasSymtab, ErrorsAreReal, TypeOK
<1>2. CASE BindWithoutEntry
  <2>1. phase' = "no entry symbol" /\ UNCHANGED symtab
    BY <1>2 DEF BindWithoutEntry, Fail, inputs
  <2>2. Definers(Entry) = {}
    BY <1>2, MapFirst, SymbolsAssumption DEF BindWithoutEntry, Uncleared
  <2>3. QED
    BY <2>1, <2>2 DEF ErrorsAreReal, Definers, Defines, HasSymtab
<1>3. CASE PopFileWithoutSymtab
  <2>1. /\ phase = "resolve" /\ queue # <<>> /\ ~HasSymtab(Head(queue))
        /\ phase' = "null symbol table" /\ UNCHANGED <<symtab, alive>>
    BY <1>3 DEF PopFileWithoutSymtab, NextReferencing, Fail, inputs
  <2>2. Head(queue) \in alive
    BY <2>1, WorkListForm, TailFacts DEF TypeOK
  <2>3. Kept' = alive
    BY <2>1 DEF Kept, Cleared
  <2>4. QED
    BY <2>1, <2>2, <2>3 DEF ErrorsAreReal, HasSymtab
<1>4. CASE ReferenceUndefined
  <2>1. PICK s \in todo : definer[s] = NoFile
    BY <1>4 DEF ReferenceUndefined
  <2>2. /\ phase = "resolve" /\ s \in Symbols /\ cur \in alive /\ Undef(cur, s)
        /\ phase' = "undefined symbol" /\ UNCHANGED <<symtab, alive>>
    BY <1>4, <2>1 DEF ReferenceUndefined, Fail, inputs, ListInv, TypeOK
  <2>3. Definers(s) = {}
    BY <2>1, <2>2, MapFirst DEF Uncleared
  <2>4. Kept' = alive
    BY <2>2 DEF Kept, Cleared
  <2>5. \A f, r : (Undef(f, r)' <=> Undef(f, r)) /\ Definers(r)' = Definers(r)
    BY <2>2 DEF Undef, Definers, Defines, HasSymtab
  <2>6. QED
    BY <2>2, <2>3, <2>4, <2>5 DEF ErrorsAreReal
<1>5. CASE CheckFindsDuplicate
  <2>1. /\ phase = "check" /\ next \in files /\ files \subseteq Files
        /\ phase' = "duplicate symbols" /\ UNCHANGED <<symtab, files>>
    BY <1>5 DEF CheckFindsDuplicate, Fail, inputs, TypeOK
  <2>2. PICK s \in Symbols : Defines(next, s) /\ binding[next][s] # next
    BY <1>5 DEF CheckFindsDuplicate, Clashes
  <2>3. IsFirstDefiner(binding[next][s], s)
    BY <2>1, <2>2 DEF ClearedInv, Cleared
  <2>4. PICK g \in Files : g # next /\ Defines(g, s)
    BY <2>2, <2>3 DEF IsFirstDefiner, Definers
  <2>5. \A f, r : Defines(f, r)' <=> Defines(f, r)
    BY <2>1 DEF Defines, HasSymtab
  <2>6. QED
    BY <2>1, <2>2, <2>4, <2>5 DEF ErrorsAreReal
<1>6. CASE Terminated \/ UNCHANGED vars
  <2>1. UNCHANGED <<symtab, phase, files, alive>>
    BY <1>6 DEF Terminated, vars, inputs
  <2>2. /\ Kept' = Kept
        /\ \A f, r : /\ Common(f)' <=> Common(f)
                     /\ HasSymtab(f)' <=> HasSymtab(f)
                     /\ Undef(f, r)' <=> Undef(f, r)
                     /\ Defines(f, r)' <=> Defines(f, r)
                     /\ Definers(r)' = Definers(r)
    BY <2>1 DEF Kept, Cleared, Common, Undef, Definers, Defines, HasSymtab
  <2>3. QED
    BY <2>1, <2>2 DEF ErrorsAreReal
<1>7. CASE PutGlobalSymbol \/ BindSpecialSymbols \/ SeedQueue \/ PopFile \/ ReferenceFile
           \/ ResolveDone \/ ClearUnusedResources \/ CheckDuplicateSymbols
  BY <1>0, <1>7 DEF PutGlobalSymbol, BindSpecialSymbols, SeedQueue, PopFile,
     ReferenceFile, ResolveDone, ClearUnusedResources, CheckDuplicateSymbols,
     NextReferencing, NextFile, Failures
<1>8. QED
  BY <1>1, <1>2, <1>3, <1>4, <1>5, <1>6, <1>7 DEF Next

-----------------------------------------------------------------------------
(***************************************************************************)
(* The inductive invariant and what follows from it.                       *)
(***************************************************************************)
LEMMA InvInit == Init => IInv
<1> SUFFICES ASSUME Init PROVE IInv
  OBVIOUS
<1>1. TypeOK
  BY TypeInit
<1>2. /\ phase = "put" /\ next = 1 /\ queue = <<>> /\ todo = {} /\ files = Files
      /\ definer = [s \in Symbols |-> NoFile]
      /\ binding = [f \in Files |-> [s \in Symbols |-> NoFile]]
      /\ alive = Objects
  BY DEF Init, Objects
<1>3. \A f \in Files : ~(f < 1)
  BY FilesFacts
<1>4. MapInv
  BY <1>2, <1>3 DEF MapInv, IsPut
<1>5. BindInv
  BY <1>2, <1>3 DEF BindInv, IsPut
<1>6. AliveInv
  BY <1>2 DEF AliveInv, Kept, Cleared
<1>7. WorkListSound /\ ListInv
  BY <1>2 DEF WorkListSound, ListInv, Queued
<1>8. ClearedInv /\ CheckInv /\ ErrorsAreReal
  BY <1>2 DEF ClearedInv, CheckInv, ErrorsAreReal, Cleared
<1>9. QED
  BY <1>1, <1>4, <1>5, <1>6, <1>7, <1>8 DEF IInv

\* IInv, the inductive invariant of the passes, holds in every reachable state.
THEOREM Invariance == Spec => []IInv
<1>1. Init => IInv
  BY InvInit
<1>2. IInv /\ [Next]_vars => IInv'
  BY TypeStep, MapStep, BindStep, AliveStep, ListStep, ClearedStep, CheckStep, ErrorsStep
     DEF IInv
<1>3. QED
  BY <1>1, <1>2, PTL DEF Spec

\* No file is queued twice or handled twice, and all files queued are alive.
THEOREM WorkListCorrect == Spec => []WorkListSound
BY Invariance, PTL DEF IInv

\* Every failure the passes report is there.
THEOREM ErrorsCorrect == Spec => []ErrorsAreReal
BY Invariance, PTL DEF IInv

\* ReferencesBound follows from the state after Clear_unused_resources, ClearedInv.
LEMMA IInvReferencesBound == IInv => ReferencesBound
<1> SUFFICES ASSUME IInv, Cleared, NEW f \in files, NEW s \in Symbols, Undef(f, s)
             PROVE  /\ binding[f][s] \in files
                    /\ IsFirstDefiner(binding[f][s], s)
                    /\ ~Dangling(f, s)
  BY DEF ReferencesBound
<1>1. binding[f][s] \in files /\ IsFirstDefiner(binding[f][s], s)
  BY DEF IInv, ClearedInv
<1>2. definer[s] = binding[f][s]
  BY <1>1 DEF IInv, ClearedInv
<1>3. QED
  BY <1>1, <1>2 DEF Dangling

\* References of the files kept are bound to the first definition, in a file
\* that is kept, and the Symbol is still there.
THEOREM ReferencesCorrect == Spec => []ReferencesBound
BY Invariance, IInvReferencesBound, PTL

\* DanglingExactly: undefined symbols never dangle, definitions do when shadowed by a dead file.
LEMMA IInvDanglingExactly == IInv => DanglingExactly
<1> SUFFICES ASSUME IInv, Cleared, NEW f \in files, NEW s \in Symbols
             PROVE  Dangling(f, s) <=> /\ Defines(f, s)
                                       /\ \E g \in Files \ files : IsFirstDefiner(g, s)
  BY DEF DanglingExactly
<1>1. /\ \A g \in files : IsFirstDefiner(g, s) => definer[s] = g
      /\ definer[s] # NoFile => definer[s] \in files
      /\ Defines(f, s) => IsFirstDefiner(binding[f][s], s)
      /\ ~Defines(f, s) /\ ~Undef(f, s) => binding[f][s] = NoFile
  BY DEF IInv, ClearedInv
<1>2. ASSUME Dangling(f, s)
      PROVE  Defines(f, s) /\ \E g \in Files \ files : IsFirstDefiner(g, s)
  <2>1. Defines(f, s)
    BY <1>1, <1>2, IInvReferencesBound DEF Dangling, ReferencesBound
  <2>2. binding[f][s] \in Files /\ IsFirstDefiner(binding[f][s], s)
    BY <1>1, <2>1 DEF IsFirstDefiner, Definers
  <2>3. binding[f][s] \notin files
    BY <1>1, <1>2, <2>2 DEF Dangling
  <2>4. QED
    BY <2>1, <2>2, <2>3
<1>3. ASSUME Defines(f, s), NEW g \in Files \ files, IsFirstDefiner(g, s)
      PROVE  Dangling(f, s)
  <2>1. binding[f][s] = g
    BY <1>1, <1>3, FirstDefinerUnique
  <2>2. definer[s] # g /\ NoFile # g
    BY <1>1, <1>3, FilesFacts
  <2>3. QED
    BY <2>1, <2>2 DEF Dangling
<1>4. QED
  BY <1>2, <1>3

\* The pointers to destroyed Symbols are exactly those of shadowed definitions.
THEOREM DanglingCorrect == Spec => []DanglingExactly
BY Invariance, IInvDanglingExactly, PTL

\* UniqueDefinition: a clash that was let through is one of destroyed Symbols on both sides.
LEMMA IInvUniqueDefinition == IInv => UniqueDefinition
<1> SUFFICES ASSUME IInv, phase = "done", NEW f \in files, NEW g \in files,
                    NEW s \in Symbols, f # g, Defines(f, s), Defines(g, s)
             PROVE  Dangling(f, s) /\ Dangling(g, s)
  BY DEF UniqueDefinition
<1>1. /\ IsFirstDefiner(binding[f][s], s) /\ IsFirstDefiner(binding[g][s], s)
      /\ \A h \in files : IsFirstDefiner(h, s) => definer[s] = h
  BY DEF IInv, ClearedInv, Cleared
<1>2. binding[f][s] = binding[g][s]
  BY <1>1, FirstDefinerUnique
<1>3. /\ binding[f][s] # f => Dangling(f, s)
      /\ binding[g][s] # g => Dangling(g, s)
  BY DEF IInv, CheckInv, Clashes
\* were one of them bound to itself, the other would be bound to a Symbol alive
<1>4. binding[f][s] # f
  BY <1>1, <1>2, <1>3 DEF Dangling
<1>5. binding[g][s] # g
  BY <1>1, <1>2, <1>3 DEF Dangling
<1>6. QED
  BY <1>3, <1>4, <1>5

\* A link that goes on has no clash of definitions but those of destroyed Symbols.
THEOREM UniqueCorrect == Spec => []UniqueDefinition
BY Invariance, IInvUniqueDefinition, PTL

\* ShadowedNeverKept: only first definers are ever made alive.
LEMMA IInvShadowedNeverKept == IInv => ShadowedNeverKept
BY DEF IInv, AliveInv, ShadowedNeverKept

\* A member all of whose definitions are shadowed stays out of the link.
THEOREM ShadowedCorrect == Spec => []ShadowedNeverKept
BY Invariance, IInvShadowedNeverKept, PTL

-----------------------------------------------------------------------------
(***************************************************************************)
(* Resolution implements ReferenceClosure.                                 *)
(***************************************************************************)
AbsRefers == [f \in Files |-> Refers(f)]
AbsStatus == CASE phase \in Failures -> "stopped"
               [] phase \in {"check", "done"} -> "settled"
               [] OTHER -> "running"

\* The abstract status in the phases, so that no proof opens the CASE again.
LEMMA AbsStatusCases ==
    ASSUME TypeOK
    PROVE  /\ phase \in Failures => AbsStatus = "stopped"
           /\ phase \in {"check", "done"} => AbsStatus = "settled"
           /\ phase \in {"put", "bind", "seed", "resolve", "clear"} => AbsStatus = "running"
BY DEF AbsStatus, TypeOK, Passes, Failures

\* The passes begin with the objects kept, as ReferenceClosure does with its roots.
LEMMA ClosureInit == Init => Closure!Init
<1> SUFFICES ASSUME Init PROVE Closure!Init
  OBVIOUS
<1>1. AbsStatus = "running"
  BY TypeInit, AbsStatusCases DEF Init
<1>2. Kept = Objects
  BY DEF Init, Kept, Cleared, Objects
<1>3. Objects \in SUBSET Files /\ AbsRefers \in [Files -> SUBSET Files]
  BY DEF Objects, AbsRefers, Refers
<1>4. QED
  BY <1>1, <1>2, <1>3 DEF Closure!Init, AbsStatus, AbsRefers

\* No pass changes the files it was given.
LEMMA InputsStep == [Next]_vars => UNCHANGED <<symtab, numObj>>
BY DEF Next, vars, inputs, Fail, Terminated, PutCommonSymbol, PutGlobalSymbol,
   BindWithoutEntry, BindSpecialSymbols, SeedQueue, PopFileWithoutSymtab, PopFile,
   ReferenceUndefined, ReferenceFile, ResolveDone, ClearUnusedResources,
   CheckFindsDuplicate, CheckDuplicateSymbols

\* reference_file is a Reach, Clear_unused_resources a Settle, a failure a Stop, all else stutters.
LEMMA ClosureStep == IInv /\ [Next]_vars => [Closure!Next]_(Closure!vars)
<1> SUFFICES ASSUME IInv, [Next]_vars
             PROVE  Closure!Next \/ UNCHANGED Closure!vars
  OBVIOUS
<1>1. Objects' = Objects /\ AbsRefers' = AbsRefers
  <2>1. UNCHANGED <<symtab, numObj>>
    BY InputsStep
  <2>2. \A f : Refers(f)' = Refers(f)
    BY <2>1 DEF Refers, Undef, IsFirstDefiner, Definers, Defines, HasSymtab
  <2>3. QED
    BY <2>1, <2>2 DEF Objects, AbsRefers
<1>2. TypeOK /\ TypeOK'
  BY TypeStep DEF IInv
<1>3. ASSUME Kept' = Kept, AbsStatus' = AbsStatus PROVE UNCHANGED Closure!vars
  BY <1>1, <1>3 DEF Closure!vars, AbsStatus, AbsRefers
<1>4. ASSUME Kept' = Kept, phase \notin Failures, phase' \in Failures PROVE Closure!Stop
  <2>1. AbsStatus # "stopped" /\ AbsStatus' = "stopped"
    BY <1>2, <1>4, AbsStatusCases DEF AbsStatus, Failures
  <2>2. QED
    BY <1>1, <1>4, <2>1 DEF Closure!Stop, AbsStatus, AbsRefers
<1>5. CASE PutCommonSymbol \/ BindWithoutEntry \/ PopFileWithoutSymtab
           \/ ReferenceUndefined \/ CheckFindsDuplicate
  <2>1. phase \notin Failures /\ phase' \in Failures
    BY <1>5 DEF PutCommonSymbol, BindWithoutEntry, PopFileWithoutSymtab,
       ReferenceUndefined, CheckFindsDuplicate, NextReferencing, Fail, Failures
  <2>2. Kept' = Kept
    BY <1>5 DEF PutCommonSymbol, BindWithoutEntry, PopFileWithoutSymtab,
       ReferenceUndefined, CheckFindsDuplicate, NextReferencing, Fail, Kept, Cleared
  <2>3. QED
    BY <1>4, <2>1, <2>2 DEF Closure!Next
<1>6. CASE PutGlobalSymbol \/ BindSpecialSymbols \/ SeedQueue \/ PopFile \/ ResolveDone
  <2>1. /\ phase \in {"put", "bind", "seed", "resolve", "clear"}
        /\ phase' \in {"put", "bind", "seed", "resolve", "clear"}
        /\ UNCHANGED <<alive, files>>
    BY <1>6 DEF PutGlobalSymbol, BindSpecialSymbols, SeedQueue, PopFile, ResolveDone,
       NextReferencing, NextFile
  <2>2. Kept' = Kept
    BY <2>1 DEF Kept, Cleared
  <2>3. AbsStatus = "running" /\ AbsStatus' = "running"
    BY <2>1 DEF AbsStatus, Failures
  <2>4. QED
    BY <1>3, <2>2, <2>3
<1>7. CASE ReferenceFile
  <2>1. PICK s \in todo : definer[s] # NoFile /\ alive' = alive \union {definer[s]}
    BY <1>7 DEF ReferenceFile
  <2>2. /\ phase = "resolve" /\ phase' = "resolve" /\ s \in Symbols
        /\ cur \in alive /\ cur \in Files /\ Undef(cur, s) /\ definer[s] \in Files
    BY <1>7, <2>1 DEF ReferenceFile, IInv, ListInv, TypeOK
  <2>3. IsFirstDefiner(definer[s], s)
    BY <1>2, <2>1, <2>2, MapFirst DEF IInv, Uncleared
  <2>4. Kept = alive /\ Kept' = Kept \union {definer[s]}
    BY <2>1, <2>2 DEF Kept, Cleared
  <2>5. AbsStatus = "running" /\ AbsStatus' = "running"
    BY <2>2 DEF AbsStatus, Failures
  <2>6. CASE definer[s] \in alive
    <3>1. Kept' = Kept
      BY <2>4, <2>6
    <3>2. QED
      BY <1>3, <2>5, <3>1
  <2>7. CASE definer[s] \notin alive
    <3>1. definer[s] \in AbsRefers[cur] \ Kept /\ cur \in Kept
      BY <2>2, <2>3, <2>4, <2>7 DEF AbsRefers, Refers
    <3>2. Closure!Reach
      BY <1>1, <2>4, <2>5, <3>1 DEF Closure!Reach, AbsStatus, AbsRefers
    <3>3. QED
      BY <3>2 DEF Closure!Next
  <2>8. QED
    BY <2>6, <2>7
<1>8. CASE ClearUnusedResources
  <2>1. phase = "clear" /\ phase' = "check" /\ files' = files \intersect alive
    BY <1>8 DEF ClearUnusedResources
  <2>2. Kept = alive /\ Kept' = Kept
    BY <1>2, <2>1 DEF Kept, Cleared, IInv, AliveInv, Uncleared, TypeOK
  <2>3. AbsStatus = "running" /\ AbsStatus' = "settled"
    BY <2>1 DEF AbsStatus, Failures
  <2>4. ASSUME NEW f \in alive, NEW g \in Refers(f) PROVE g \in alive
    <3>1. PICK s \in Symbols : Undef(f, s) /\ IsFirstDefiner(g, s)
      BY <2>4 DEF Refers
    <3>2. binding[f][s] # NoFile /\ ~Defines(f, s) /\ f \in Files
      BY <1>2, <2>1, <3>1, DefinesOrUndef DEF IInv, ListInv, TypeOK
    <3>3. binding[f][s] = definer[s] /\ definer[s] \in alive
      BY <2>1, <3>2 DEF IInv, BindInv, Uncleared
    <3>4. definer[s] = g
      BY <1>2, <2>1, <3>1, <3>2, <3>3, MapFirst, FirstDefinerUnique
         DEF IInv, Uncleared
    <3>5. QED
      BY <3>3, <3>4
  <2>5. \A f \in Kept : AbsRefers[f] \subseteq Kept
    BY <1>2, <2>2, <2>4 DEF AbsRefers, TypeOK
  <2>6. Closure!Settle
    BY <1>1, <2>2, <2>3, <2>5 DEF Closure!Settle, Closure!Closed, AbsStatus, AbsRefers
  <2>7. QED
    BY <2>6 DEF Closure!Next
<1>9. CASE CheckDuplicateSymbols
  <2>1. phase = "check" /\ phase' \in {"check", "done"} /\ UNCHANGED files
    BY <1>9 DEF CheckDuplicateSymbols, NextFile
  <2>2. Kept' = Kept
    BY <2>1 DEF Kept, Cleared
  <2>3. AbsStatus = "settled" /\ AbsStatus' = "settled"
    BY <2>1 DEF AbsStatus, Failures
  <2>4. QED
    BY <1>3, <2>2, <2>3
<1>10. CASE Terminated \/ UNCHANGED vars
  <2>1. UNCHANGED <<phase, alive, files>>
    BY <1>10 DEF Terminated, vars
  <2>2. Kept' = Kept /\ AbsStatus' = AbsStatus
    BY <2>1 DEF Kept, Cleared, AbsStatus
  <2>3. QED
    BY <1>3, <2>2
<1>11. QED
  BY <1>5, <1>6, <1>7, <1>8, <1>9, <1>10 DEF Next

\* The files linked are the least closed set around the objects, or the link
\* has stopped.
THEOREM Implementation == Spec => ImplementsClosure
<1>1. Init => Closure!Init
  BY ClosureInit
<1>2. IInv /\ [Next]_vars => [Closure!Next]_(Closure!vars)
  BY ClosureStep
<1>3. QED
  BY <1>1, <1>2, Invariance, PTL DEF Spec, ImplementsClosure, Closure!Spec
=============================================================================

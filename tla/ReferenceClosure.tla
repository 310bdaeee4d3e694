-------------------------- MODULE ReferenceClosure --------------------------
(***************************************************************************)
(* What symbol resolution promises about the set of input files that end   *)
(* up in the output, said without queues, symbol tables or pointers.       *)
(*                                                                         *)
(* The files named on the command line (roots) are kept.  An archive       *)
(* member is kept only because a file that is already kept refers to it,   *)
(* and linking goes on only with a set of files that is closed under       *)
(* references.  So the files kept are the least closed set containing the  *)
(* roots; otherwise the link has stopped with an error.                    *)
(***************************************************************************)
EXTENDS Naturals

CONSTANT Files      \* the input files

VARIABLES
    roots,          \* files kept whatever refers to them
    refers,         \* refers[f]: the files that file f refers to
    kept,           \* the files reached so far
    status          \* "running", "settled" or "stopped"

vars == <<roots, refers, kept, status>>

Closed == \A f \in kept : refers[f] \subseteq kept

Init ==
    /\ roots \in SUBSET Files
    /\ refers \in [Files -> SUBSET Files]
    /\ kept = roots
    /\ status = "running"

\* A file that is kept refers to another one, which is kept from now on.
Reach ==
    /\ status = "running"
    /\ \E f \in kept : \E g \in refers[f] \ kept : kept' = kept \union {g}
    /\ UNCHANGED <<roots, refers, status>>

\* No reference leads out of the files kept: the rest is thrown away.
Settle ==
    /\ status = "running"
    /\ Closed
    /\ status' = "settled"
    /\ UNCHANGED <<roots, refers, kept>>

\* The link ends with an error message, at any time.
Stop ==
    /\ status # "stopped"
    /\ status' = "stopped"
    /\ UNCHANGED <<roots, refers, kept>>

Next == Reach \/ Settle \/ Stop

Spec == Init /\ [][Next]_vars
=============================================================================

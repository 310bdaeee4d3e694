----------------------------- MODULE Selection ------------------------------
(***************************************************************************)
(* The elements of a set in their order, and those of a sequence that are  *)
(* kept.  Select is SelectSeq; the prover has no definition of that one.   *)
(***************************************************************************)
EXTENDS Integers, Sequences, FiniteSets

\* The n-th of a set of numbers.
Nth(S, n) == CHOOSE i \in S : Cardinality({j \in S : j < i}) = n - 1

\* The elements of s that are in T, in the order of s.
Select(s, T) ==
    LET kept == {i \in DOMAIN s : s[i] \in T}
    IN  [n \in 1 .. Cardinality(kept) |-> s[Nth(kept, n)]]
=============================================================================

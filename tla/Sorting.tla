------------------------------ MODULE Sorting ------------------------------
(* The ascending sequence of a finite set of numbers.                       *)
EXTENDS Naturals, FiniteSets

\* How many of the set are below x.
Rank(S, x) == Cardinality({y \in S : y < x})

\* Every member of the set once, the smallest first.
Ascending(S) == [i \in 1 .. Cardinality(S) |-> CHOOSE x \in S : Rank(S, x) = i - 1]
=============================================================================

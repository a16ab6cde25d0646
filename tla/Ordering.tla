------------------------------ MODULE Ordering ------------------------------
(***************************************************************************)
(* sorted(..., key=...) and list.sort(key=...): the elements of a finite   *)
(* set in the strict order R, which is given as a set of pairs.            *)
(***************************************************************************)
EXTENDS Integers, FiniteSets

\* How many elements stand before x.
Rank(S, R, x) == Cardinality({y \in S : <<y, x>> \in R})

SortedBy(S, R) == [n \in 1..Cardinality(S) |-> CHOOSE x \in S : Rank(S, R, x) = n - 1]

=============================================================================

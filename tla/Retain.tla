------------------------------- MODULE Retain -------------------------------
(* What is left of a slice from which a loop dropped elements: the others,   *)
(* in their order.                                                          *)
EXTENDS Naturals, Sequences, FiniteSets

\* The place of index i among the indexes in I.
Rank(I, i) == Cardinality({j \in I : j <= i})

\* The elements of s at the indexes in I, in their order.
Retain(s, I) == [k \in 1..Cardinality(I) |-> s[CHOOSE i \in I : Rank(I, i) = k]]
=============================================================================

------------------------------- MODULE Ranks -------------------------------
(***************************************************************************)
(* Counting through a set of numbers or through part of a sequence.        *)
(***************************************************************************)
EXTENDS Integers, FiniteSets

\* The place of x in the set S of numbers, and the number at the n-th place.
Rank(x, S) == Cardinality({y \in S : y <= x})
Nth(n, S) == CHOOSE x \in S : Rank(x, S) = n

\* The elements of list at the places in keep, in their order.
Kept(list, keep) == [k \in 1 .. Cardinality(keep) |-> list[Nth(k, keep)]]
=============================================================================

------------------------------- MODULE Retain -------------------------------
(***************************************************************************)
(* Vec::retain and Iterator::filter of the standard library: what is left  *)
(* of a sequence at some of its positions, in the order they had.  This is *)
(* SelectSeq without its recursion, so that the proofs can speak of it.    *)
(***************************************************************************)
EXTENDS Naturals, Sequences, FiniteSets

\* How many of the positions come up to i.
Rank(i, positions) == Cardinality({h \in positions : h <= i})

\* The j-th of the positions.
Position(j, positions) == CHOOSE i \in positions : Rank(i, positions) = j

\* The elements of s at the positions, in order.
Retain(s, positions) ==
  [j \in 1..Cardinality(positions) |-> s[Position(j, positions)]]

=============================================================================

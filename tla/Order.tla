------------------------------- MODULE Order -------------------------------
(***************************************************************************)
(* Numbers in their order, and the parts of a sequence: what a query with  *)
(* ORDER BY returns and what a filter keeps, in a form that can be reasoned *)
(* about (the standard modules' SortSeq and SelectSeq are recursive).      *)
(***************************************************************************)
EXTENDS Naturals, Sequences, FiniteSets

\* The numbers of S that come before x.
Before(S, x) == {y \in S : y < x}

\* The numbers of a finite set as a sequence, the smallest first.
InOrder(S) == [k \in 1..Cardinality(S) |-> CHOOSE x \in S : Cardinality(Before(S, x)) = k - 1]

\* What a sequence holds at the positions of I, in the order it had.
Part(s, I) == [k \in 1..Cardinality(I) |-> s[InOrder(I)[k]]]
=============================================================================

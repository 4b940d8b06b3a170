------------------------------ MODULE Sorting ------------------------------
(***************************************************************************)
(* ORDER BY and LIMIT, and sorted(): the elements of a finite set in a     *)
(* strict total order, which is given as a set of pairs.  SetToSortSeq of  *)
(* SequencesExt, which chooses among permutations, says the same in a form *)
(* that the provers cannot expand.                                         *)
(***************************************************************************)
EXTENDS Integers, Sequences, FiniteSets

IsStrictOrder(before, S) ==
  /\ \A x \in S : <<x, x>> \notin before
  /\ \A x, y \in S : x # y => <<x, y>> \in before \/ <<y, x>> \in before
  /\ \A x, y, z \in S : <<x, y>> \in before /\ <<y, z>> \in before => <<x, z>> \in before

\* The elements that come before one.
Ahead(S, before, x) == {y \in S : <<y, x>> \in before}

Sorted(S, before) ==
  [i \in 1..Cardinality(S) |-> CHOOSE x \in S : Cardinality(Ahead(S, before, x)) = i - 1]

\* As many as may be of the first ones.
Limited(S, before, limit) == {x \in S : Cardinality(Ahead(S, before, x)) < limit}
=============================================================================

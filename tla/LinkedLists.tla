------------------------------ MODULE LinkedLists ------------------------------
(***************************************************************************)
(* The lists of src/list.c as sequences without repetitions, and what is    *)
(* left of one when a walk over it has deleted some of its nodes.           *)
(***************************************************************************)
EXTENDS Integers, FiniteSets, SequencesExt

\* The places of the elements of s that are not in qs, and the k-th of them.
Kept(s, qs) == {i \in DOMAIN s : s[i] \notin qs}
PlaceOf(s, qs, k) ==
  CHOOSE i \in Kept(s, qs) : Cardinality({j \in Kept(s, qs) : j <= i}) = k

\* s without the elements of qs.
Without(s, qs) == [k \in 1 .. Cardinality(Kept(s, qs)) |-> s[PlaceOf(s, qs, k)]]

=============================================================================

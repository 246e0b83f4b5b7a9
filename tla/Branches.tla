------------------------------- MODULE Branches -------------------------------
(* Branches of a tree that is given by the parent of each of its nodes. *)
EXTENDS Naturals

\* The nodes of T at s and beyond: the least set with s in it that has every
\* node whose parent it has.
Branch(T, parent, s) ==
  {x \in T : \A B \in SUBSET T :
     (s \in B /\ \A y \in T : parent[y] \in B => y \in B) => x \in B}

==============================================================================

------------------------------ MODULE MCCatalog ------------------------------
(* Instances of Catalog for TLC. *)
EXTENDS Catalog, TLC

CONSTANTS Upper, Lower, q1, q2, p1, p2, e1, e2

\* Upper and Lower are two spellings of one name.
LowerCase == [n \in Names |-> IF n = Blank THEN Blank ELSE Lower]
Symmetry == Permutations(Requests) \cup Permutations(Experiments)
             \cup Permutations(Projects)
==============================================================================

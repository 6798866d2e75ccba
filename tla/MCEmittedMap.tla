---------------------------- MODULE MCEmittedMap ----------------------------
(* EmittedMap on small instances. *)
EXTENDS EmittedMap, TLC

CONSTANTS m1, m2, k1, k2, k3, b1, b2, b3, MaxRows

(* A value that can be stored again after a read, and one that cannot.     *)
SmallValues == {[tag |-> "int", word |-> 1], [tag |-> "unit", word |-> 0]}

(* Headers, keys and blocks are told apart by equality alone.              *)
Symmetry ==
    Permutations(Maps) \cup Permutations(Keys) \cup Permutations(Blocks)

(* A bound: states with more rows than this, in both maps, are checked but *)
(* not continued.                                                          *)
FewRows ==
    Cardinality(UNION {{m} \X (0..hdr[m].count - 1) : m \in Live}) <= MaxRows
=============================================================================

--------------------------- MODULE MCPublication ----------------------------
(* Values for the configurations of Publication. *)
EXTENDS Publication, TLC

Symmetry == Permutations(Lessons) \cup Permutations(Text)
=============================================================================

----------------------------- MODULE MCClusters -----------------------------
(***************************************************************************)
(* Two detectors that stand for the kinds there are: one finds by           *)
(* observations and rule documents (D-08), rank refreshes it, and its code  *)
(* changes; the other matches a catalog (D-10).                             *)
(***************************************************************************)
EXTENDS Clusters, TLC

CONSTANTS stale, gate, k1, k2, s1, s2, noise, known

MCPlace == [d \in Detectors |-> IF d = stale THEN 1 ELSE 2]
MCLoud == Detectors \X {k1}
MCQuiet == {<<stale, k2>>}
MCReviewed == {<<stale, k1>>}
Symmetric == Permutations({s1, s2}) \cup Permutations({noise, known})
=============================================================================

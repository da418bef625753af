---------------------------- MODULE MCArtifacts -----------------------------
(* Values for the configurations of Artifacts. *)
EXTENDS Artifacts, TLC

Symmetry == Permutations(Lessons) \cup Permutations(Text)

\* An edit comes alone, an error and a kill may come together.
EditsComeAlone == edits = 0 \/ faults + crashes = 0
=============================================================================

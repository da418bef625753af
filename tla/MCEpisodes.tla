----------------------------- MODULE MCEpisodes -----------------------------
EXTENDS Episodes, TLC

CONSTANTS a, b

Symmetry == Permutations(Actions)

=============================================================================

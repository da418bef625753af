------------------------------ MODULE MCCorpus ------------------------------
EXTENDS Corpus, TLC

CONSTANTS ruleA, ruleB, other, key

\* Two rules mention the cluster, a third file does not.
MCMentions == (ruleA :> {key}) @@ (ruleB :> {key}) @@ (other :> {})
Symmetric == Permutations({ruleA, ruleB})
=============================================================================

----------------------------- MODULE MC_Subgraph -----------------------------
EXTENDS SubgraphProps

Symmetry == Permutations(Accounts) \cup Permutations(Assets)
=============================================================================

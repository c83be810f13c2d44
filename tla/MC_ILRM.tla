------------------------------ MODULE MC_ILRM ------------------------------
EXTENDS ILRMProps

Symmetry == Permutations(Accounts) \cup Permutations(Assets)
=============================================================================

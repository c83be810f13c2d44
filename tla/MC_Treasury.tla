---------------------------- MODULE MC_Treasury ----------------------------
EXTENDS TreasuryProps

\* Two ways to cap: two tokens per window of one day, or one per window of two.
Daily == [perDispute |-> 2, perParticipant |-> 2, window |-> 1]
Slow == [perDispute |-> 2, perParticipant |-> 1, window |-> 2]
MCCaps == {Daily, Slow}

TreasurySymmetry == Permutations(Accounts)
=============================================================================

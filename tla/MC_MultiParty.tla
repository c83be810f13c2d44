--------------------------- MODULE MC_MultiParty ---------------------------
EXTENDS MultiPartyProps

MCConfig(type, late) ==
  [quorumType |-> type, customQuorumBps |-> 5000, minParties |-> 2, maxParties |-> 3,
   stakeWindow |-> 1, resolutionTimeout |-> 1, allowLateJoin |-> late]

\* Late joining matters most where one more party moves the quorum; half of the
\* parties, in basis points, may be a single one.
MCConfigs == {MCConfig("SimpleMajority", TRUE), MCConfig("Custom", FALSE)}

MCSymmetry == Permutations(Accounts)
=============================================================================

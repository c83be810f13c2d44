--------------------------- MODULE TreasuryProps ---------------------------
(***************************************************************************)
(* What the treasury must satisfy beside the disputes it subsidises.       *)
(***************************************************************************)
EXTENDS Treasury

\* The type invariant of the treasury: no counter, score or balance leaves its range.
TreasuryTypeOK ==
  /\ ilrm \in {NoOne, ThisILRM}
  /\ caps \in CapChoices
  /\ minReserve \in Reserves \cup {0}
  /\ disputeSubsidized \subseteq DisputeIds
  /\ participantSubsidyUsed \in [Accounts -> Nat]
  /\ participantWindowStart \in [Accounts -> Nat]
  /\ harassmentScore \in [Accounts -> 0 .. 100]
  /\ totalSubsidiesDistributed \in Nat
  /\ totalInflows \in Nat
  /\ treasuryPaused \in BOOLEAN
  /\ fund \in Nat
  /\ withdrawn \in Nat
  /\ grants \subseteq Grant

AmountOf == [g \in Grant |-> g.amount]
Total(gs) == SumFunctionOnSet(AmountOf, gs)
GrantsTo(p) == {g \in grants : g.participant = p}

\* "Single Subsidy/Dispute": across the life of a dispute, whatever is staked,
\* withdrawn or reconfigured meanwhile, at most one grant, to the dispute's
\* counterparty, and none before the dispute exists.
SubsidizedOnce ==
  /\ \A g, h \in grants : g.disputeId = h.disputeId => g = h
  /\ \A g \in grants : /\ Exists(g.disputeId)
                       /\ g.participant = disputes[g.disputeId].counterparty
                       /\ g.disputeId \in disputeSubsidized

\* The running counter of each participant is what it was granted since its window
\* started, through resets and through changes of the window's length.  (What was
\* granted on the very day of a reset may have come before it.)
UsageIsWindowed ==
  \A p \in Accounts :
    /\ participantSubsidyUsed[p] >= Total({g \in GrantsTo(p) : g.day > participantWindowStart[p]})
    /\ participantSubsidyUsed[p] <= Total({g \in GrantsTo(p) : g.day >= participantWindowStart[p]})

ShortestWindow == CHOOSE w \in {c.window : c \in CapChoices} :
                    \A c \in CapChoices : w <= c.window
LargestCap == CHOOSE m \in {c.perParticipant : c \in CapChoices} :
                \A c \in CapChoices : c.perParticipant <= m

\* The participant cap is per window, and windows follow each other: in a stretch
\* of days no longer than the shortest window, from any grant on, two windows meet
\* at most, so nobody is granted more than twice the largest cap, however the caps
\* change.
GrantedFrom(g) ==
  Total({h \in GrantsTo(g.participant) : h.day \in g.day .. (g.day + ShortestWindow)})
TwoWindowsAtMost == \A g \in grants : GrantedFrom(g) <= 2 * LargestCap

\* The counter means what it says, and so the caps mean what they say.
WindowsHold == UsageIsWindowed /\ TwoWindowsAtMost

\* The two contracts together create and lose no token: what the treasury took in
\* is still there, was granted or was withdrawn, and every other token is in a
\* wallet, in the ILRM contract or burnt.
TreasuryAccounted ==
  /\ totalSubsidiesDistributed = Total(grants)
  /\ totalInflows = fund + totalSubsidiesDistributed + withdrawn
  /\ SumFunction(wallet) + held + burned + fund
       = InitialTokens * Cardinality(TokenHolders)

\* calculateSubsidy repeats the computation of requestSubsidy by other means: what
\* it quotes on a day is what a request on that day is granted.
QuotedIsGranted ==
  [][\A d \in DisputeIds, request \in Requests :
       RequestSubsidy(d, request) =>
         \E g \in grants' \ grants :
           g.amount = CalculateSubsidy(d, request, disputes[d].counterparty)]_allVars
=============================================================================

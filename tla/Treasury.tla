------------------------------ MODULE Treasury ------------------------------
(***************************************************************************)
(* NatLangChainTreasury: it collects tokens and grants the counterparty of *)
(* an open, unstaked dispute of the ILRM contract a subsidy, once per      *)
(* dispute and under three caps.                                           *)
(*                                                                         *)
(* Left out: depositBurn and updateHarassmentScore, which only the ILRM    *)
(* contract may call and which it never calls, and the ETH the treasury    *)
(* receives, which only its owner moves.                                   *)
(***************************************************************************)
EXTENDS ILRM

CONSTANTS CapChoices,     \* the caps the owner may set: [perDispute, perParticipant, window]
          Reserves,       \* minimum balances the owner may set
          Scores,         \* harassment scores the owner may set
          Requests,       \* amounts a participant may ask for
          MaxInflows,     \* bound: tokens deposited over time
          MaxChanges      \* bound: calls of the owner's setters

\* (The caps are 256-bit numbers: there are finitely many choices.)
ASSUME TreasuryAssumption ==
  /\ CapChoices \subseteq [perDispute: Nat, perParticipant: Nat, window: Nat]
  /\ IsFiniteSet(CapChoices)
  /\ Reserves \subseteq Nat
  /\ Scores \subseteq Nat
  /\ Requests \subseteq Nat \ {0}
  /\ MaxInflows \in Nat
  /\ MaxChanges \in Nat

HARASSMENT_THRESHOLD == 50

VARIABLES
  ilrm,                     \* the contract asked about disputes, NoOne until it is set
  caps,                     \* maxPerDispute, maxPerParticipant, windowDuration
  minReserve,
  disputeSubsidized,        \* the disputes with a subsidy
  participantSubsidyUsed,
  participantWindowStart,   \* 0 for never
  harassmentScore,
  totalSubsidiesDistributed,
  totalInflows,
  treasuryPaused,
  fund,                     \* token balance of the treasury
  withdrawn,                \* history: tokens the owner took out
  grants,                   \* history: [participant, disputeId, day, amount]
  changes                   \* bound: calls of the owner's setters so far

adminVars == <<ilrm, caps, minReserve, harassmentScore, treasuryPaused, changes>>
subsidyVars == <<disputeSubsidized, participantSubsidyUsed, participantWindowStart,
                 totalSubsidiesDistributed, grants>>
treasuryVars == <<adminVars, subsidyVars, totalInflows, fund, withdrawn>>
allVars == <<vars, treasuryVars>>

Grant == [participant: Accounts, disputeId: DisputeIds, day: Nat, amount: Nat]

TreasuryInit ==
  /\ ilrm = NoOne
  /\ caps \in CapChoices
  /\ minReserve = 0
  /\ disputeSubsidized = {}
  /\ participantSubsidyUsed = [p \in Accounts |-> 0]
  /\ participantWindowStart = [p \in Accounts |-> 0]
  /\ harassmentScore = [p \in Accounts |-> 0]
  /\ totalSubsidiesDistributed = 0
  /\ totalInflows = 0
  /\ treasuryPaused = FALSE
  /\ fund = 0
  /\ withdrawn = 0
  /\ grants = {}
  /\ changes = 0

----------------------------------------------------------------------------
(* Subsidies.                                                              *)

Smaller(a, b) == IF a <= b THEN a ELSE b
AtLeastZero(n) == IF n >= 0 THEN n ELSE 0

\* Timestamps are far beyond any window: one that never started is over.
WindowOver(p) == \/ participantWindowStart[p] = 0
                 \/ now > participantWindowStart[p] + caps.window

StartKept(p) == IF participantWindowStart[p] = 0 THEN now ELSE participantWindowStart[p]
StartOfWindow(p) == IF WindowOver(p) THEN now ELSE participantWindowStart[p]

WindowOverEarly(p) == now >= participantWindowStart[p] + caps.window
UsedUntilLastDay(p) == IF WindowOverEarly(p) THEN 0 ELSE participantSubsidyUsed[p]
UsedInWindow(p) == IF WindowOver(p) THEN 0 ELSE participantSubsidyUsed[p]

\* The request under its three caps, once so much of the window is used.
Capped(request, used) ==
  Smaller(Smaller(request, caps.perDispute),
          Smaller(AtLeastZero(caps.perParticipant - used), AtLeastZero(fund - minReserve)))

\* The counterparty of an open dispute that has not staked, the first time.
DefendsUnstaked(d) == Open(d) /\ ~Staked(d)
Eligible(d) == d \notin disputeSubsidized /\ Open(d) /\ ~Staked(d)

PaidAsRequested(request, amount) == request
Paid(request, amount) == amount

\* Called by the counterparty itself.
RequestSubsidy(d, request) ==
  LET p      == disputes[d].counterparty
      used   == IF WindowOver(p) THEN 0 ELSE participantSubsidyUsed[p]
      amount == Capped(request, used)
  IN /\ ~treasuryPaused
     /\ ilrm = ThisILRM
     /\ Eligible(d)
     /\ harassmentScore[p] < HARASSMENT_THRESHOLD
     /\ amount # 0
     /\ participantWindowStart' = [participantWindowStart EXCEPT ![p] = StartOfWindow(p)]
     /\ participantSubsidyUsed' = [participantSubsidyUsed EXCEPT ![p] = used + amount]
     /\ disputeSubsidized' = disputeSubsidized \cup {d}
     /\ totalSubsidiesDistributed' = totalSubsidiesDistributed + amount
     /\ fund >= Paid(request, amount)
     /\ fund' = fund - Paid(request, amount)
     /\ wallet' = Credit(wallet, p, Paid(request, amount))
     /\ grants' = grants \cup
          {[participant |-> p, disputeId |-> d, day |-> now, amount |-> amount]}
     /\ UNCHANGED <<now, registryVars, disputes, disputeCounter, lastDisputeTime, tokenReserves,
                    paused, held, burned, ethVars, historyVars, adminVars, totalInflows, withdrawn>>

\* What the view calculateSubsidy quotes; 0 stands for "not eligible".
CalculateSubsidy(d, request, p) ==
  IF d \in disputeSubsidized \/ harassmentScore[p] >= HARASSMENT_THRESHOLD
  THEN 0
  ELSE Capped(request, UsedInWindow(p))

----------------------------------------------------------------------------
(* Funds and administration.                                               *)

DepositToTreasury(p, amount) ==
  /\ totalInflows + amount <= MaxInflows                              \* bound
  /\ wallet[p] >= amount
  /\ wallet' = [wallet EXCEPT ![p] = @ - amount]
  /\ fund' = fund + amount
  /\ totalInflows' = totalInflows + amount
  /\ UNCHANGED <<now, registryVars, disputes, disputeCounter, lastDisputeTime, tokenReserves,
                 paused, held, burned, ethVars, historyVars, adminVars, subsidyVars, withdrawn>>

EmergencyWithdraw(to, amount) ==
  /\ amount <= fund
  /\ fund' = fund - amount
  /\ wallet' = Credit(wallet, to, amount)
  /\ withdrawn' = withdrawn + amount
  /\ UNCHANGED <<now, registryVars, disputes, disputeCounter, lastDisputeTime, tokenReserves,
                 paused, held, burned, ethVars, historyVars, adminVars, subsidyVars, totalInflows>>

SetTreasuryILRM ==
  ilrm' = ThisILRM /\ UNCHANGED <<caps, minReserve, harassmentScore, treasuryPaused>>

UpdateCaps(c) ==
  caps' = c /\ UNCHANGED <<ilrm, minReserve, harassmentScore, treasuryPaused>>

SetMinReserve(n) ==
  minReserve' = n /\ UNCHANGED <<ilrm, caps, harassmentScore, treasuryPaused>>

ScoreOf(score) == Smaller(score, 100)

SetHarassmentScore(p, score) ==
  /\ harassmentScore' = [harassmentScore EXCEPT ![p] = ScoreOf(score)]
  /\ UNCHANGED <<ilrm, caps, minReserve, treasuryPaused>>

PauseTreasury(flag) ==
  /\ treasuryPaused = ~flag
  /\ treasuryPaused' = flag
  /\ UNCHANGED <<ilrm, caps, minReserve, harassmentScore>>

TreasuryOwnerNext ==
  \/ SetTreasuryILRM
  \/ \E c \in CapChoices : UpdateCaps(c)
  \/ \E n \in Reserves : SetMinReserve(n)
  \/ \E p \in Accounts, score \in Scores : SetHarassmentScore(p, score)
  \/ PauseTreasury(TRUE)
  \/ PauseTreasury(FALSE)

TreasuryFundsNext ==
  \/ \E d \in DisputeIds, request \in Requests : RequestSubsidy(d, request)
  \/ \E p \in Sponsors, amount \in Deposits : DepositToTreasury(p, amount)
  \/ \E to \in Sponsors, amount \in Deposits : EmergencyWithdraw(to, amount)

TreasuryNext ==
  \/ Next /\ UNCHANGED treasuryVars
  \/ TreasuryFundsNext
  \/ /\ TreasuryOwnerNext
     /\ changes < MaxChanges                                            \* bound
     /\ changes' = changes + 1
     /\ UNCHANGED <<vars, subsidyVars, totalInflows, fund, withdrawn>>

TreasurySpec == Init /\ TreasuryInit /\ [][TreasuryNext]_allVars
=============================================================================

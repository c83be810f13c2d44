-------------------------------- MODULE ILRM --------------------------------
(***************************************************************************)
(* The ILRM contract: two-party disputes from the initiator's stake to one *)
(* of three terminal outcomes, together with the asset registry it freezes *)
(* assets in, the stake token's balances and the ETH it holds.             *)
(*                                                                         *)
(* A transaction is one action: its guards are the require statements, its *)
(* effects everything the call changes in either contract.  A transaction  *)
(* that reverts leaves no trace, so it is no step at all.                  *)
(*                                                                         *)
(* An operator that nothing refers to is a mistake the code could contain, *)
(* kept above the definition whose place it would take.                    *)
(***************************************************************************)
EXTENDS AssetRegistry, FiniteSetsExt

CONSTANTS ThisILRM,             \* the address of this contract
          Sponsors,             \* token holders that fund the incentive reserves
          Proposals,            \* texts the oracle can propose
          NoProposal,           \* the empty string
          Stakes,               \* base stakes an initiator may offer
          Deposits,             \* amounts a sponsor may add to the reserves
          MsgValues,            \* ETH sent along, in units of COUNTER_FEE_BASE
          InitialTokens,        \* each account's tokens at the start
          MaxTreasury,          \* bound: ETH collected in the treasury
          MaxReserves,          \* bound: tokens collected in the reserves
          MAX_COUNTERS, STAKE_WINDOW, RESOLUTION_TIMEOUT, COOLDOWN_PERIOD,
          MAX_TIME_EXTENSION

ASSUME ILRMAssumption ==
  /\ ThisILRM \in Ilrms
  /\ IsFiniteSet(Sponsors)
  /\ Sponsors \cap Accounts = {}
  /\ NoProposal \notin Proposals
  /\ Stakes \subseteq Nat \ {0}
  /\ Deposits \subseteq Nat \ {0}
  /\ MsgValues \subseteq Nat
  /\ InitialTokens \in Nat
  /\ MaxTreasury \in Nat
  /\ MaxReserves \in Nat
  /\ MAX_COUNTERS \in Nat
  /\ STAKE_WINDOW \in Nat
  /\ RESOLUTION_TIMEOUT \in Nat
  /\ COOLDOWN_PERIOD \in Nat
  /\ MAX_TIME_EXTENSION \in Nat
  /\ DisputeIds = 0 .. (Cardinality(DisputeIds) - 1)

BURN_PERCENTAGE         == 50
INITIATOR_INCENTIVE_BPS == 1000
ESCALATION_MULTIPLIER   == 150

VARIABLES
  disputes,         \* _disputes
  disputeCounter,   \* _disputeCounter
  lastDisputeTime,  \* [initiator -> [counterparty -> day]], 0 for never
  treasury,         \* ETH the contract has booked
  tokenReserves,    \* tokens set aside for incentives
  paused,
  wallet,           \* token balance of each account
  held,             \* token balance of this contract
  burned,           \* token balance of BURN_ADDRESS
  ethBalance,       \* ETH this contract holds
  createdAt,        \* history: the day each dispute was initiated
  consent           \* history: what each party last accepted, and in which round

tokenVars == <<wallet, held, burned>>
ethVars == <<treasury, ethBalance>>
historyVars == <<createdAt, consent>>
ilrmVars == <<disputes, disputeCounter, lastDisputeTime, tokenReserves, paused,
              tokenVars, ethVars, historyVars>>
vars == <<now, registryVars, ilrmVars>>

TokenHolders == Accounts \cup Sponsors
Roles == {"initiator", "counterparty"}
Outcomes == {"Pending", "AcceptedProposal", "TimeoutWithBurn", "DefaultLicenseApplied"}

Dispute == [initiator: Accounts \cup {NoOne}, counterparty: Accounts \cup {NoOne},
            initiatorStake: Nat, counterpartyStake: Nat, startTime: Nat,
            llmProposal: Proposals \cup {NoProposal},
            accepted: SUBSET Roles,     \* who has set its acceptance flag
            resolved: BOOLEAN, outcome: Outcomes, fallback: FallbackTerms,
            counterCount: 0 .. MAX_COUNTERS]

\* An id that is not in use reads as the zero record.
NoDispute == [initiator |-> NoOne, counterparty |-> NoOne,
              initiatorStake |-> 0, counterpartyStake |-> 0, startTime |-> 0,
              llmProposal |-> NoProposal,
              accepted |-> {},
              resolved |-> FALSE, outcome |-> "Pending",
              fallback |-> CHOOSE t \in FallbackTerms : TRUE, counterCount |-> 0]

Consent == [round: 0 .. MAX_COUNTERS, proposal: Proposals \cup {NoProposal}]
NoConsent == [r \in Roles |-> [round |-> 0, proposal |-> NoProposal]]

ILRMTypeOK ==
  /\ disputes \in [DisputeIds -> Dispute]
  /\ disputeCounter \in Nat
  /\ lastDisputeTime \in [Accounts -> [Accounts -> Nat]]
  /\ treasury \in Nat
  /\ ethBalance \in Nat
  /\ tokenReserves \in Nat
  /\ paused \in BOOLEAN
  /\ wallet \in [TokenHolders -> Nat]
  /\ held \in Int
  /\ burned \in Nat
  /\ createdAt \in [DisputeIds -> Nat]
  /\ consent \in [DisputeIds -> [Roles -> Consent]]

\* The type invariant of the contract and of the registry beside it.
TypeOK == now \in Nat \ {0} /\ RegistryTypeOK /\ ILRMTypeOK

Init ==
  /\ BlockInit
  /\ RegistryInit
  /\ disputes = [d \in DisputeIds |-> NoDispute]
  /\ disputeCounter = 0
  /\ lastDisputeTime = [p \in Accounts |-> [q \in Accounts |-> 0]]
  /\ treasury = 0
  /\ ethBalance = 0
  /\ tokenReserves = 0
  /\ paused = FALSE
  /\ wallet = [p \in TokenHolders |-> InitialTokens]
  /\ held = 0
  /\ burned = 0
  /\ createdAt = [d \in DisputeIds |-> 0]
  /\ consent = [d \in DisputeIds |-> NoConsent]

----------------------------------------------------------------------------
(* Reading a dispute.                                                      *)

Exists(d) == disputes[d].initiator # NoOne
Open(d) == Exists(d) /\ ~disputes[d].resolved
Staked(d) == disputes[d].counterpartyStake > 0
StakeOf(d) == disputes[d].initiatorStake + disputes[d].counterpartyStake

StakeWindowOver(x) == now > x.startTime + STAKE_WINDOW

\* A deadline that is over on its own day.
TimedOutEarly(x) == now >= x.startTime + RESOLUTION_TIMEOUT
TimedOut(x) == now > x.startTime + RESOLUTION_TIMEOUT

Credit(balances, p, amount) == [balances EXCEPT ![p] = @ + amount]

----------------------------------------------------------------------------
(* Initiation and staking.                                                 *)

InCooldown(p, c) ==
  lastDisputeTime[p][c] > 0 /\ now < lastDisputeTime[p][c] + COOLDOWN_PERIOD

EscalatedStake(p, c, base) ==
  IF InCooldown(p, c) THEN (base * ESCALATION_MULTIPLIER) \div 100 ELSE base

InitiateBreachDispute(p, c, base, t) ==
  LET d     == disputeCounter
      stake == EscalatedStake(p, c, base)
  IN /\ ~paused
     /\ c # p
     /\ d \in DisputeIds                                            \* bound
     /\ now + RESOLUTION_TIMEOUT + MAX_TIME_EXTENSION < Horizon     \* bound
     /\ wallet[p] >= stake
     /\ wallet' = [wallet EXCEPT ![p] = @ - stake]
     /\ held' = held + stake
     /\ disputeCounter' = d + 1
     /\ disputes' = [disputes EXCEPT ![d] =
                       [NoDispute EXCEPT !.initiator = p, !.counterparty = c,
                                         !.initiatorStake = stake,
                                         !.startTime = now, !.fallback = t]]
     /\ FreezeAssets(ThisILRM, d, p)
     /\ lastDisputeTime' = [lastDisputeTime EXCEPT ![p][c] = now]
     /\ createdAt' = [createdAt EXCEPT ![d] = now]
     /\ UNCHANGED <<now, terms, DisputesLeaveAlone, tokenReserves, paused, burned,
                    ethVars, consent>>

\* Called by the counterparty, who must match the stake; nothing is frozen.
DepositStake(d) ==
  LET c     == disputes[d].counterparty
      stake == disputes[d].initiatorStake
  IN /\ ~paused
     /\ Exists(d)
     /\ ~Staked(d)
     /\ ~disputes[d].resolved
     /\ ~StakeWindowOver(disputes[d])
     /\ wallet[c] >= stake
     /\ wallet' = [wallet EXCEPT ![c] = @ - stake]
     /\ held' = held + stake
     /\ disputes' = [disputes EXCEPT ![d].counterpartyStake = stake]
     /\ UNCHANGED <<now, registryVars, disputeCounter, lastDisputeTime, tokenReserves,
                    paused, burned, ethVars, historyVars>>

----------------------------------------------------------------------------
(* Negotiation.                                                            *)

\* The oracle's call, whose signature check this module leaves to the oracle.
SubmitLLMProposal(d, text) ==
  /\ Staked(d)
  /\ ~disputes[d].resolved
  /\ disputes' = [disputes EXCEPT ![d].llmProposal = text]
  /\ UNCHANGED <<now, registryVars, disputeCounter, lastDisputeTime, tokenReserves,
                 paused, tokenVars, ethVars, historyVars>>

\* With the second acceptance the stakes go back and the assets are released.
ResolveAccepted(d) ==
  LET x == disputes[d]
  IN /\ wallet' = Credit(Credit(wallet, x.initiator, x.initiatorStake),
                         x.counterparty, x.counterpartyStake)
     /\ held' = held - StakeOf(d)
     /\ UnfreezeAssets(ThisILRM, d)
     /\ UNCHANGED <<burned, terms, DisputesLeaveAlone>>

\* Called by the party in role r.
AcceptProposal(d, r) ==
  LET x    == disputes[d]
      both == x.accepted \cup {r} = Roles
  IN /\ Exists(d)
     /\ ~x.resolved
     /\ x.llmProposal # NoProposal
     /\ ~TimedOut(x)
     /\ r \notin x.accepted
     /\ consent' = [consent EXCEPT ![d][r] =
                      [round |-> x.counterCount, proposal |-> x.llmProposal]]
     /\ \/ /\ both
           /\ disputes' = [disputes EXCEPT ![d] =
                [x EXCEPT !.accepted = Roles, !.resolved = TRUE,
                          !.outcome = "AcceptedProposal"]]
           /\ ResolveAccepted(d)
        \/ /\ ~both
           /\ disputes' = [disputes EXCEPT ![d].accepted = @ \cup {r}]
           /\ UNCHANGED <<tokenVars, registryVars>>
     /\ UNCHANGED <<now, disputeCounter, lastDisputeTime, tokenReserves, paused, ethVars,
                    createdAt>>

\* One more day per counter-proposal, up to the cap.
ExtendedStart(x) == IF x.counterCount + 1 <= MAX_TIME_EXTENSION
                    THEN x.startTime + 1
                    ELSE x.startTime

\* The record after a counter-proposal: a new round with nothing on the table.
RenegotiatedKeeping(x) == [x EXCEPT !.counterCount = @ + 1, !.llmProposal = NoProposal,
                                    !.startTime = ExtendedStart(x)]
Renegotiated(x) == [x EXCEPT !.counterCount = @ + 1, !.llmProposal = NoProposal,
                             !.accepted = {}, !.startTime = ExtendedStart(x)]

CountersLeftInclusive(x) == x.counterCount <= MAX_COUNTERS
CountersLeft(x) == x.counterCount < MAX_COUNTERS

CounterFee(count) == 2 ^ count      \* in units of COUNTER_FEE_BASE

\* Called by either party; the fee is burnt and the excess booked as treasury.
CounterPropose(d, value) ==
  LET x   == disputes[d]
      fee == CounterFee(x.counterCount)
  IN /\ ~paused
     /\ ~x.resolved
     /\ Staked(d)
     /\ CountersLeft(x)
     /\ value >= fee
     /\ treasury + (value - fee) <= MaxTreasury                      \* bound
     /\ ethBalance' = ethBalance + value - fee
     /\ treasury' = treasury + (value - fee)
     /\ disputes' = [disputes EXCEPT ![d] = Renegotiated(x)]
     /\ UNCHANGED <<now, registryVars, disputeCounter, lastDisputeTime, tokenReserves,
                    paused, tokenVars, historyVars>>

----------------------------------------------------------------------------
(* Exit without agreement.  Anyone may call enforceTimeout, paused or not. *)

Incentive(stake) == (stake * INITIATOR_INCENTIVE_BPS) \div 10000

UnfreezeAndApplyFallback(d) ==
  /\ UnfreezeAssets(ThisILRM, d)
  /\ ApplyFallbackLicense(ThisILRM, frozenAssets'[d], disputes[d].fallback)
  /\ UNCHANGED DisputesLeaveAlone

\* In this order: unfreezing deletes the list that the licence is applied to.
ApplyFallbackAndUnfreeze(d) ==
  /\ ApplyFallbackLicense(ThisILRM, frozenAssets[d], disputes[d].fallback)
  /\ UnfreezeAssets(ThisILRM, d)
  /\ UNCHANGED DisputesLeaveAlone

\* The reserves pay the incentive in full or not at all.
GrantedUnchecked(due) == due
Granted(due) == IF tokenReserves >= due THEN due ELSE 0

ResolveNonParticipation(d) ==
  LET x       == disputes[d]
      granted == Granted(Incentive(x.initiatorStake))
  IN /\ disputes' = [disputes EXCEPT ![d].resolved = TRUE,
                                     ![d].outcome = "DefaultLicenseApplied"]
     /\ tokenReserves' = tokenReserves - granted
     /\ wallet' = Credit(wallet, x.initiator, x.initiatorStake + granted)
     /\ held' = held - (x.initiatorStake + granted)
     /\ ApplyFallbackAndUnfreeze(d)
     /\ UNCHANGED burned

\* Half is burnt, the rest split, and the odd token that remains is burnt too.
ShareOf(total) == (total - (total * BURN_PERCENTAGE) \div 100) \div 2
BurntKeepingDust(total) == (total * BURN_PERCENTAGE) \div 100
Burnt(total) == total - 2 * ShareOf(total)

ResolveTimeout(d) ==
  LET x     == disputes[d]
      total == StakeOf(d)
      share == ShareOf(total)
  IN /\ disputes' = [disputes EXCEPT ![d].resolved = TRUE,
                                     ![d].outcome = "TimeoutWithBurn"]
     /\ wallet' = Credit(Credit(wallet, x.initiator, share), x.counterparty, share)
     /\ burned' = burned + Burnt(total)
     /\ held' = held - (Burnt(total) + 2 * share)
     /\ ApplyFallbackAndUnfreeze(d)
     /\ UNCHANGED tokenReserves

Exit(d) ==
  \/ /\ ~Staked(d)
     /\ StakeWindowOver(disputes[d])
     /\ ResolveNonParticipation(d)
  \/ /\ Staked(d)
     /\ TimedOut(disputes[d])
     /\ ResolveTimeout(d)

EnforceTimeoutUnlessPaused(d) ==
  /\ ~paused
  /\ Open(d)
  /\ Exit(d)
  /\ UNCHANGED <<now, disputeCounter, lastDisputeTime, paused, ethVars, historyVars>>

\* (An id not in use would pay address(0), which the token refuses.)
EnforceTimeout(d) ==
  /\ Open(d)
  /\ Exit(d)
  /\ UNCHANGED <<now, disputeCounter, lastDisputeTime, paused, ethVars, historyVars>>

----------------------------------------------------------------------------
(* Funds and administration.                                               *)

DepositTokenReserves(p, amount) ==
  /\ tokenReserves + amount <= MaxReserves                            \* bound
  /\ wallet[p] >= amount
  /\ wallet' = [wallet EXCEPT ![p] = @ - amount]
  /\ held' = held + amount
  /\ tokenReserves' = tokenReserves + amount
  /\ UNCHANGED <<now, registryVars, disputes, disputeCounter, lastDisputeTime, paused,
                 burned, ethVars, historyVars>>

ReceiveEther(value) ==
  /\ treasury + value <= MaxTreasury                                 \* bound
  /\ treasury' = treasury + value
  /\ ethBalance' = ethBalance + value
  /\ UNCHANGED <<now, registryVars, disputes, disputeCounter, lastDisputeTime,
                 tokenReserves, paused, tokenVars, historyVars>>

WithdrawTreasury(amount) ==
  /\ amount <= treasury
  /\ treasury' = treasury - amount
  /\ ethBalance' = ethBalance - amount
  /\ UNCHANGED <<now, registryVars, disputes, disputeCounter, lastDisputeTime,
                 tokenReserves, paused, tokenVars, historyVars>>

SetPaused(flag) ==
  /\ paused = ~flag
  /\ paused' = flag
  /\ UNCHANGED <<now, registryVars, disputes, disputeCounter, lastDisputeTime,
                 tokenReserves, tokenVars, ethVars, historyVars>>

Pause == SetPaused(TRUE)
Unpause == SetPaused(FALSE)

----------------------------------------------------------------------------
(* The contract, its users and the registry beside it.                     *)

PartyNext(d) ==
  \/ DepositStake(d)
  \/ \E r \in Roles : AcceptProposal(d, r)
  \/ \E value \in MsgValues : CounterPropose(d, value)
  \/ EnforceTimeout(d)

FundsNext ==
  \/ \E p \in Sponsors, amount \in Deposits : DepositTokenReserves(p, amount)
  \/ \E value \in MsgValues : ReceiveEther(value) \/ WithdrawTreasury(value)
  \/ Pause
  \/ Unpause

\* All but the oracle.
UsersNext ==
  \/ \E p, c \in Accounts, base \in Stakes, t \in FallbackTerms : InitiateBreachDispute(p, c, base, t)
  \/ \E d \in DisputeIds : PartyNext(d)
  \/ FundsNext
  \/ (UserNext \/ OwnerNext) /\ UNCHANGED <<now, ilrmVars>>
  \/ Tick /\ UNCHANGED <<registryVars, ilrmVars>>

Next == \/ UsersNext
        \/ \E d \in DisputeIds, text \in Proposals : SubmitLLMProposal(d, text)

\* Days pass, and somebody calls enforceTimeout once it no longer reverts: the
\* call is open to anyone, and a party or a keeper has its stake to gain.
Fairness == /\ WF_vars(Tick /\ UNCHANGED <<registryVars, ilrmVars>>)
            /\ \A d \in DisputeIds : WF_vars(EnforceTimeout(d))

Spec == Init /\ [][Next]_vars
FairSpec == Spec /\ Fairness
=============================================================================

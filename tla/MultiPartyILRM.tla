--------------------------- MODULE MultiPartyILRM ---------------------------
(***************************************************************************)
(* The MultiPartyILRM contract: disputes among any number of parties that  *)
(* resolve by quorum, with late joining, beside an asset registry of its   *)
(* own.  As in ILRM a transaction is one action.                           *)
(*                                                                         *)
(* An operator that nothing refers to is a mistake the code could contain, *)
(* kept above the definition whose place it would take.                    *)
(***************************************************************************)
EXTENDS AssetRegistry, FiniteSetsExt

CONSTANTS ThisMP,               \* the address of this contract
          Configs,              \* dispute configurations initiators choose
          Proposals, NoProposal,
          BaseStakes,
          MsgValues,            \* ETH sent along, in units of COUNTER_FEE_BASE
          InitialTokens,
          MaxTreasury,          \* bound: ETH collected in the treasury
          MAX_COUNTERS, MAX_TIME_EXTENSION

MIN_PARTIES       == 2
BURN_PERCENTAGE   == 50
BPS_DENOMINATOR   == 10000

QuorumTypes == {"Unanimous", "SuperMajority", "SimpleMajority", "Custom"}
Config == [quorumType: QuorumTypes, customQuorumBps: 0 .. BPS_DENOMINATOR,
           minParties: Nat, maxParties: Nat, stakeWindow: Nat \ {0},
           resolutionTimeout: Nat \ {0}, allowLateJoin: BOOLEAN]

ASSUME MultiPartyAssumption ==
  /\ ThisMP \in Ilrms
  /\ Configs # {}
  /\ \A cf \in Configs : /\ cf \in Config
                         /\ cf.minParties >= MIN_PARTIES
                         /\ cf.quorumType = "Custom" => cf.customQuorumBps > 0
  /\ NoProposal \notin Proposals
  /\ BaseStakes \subseteq Nat \ {0}
  /\ MsgValues \subseteq Nat
  /\ InitialTokens \in Nat
  /\ MaxTreasury \in Nat
  /\ MAX_COUNTERS \in Nat
  /\ MAX_TIME_EXTENSION \in Nat
  /\ DisputeIds = 0 .. (Cardinality(DisputeIds) - 1)

VARIABLES
  mp,               \* _disputes, _partyList and _partyInfo of each id
  mpCounter,        \* _disputeCounter
  treasury,         \* ETH the contract has booked
  ethBalance,       \* ETH it holds
  paused,
  wallet, held, burned,
  consent           \* history: what each party last accepted, and in which round

fundVars == <<treasury, ethBalance, paused, wallet, held, burned>>
mpVars == <<mp, mpCounter, fundVars, consent>>
vars == <<now, registryVars, mpVars>>

Outcomes == {"Pending", "QuorumAccepted", "PartialResolution", "TimeoutWithBurn"}

MultiPartyDispute ==
  [initiator: Accounts \cup {NoOne}, baseStake: Nat, totalStaked: Nat, startTime: Nat,
   llmProposal: Proposals \cup {NoProposal}, acceptanceCount: Nat, rejectionCount: Nat,
   resolved: BOOLEAN, outcome: Outcomes, fallback: FallbackTerms,
   counterCount: 0 .. MAX_COUNTERS, config: Configs,
   parties: SUBSET Accounts,    \* _partyList, whose order nothing depends on
   staked: SUBSET Accounts,     \* hasStaked; each stake is baseStake
   accepted: SUBSET Accounts,   \* hasAccepted
   rejected: SUBSET Accounts]   \* hasRejected

NoDispute ==
  [initiator |-> NoOne, baseStake |-> 0, totalStaked |-> 0, startTime |-> 0,
   llmProposal |-> NoProposal, acceptanceCount |-> 0, rejectionCount |-> 0,
   resolved |-> FALSE, outcome |-> "Pending", fallback |-> CHOOSE t \in FallbackTerms : TRUE,
   counterCount |-> 0, config |-> CHOOSE cf \in Configs : TRUE,
   parties |-> {}, staked |-> {}, accepted |-> {}, rejected |-> {}]

Consent == [round: 0 .. MAX_COUNTERS, proposal: Proposals \cup {NoProposal}]

MPTypeOK ==
  /\ now \in Nat \ {0}
  /\ RegistryTypeOK
  /\ mp \in [DisputeIds -> MultiPartyDispute]
  /\ mpCounter \in Nat
  /\ treasury \in Nat
  /\ ethBalance \in Nat
  /\ paused \in BOOLEAN
  /\ wallet \in [Accounts -> Nat]
  /\ held \in Nat
  /\ burned \in Nat
  /\ consent \in [DisputeIds -> [Accounts -> Consent]]

Init ==
  /\ BlockInit
  /\ RegistryInit
  /\ mp = [d \in DisputeIds |-> NoDispute]
  /\ mpCounter = 0
  /\ treasury = 0
  /\ ethBalance = 0
  /\ paused = FALSE
  /\ wallet = [p \in Accounts |-> InitialTokens]
  /\ held = 0
  /\ burned = 0
  /\ consent = [d \in DisputeIds |->
                  [p \in Accounts |-> [round |-> 0, proposal |-> NoProposal]]]

----------------------------------------------------------------------------
Exists(d) == mp[d].initiator # NoOne
Open(d) == Exists(d) /\ ~mp[d].resolved

StakeDeadline(x) == x.startTime + x.config.stakeWindow
ResolutionDeadline(x) == StakeDeadline(x) + x.config.resolutionTimeout

AllPartiesStaked(x) == x.parties \subseteq x.staked

\* _getQuorumRequirement: of the parties there are now, late joiners included.
QuorumRequirement(x) ==
  LET total == Cardinality(x.parties)
  IN CASE x.config.quorumType = "Unanimous"      -> total
       [] x.config.quorumType = "SuperMajority"  -> (total * 6667) \div BPS_DENOMINATOR + 1
       [] x.config.quorumType = "SimpleMajority" -> (total \div 2) + 1
       [] x.config.quorumType = "Custom"         -> (total * x.config.customQuorumBps)
                                                      \div BPS_DENOMINATOR

Pays(p, amount) == /\ wallet[p] >= amount
                   /\ wallet' = [wallet EXCEPT ![p] = @ - amount]
                   /\ held' = held + amount

\* Each of a set of accounts receives amount.
Receive(ps, amount) == [p \in Accounts |-> wallet[p] + (IF p \in ps THEN amount ELSE 0)]

----------------------------------------------------------------------------
(* Joining and staking.                                                    *)

CreateMultiPartyDispute(p, parties, base, t, cf) ==
  LET d == mpCounter
  IN /\ ~paused
     /\ Cardinality(parties) >= MIN_PARTIES
     /\ cf.minParties <= Cardinality(parties)
     /\ p \in parties
     /\ d \in DisputeIds                                                        \* bound
     /\ now + cf.stakeWindow + cf.resolutionTimeout + MAX_TIME_EXTENSION < Horizon \* bound
     /\ Pays(p, base)
     /\ mpCounter' = d + 1
     /\ mp' = [mp EXCEPT ![d] =
                 [NoDispute EXCEPT !.initiator = p, !.baseStake = base, !.totalStaked = base,
                                   !.startTime = now, !.fallback = t, !.config = cf,
                                   !.parties = parties, !.staked = {p}]]
     /\ FreezeAssets(ThisMP, d, p)
     /\ UNCHANGED <<now, terms, DisputesLeaveAlone, treasury, ethBalance, paused, burned,
                    consent>>

JoinDispute(d, p) ==
  LET x == mp[d]
  IN /\ ~paused
     /\ Exists(d)
     /\ ~x.resolved
     /\ x.config.allowLateJoin
     /\ p \notin x.parties
     /\ Cardinality(x.parties) < x.config.maxParties
     /\ now <= StakeDeadline(x)
     /\ mp' = [mp EXCEPT ![d].parties = @ \cup {p}]
     /\ UNCHANGED <<now, registryVars, mpCounter, fundVars, consent>>

\* Staking is what freezes a party's assets.
DepositStake(d, p) ==
  LET x == mp[d]
  IN /\ ~paused
     /\ ~x.resolved
     /\ p \in x.parties
     /\ p \notin x.staked
     /\ now <= StakeDeadline(x)
     /\ Pays(p, x.baseStake)
     /\ mp' = [mp EXCEPT ![d].staked = @ \cup {p}, ![d].totalStaked = @ + x.baseStake]
     /\ FreezeAssets(ThisMP, d, p)
     /\ UNCHANGED <<now, terms, DisputesLeaveAlone, mpCounter, treasury, ethBalance, paused,
                    burned, consent>>

----------------------------------------------------------------------------
(* Negotiation.                                                            *)

TabledKeepingVotes(x, text) == [x EXCEPT !.llmProposal = text]
TabledKeepingFlags(x, text) == [x EXCEPT !.llmProposal = text, !.acceptanceCount = 0,
                                         !.rejectionCount = 0]
\* A new text on the table: every vote is cast again.
Tabled(x, text) == [x EXCEPT !.llmProposal = text, !.acceptanceCount = 0,
                             !.rejectionCount = 0, !.accepted = {}, !.rejected = {}]

SubmitLLMProposal(d, text) ==
  /\ Exists(d)
  /\ ~mp[d].resolved
  /\ AllPartiesStaked(mp[d])
  /\ mp' = [mp EXCEPT ![d] = Tabled(mp[d], text)]
  /\ UNCHANGED <<now, registryVars, mpCounter, fundVars, consent>>

MayVote(d, p) == /\ ~mp[d].resolved
                 /\ p \in mp[d].parties
                 /\ p \in mp[d].staked
                 /\ mp[d].llmProposal # NoProposal
                 /\ p \notin mp[d].accepted
                 /\ p \notin mp[d].rejected

\* Stakes go back to those who paid one, assets are released.
ResolveWithQuorum(d) ==
  /\ wallet' = Receive(mp[d].staked, mp[d].baseStake)
  /\ held' = held - Cardinality(mp[d].staked) * mp[d].baseStake
  /\ UnfreezeAssets(ThisMP, d)
  /\ UNCHANGED <<terms, DisputesLeaveAlone>>

AcceptedBy(x, p) == [x EXCEPT !.accepted = @ \cup {p}, !.acceptanceCount = @ + 1]

AcceptProposal(d, p) ==
  LET x       == AcceptedBy(mp[d], p)
      reached == x.acceptanceCount >= QuorumRequirement(x)
  IN /\ MayVote(d, p)
     /\ now <= ResolutionDeadline(x)
     /\ consent' = [consent EXCEPT ![d][p] =
                      [round |-> x.counterCount, proposal |-> x.llmProposal]]
     /\ \/ /\ reached
           /\ mp' = [mp EXCEPT ![d] = [x EXCEPT !.resolved = TRUE, !.outcome = "QuorumAccepted"]]
           /\ ResolveWithQuorum(d)
        \/ /\ ~reached
           /\ mp' = [mp EXCEPT ![d] = x]
           /\ UNCHANGED <<registryVars, wallet, held>>
     /\ UNCHANGED <<now, mpCounter, treasury, ethBalance, paused, burned>>

\* That a quorum is out of reach is noticed and left at that.
RejectProposal(d, p) ==
  /\ MayVote(d, p)
  /\ mp' = [mp EXCEPT ![d].rejected = @ \cup {p}, ![d].rejectionCount = @ + 1]
  /\ UNCHANGED <<now, registryVars, mpCounter, fundVars, consent>>

ExtendedStart(x) == IF x.counterCount + 1 <= MAX_TIME_EXTENSION
                    THEN x.startTime + 1
                    ELSE x.startTime

CountersLeft(x) == x.counterCount < MAX_COUNTERS

CounterFee(count) == 2 ^ count      \* in units of COUNTER_FEE_BASE

\* By any party that has staked, whether or not the others have.
CounterPropose(d, p, value) ==
  LET x   == mp[d]
      fee == CounterFee(x.counterCount)
  IN /\ ~paused
     /\ ~x.resolved
     /\ p \in x.parties
     /\ p \in x.staked
     /\ CountersLeft(x)
     /\ value >= fee
     /\ treasury + (value - fee) <= MaxTreasury                              \* bound
     /\ treasury' = treasury + (value - fee)
     /\ ethBalance' = ethBalance + (value - fee)
     /\ mp' = [mp EXCEPT ![d] = [Tabled(x, NoProposal) EXCEPT
                                   !.counterCount = @ + 1, !.startTime = ExtendedStart(x)]]
     /\ UNCHANGED <<now, registryVars, mpCounter, paused, wallet, held, burned, consent>>

----------------------------------------------------------------------------
(* Exit without quorum.                                                    *)

\* In this order: the fallback licence finds the list already deleted.
UnfreezeAndApplyFallback(d) ==
  /\ UnfreezeAssets(ThisMP, d)
  /\ ApplyFallbackLicense(ThisMP, frozenAssets'[d], mp[d].fallback)
  /\ UNCHANGED DisputesLeaveAlone

Settled(x, outcome) == [x EXCEPT !.resolved = TRUE, !.outcome = outcome]

ResolveNonParticipation(d) ==
  /\ mp' = [mp EXCEPT ![d] = Settled(@, "PartialResolution")]
  /\ wallet' = Receive(mp[d].staked, mp[d].baseStake)
  /\ held' = held - Cardinality(mp[d].staked) * mp[d].baseStake
  /\ UnfreezeAndApplyFallback(d)
  /\ UNCHANGED burned

ShareOf(x) == (x.totalStaked - (x.totalStaked * BURN_PERCENTAGE) \div 100)
                \div Cardinality(x.parties)
BurntKeepingDust(x) == (x.totalStaked * BURN_PERCENTAGE) \div 100
\* Half, and what does not divide evenly.
Burnt(x) == x.totalStaked - Cardinality(x.parties) * ShareOf(x)

ResolveTimeout(d) ==
  LET x == mp[d]
  IN /\ mp' = [mp EXCEPT ![d] = Settled(@, "TimeoutWithBurn")]
     /\ wallet' = Receive(x.staked, ShareOf(x))
     /\ burned' = burned + Burnt(x)
     /\ held' = held - (Burnt(x) + Cardinality(x.staked) * ShareOf(x))
     /\ UnfreezeAndApplyFallback(d)

EnforceTimeout(d) ==
  /\ Open(d)
  /\ \/ /\ ~AllPartiesStaked(mp[d])
        /\ now > StakeDeadline(mp[d])
        /\ ResolveNonParticipation(d)
     \/ /\ AllPartiesStaked(mp[d])
        /\ now > ResolutionDeadline(mp[d])
        /\ ResolveTimeout(d)
  /\ UNCHANGED <<now, mpCounter, treasury, ethBalance, paused, consent>>

----------------------------------------------------------------------------
(* Administration.                                                         *)

ReceiveEther(value) ==
  /\ treasury + value <= MaxTreasury                                         \* bound
  /\ treasury' = treasury + value
  /\ ethBalance' = ethBalance + value
  /\ UNCHANGED <<now, registryVars, mp, mpCounter, paused, wallet, held, burned, consent>>

WithdrawTreasury(amount) ==
  /\ amount <= treasury
  /\ treasury' = treasury - amount
  /\ ethBalance' = ethBalance - amount
  /\ UNCHANGED <<now, registryVars, mp, mpCounter, paused, wallet, held, burned, consent>>

SetPaused(flag) ==
  /\ paused = ~flag
  /\ paused' = flag
  /\ UNCHANGED <<now, registryVars, mp, mpCounter, treasury, ethBalance, wallet, held, burned,
                 consent>>

PartyNext(d, p) ==
  \/ JoinDispute(d, p)
  \/ DepositStake(d, p)
  \/ AcceptProposal(d, p)
  \/ RejectProposal(d, p)
  \/ \E value \in MsgValues : CounterPropose(d, p, value)

AdminNext ==
  \/ \E value \in MsgValues : ReceiveEther(value) \/ WithdrawTreasury(value)
  \/ \E flag \in BOOLEAN : SetPaused(flag)

Next ==
  \/ \E p \in Accounts, parties \in SUBSET Accounts, base \in BaseStakes, t \in FallbackTerms,
        cf \in Configs : CreateMultiPartyDispute(p, parties, base, t, cf)
  \/ \E d \in DisputeIds :
        \/ \E p \in Accounts : PartyNext(d, p)
        \/ \E text \in Proposals : SubmitLLMProposal(d, text)
        \/ EnforceTimeout(d)
  \/ AdminNext
  \/ (UserNext \/ OwnerNext) /\ UNCHANGED <<now, mpVars>>
  \/ Tick /\ UNCHANGED <<registryVars, mpVars>>

Spec == Init /\ [][Next]_vars
=============================================================================

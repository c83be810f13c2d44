----------------------------- MODULE ILRM_proofs -----------------------------
(***************************************************************************)
(* Proofs about the two-party protocol: type correctness, the agreement of *)
(* freeze lists, assets and disputes, what the rounds of negotiation do to *)
(* consent and to deadlines, and where stakes and tokens go, for every     *)
(* number of accounts, assets and disputes and every value of the windows. *)
(***************************************************************************)
EXTENDS ILRMProps, Registry_proofs, FiniteAlgebra

\* Ids are used once, in order; an id not in use is the zero record; the parties of
\* a dispute are two different accounts.
DisputesWellFormed ==
  /\ \A d \in DisputeIds : d >= disputeCounter => ~Exists(d)
  /\ \A d \in DisputeIds : ~Exists(d) => disputes[d] = NoDispute
  /\ \A d \in DisputeIds : Exists(d) => /\ disputes[d].initiator \in Accounts
                                        /\ disputes[d].counterparty \in Accounts
                                        /\ disputes[d].counterparty # disputes[d].initiator

\* What the registry alone cannot know: only an open dispute holds assets, and they
\* are its initiator's.
HeldByInitiator ==
  \A d \in DisputeIds : \A a \in frozenAssets[d] :
     Open(d) /\ owner[a] = disputes[d].initiator

\* Withdrawing the treasury never overdraws the contract.
EtherBacked == treasury <= ethBalance

IInv == /\ now \in Nat \ {0}
        /\ RegInv
        /\ ILRMTypeOK
        /\ DisputesWellFormed
        /\ HeldByInitiator
        /\ EtherBacked

\* All assumptions about constants.
LEMMA Constants == HorizonAssumption /\ RegistryAssumption /\ ILRMAssumption
  BY HorizonAssumption, RegistryAssumption, ILRMAssumption

----------------------------------------------------------------------------
(* Arithmetic of stakes.                                                   *)

LEMMA CounterFeeType == \A n \in 0 .. MAX_COUNTERS : CounterFee(n) \in Nat
  BY PowersOfTwo, ILRMAssumption DEF CounterFee, ILRMAssumption

LEMMA IncentiveType == \A s \in Nat : Incentive(s) \in Nat
  BY DEF Incentive, INITIATOR_INCENTIVE_BPS

LEMMA SharesAddUp ==
  ASSUME NEW total \in Nat
  PROVE  /\ ShareOf(total) \in Nat
         /\ Burnt(total) \in Nat
         /\ Burnt(total) + 2 * ShareOf(total) = total
  BY DEF ShareOf, Burnt, BURN_PERCENTAGE

LEMMA CreditType ==
  ASSUME NEW S, NEW f \in [S -> Nat], NEW p \in S, NEW n \in Nat
  PROVE  Credit(f, p, n) \in [S -> Nat]
  BY DEF Credit

LEMMA EscalatedStakeType ==
  ASSUME ILRMTypeOK, NEW p \in Accounts, NEW c \in Accounts, NEW base \in Nat \ {0}
  PROVE  EscalatedStake(p, c, base) \in Nat \ {0}
  BY DEF EscalatedStake, ESCALATION_MULTIPLIER

----------------------------------------------------------------------------
(* One lemma per action.                                                   *)

LEMMA NoDisputeType == NoDispute \in Dispute
  <1> DEFINE first == CHOOSE t \in FallbackTerms : TRUE
  <1>1. first \in FallbackTerms
    BY RegistryAssumption DEF RegistryAssumption
  <1>2. 0 \in 0 .. MAX_COUNTERS
    BY ILRMAssumption DEF ILRMAssumption
  <1>3. "Pending" \in Outcomes /\ {} \in SUBSET Roles /\ FALSE \in BOOLEAN
    BY DEF Outcomes
  <1> HIDE DEF first
  <1> QED
    BY <1>1, <1>2, <1>3 DEF NoDispute, Dispute, first

LEMMA NoDisputeFields == /\ NoDispute.initiator = NoOne
                         /\ NoDispute.counterpartyStake = 0
                         /\ NoDispute.resolved = FALSE
  BY DEF NoDispute

LEMMA InitInv == Init => IInv
  <1> SUFFICES ASSUME Init PROVE IInv
    OBVIOUS
  <1>1. now \in Nat \ {0}
    BY DEF Init, BlockInit
  <1>2. RegInv
    BY RegistryInitInv, RegistryAssumption DEF Init
  <1>3. ILRMTypeOK
    <2>1. NoDispute \in Dispute
      BY NoDisputeType
    <2>2. NoConsent \in [Roles -> Consent]
      BY ILRMAssumption DEF NoConsent, Consent, ILRMAssumption
    <2>3. /\ disputes \in [DisputeIds -> Dispute]
          /\ consent \in [DisputeIds -> [Roles -> Consent]]
          /\ createdAt \in [DisputeIds -> Nat]
      BY <2>1, <2>2 DEF Init
    <2>4. /\ wallet \in [TokenHolders -> Nat]
          /\ lastDisputeTime \in [Accounts -> [Accounts -> Nat]]
      BY ILRMAssumption DEF Init, ILRMAssumption
    <2>5. /\ disputeCounter \in Nat
          /\ treasury \in Nat
          /\ ethBalance \in Nat
          /\ tokenReserves \in Nat
          /\ held \in Int
          /\ burned \in Nat
      BY DEF Init
    <2>6. paused \in BOOLEAN
      BY DEF Init
    <2> QED
      BY <2>3, <2>4, <2>5, <2>6 DEF ILRMTypeOK
  <1>4. DisputesWellFormed
    BY DEF Init, DisputesWellFormed, Exists, NoDispute
  <1>5. HeldByInitiator /\ EtherBacked
    BY DEF Init, RegistryInit, HeldByInitiator, EtherBacked
  <1> QED
    BY <1>1, <1>2, <1>3, <1>4, <1>5 DEF IInv

LEMMA InitiateInv ==
  ASSUME IInv, NEW p \in Accounts, NEW c \in Accounts, NEW base \in Stakes,
         NEW t \in FallbackTerms, InitiateBreachDispute(p, c, base, t)
  PROVE  IInv'
  <1> DEFINE d     == disputeCounter
             stake == EscalatedStake(p, c, base)
             new   == [NoDispute EXCEPT !.initiator = p, !.counterparty = c,
                                        !.initiatorStake = stake,
                                        !.startTime = now, !.fallback = t]
  <1>1. stake \in Nat \ {0} /\ d \in DisputeIds /\ d \in Nat
    BY EscalatedStakeType, ILRMAssumption DEF IInv, ILRMTypeOK, ILRMAssumption, InitiateBreachDispute
  <1>2. /\ disputes' = [disputes EXCEPT ![d] = new]
        /\ disputeCounter' = d + 1
        /\ wallet[p] >= stake
        /\ wallet' = [wallet EXCEPT ![p] = @ - stake]
        /\ held' = held + stake
        /\ c # p
        /\ createdAt' = [createdAt EXCEPT ![d] = now]
        /\ lastDisputeTime' = [lastDisputeTime EXCEPT ![p][c] = now]
        /\ FreezeAssets(ThisILRM, d, p)
        /\ UNCHANGED <<now, terms, DisputesLeaveAlone, tokenReserves, paused, burned,
                       treasury, ethBalance, consent>>
    BY DEF InitiateBreachDispute, ethVars
  <1>3. new \in Dispute
    BY <1>1, NoDisputeType DEF Dispute, IInv
  <1>4. new.initiator = p /\ new.counterparty = c /\ ~new.resolved
    BY DEF NoDispute
  <1> HIDE DEF d, stake, new
  <1>5. RegInv'
    BY <1>1, <1>2, FreezeAssetsInv, RegistryAssumption DEF IInv
  <1>6. ILRMTypeOK'
    BY <1>1, <1>2, <1>3 DEF IInv, ILRMTypeOK, TokenHolders
  <1>7. disputes'[d] = new /\ \A e \in DisputeIds \ {d} : disputes'[e] = disputes[e]
    BY <1>1, <1>2 DEF IInv, ILRMTypeOK
  <1>8. ~Exists(d) /\ frozenAssets[d] = {}
    BY <1>1 DEF IInv, DisputesWellFormed, HeldByInitiator, Open, RegInv, RegistryTypeOK, d
  <1>9. DisputesWellFormed'
    <2>1. \A e \in DisputeIds : e \in Nat
      BY RegistryAssumption DEF RegistryAssumption
    <2>2. disputeCounter' = d + 1 /\ d = disputeCounter
      BY <1>2 DEF d
    <2> QED
      BY <1>1, <1>2, <1>4, <1>7, <2>1, <2>2, RegistryAssumption
         DEF IInv, DisputesWellFormed, Exists, RegistryAssumption
  <1>10. HeldByInitiator'
    <2>1. \A a \in Freezable(p) : owner[a] = p
      BY FreezableProperty DEF IInv
    <2>2. /\ frozenAssets'[d] = Freezable(p)
          /\ \A e \in DisputeIds \ {d} : frozenAssets'[e] = frozenAssets[e]
      BY <1>1, <1>2, <1>8 DEF FreezeAssets, IInv, RegInv, RegistryTypeOK
    <2>3. owner' = owner
      BY <1>2 DEF DisputesLeaveAlone
    <2> QED
      BY <2>1, <2>2, <2>3, <1>4, <1>7, RegistryAssumption
         DEF IInv, HeldByInitiator, Open, Exists, RegistryAssumption
  <1> QED
    BY <1>2, <1>5, <1>6, <1>9, <1>10 DEF IInv, EtherBacked

\* What every later step does to a dispute: its parties stay.
LEMMA KeepsDisputes ==
  ASSUME IInv, NEW d \in DisputeIds, NEW x \in Dispute, Exists(d),
         disputes' = [disputes EXCEPT ![d] = x], UNCHANGED disputeCounter,
         x.initiator = disputes[d].initiator, x.counterparty = disputes[d].counterparty
  PROVE  /\ disputes' \in [DisputeIds -> Dispute]
         /\ disputes'[d] = x
         /\ \A e \in DisputeIds \ {d} : disputes'[e] = disputes[e]
         /\ DisputesWellFormed'
  BY DEF IInv, ILRMTypeOK, DisputesWellFormed, Exists

\* As long as the registry is left alone and the dispute stays open.
LEMMA KeepsHolding ==
  ASSUME IInv, NEW d \in DisputeIds, NEW x \in Dispute, ~x.resolved,
         disputes' = [disputes EXCEPT ![d] = x], UNCHANGED registryVars,
         x.initiator = disputes[d].initiator
  PROVE  RegInv' /\ HeldByInitiator'
  BY DEF IInv, RegInv, RegistryTypeOK, OwnershipIndexed, FrozenOnOneList, UnownedActive,
         ILRMTypeOK, HeldByInitiator, Open, Exists, registryVars, assetVars

LEMMA StakedExists ==
  ASSUME IInv, NEW d \in DisputeIds, Staked(d)
  PROVE  Exists(d)
  BY NoDisputeFields DEF IInv, DisputesWellFormed, Staked

LEMMA DepositStakeInv ==
  ASSUME IInv, NEW d \in DisputeIds, DepositStake(d)
  PROVE  IInv'
  <1> DEFINE x     == disputes[d]
             stake == x.initiatorStake
             y     == [x EXCEPT !.counterpartyStake = stake]
  <1>1. x \in Dispute /\ stake \in Nat
    BY DEF IInv, ILRMTypeOK, Dispute
  <1>2. /\ y \in Dispute
        /\ y.initiator = x.initiator /\ y.counterparty = x.counterparty
        /\ y.resolved = x.resolved
    BY <1>1 DEF Dispute
  <1>3. /\ disputes' = [disputes EXCEPT ![d] = y]
        /\ Exists(d)
        /\ ~x.resolved
        /\ x.counterparty \in Accounts
        /\ wallet[x.counterparty] >= stake
        /\ wallet' = [wallet EXCEPT ![x.counterparty] = @ - stake]
        /\ held' = held + stake
        /\ UNCHANGED <<now, registryVars, disputeCounter, lastDisputeTime, tokenReserves,
                       paused, burned, treasury, ethBalance, createdAt, consent>>
    BY DEF DepositStake, ethVars, historyVars, IInv, DisputesWellFormed, ILRMTypeOK
  <1> HIDE DEF x, stake, y
  <1>4. x = disputes[d]
    BY DEF x
  <1>5. /\ disputes' \in [DisputeIds -> Dispute]
        /\ DisputesWellFormed'
    BY <1>2, <1>3, <1>4, KeepsDisputes
  <1>6. RegInv' /\ HeldByInitiator'
    BY <1>2, <1>3, <1>4, KeepsHolding
  <1>7. wallet' \in [TokenHolders -> Nat] /\ held' \in Int
    BY <1>1, <1>3 DEF IInv, ILRMTypeOK, TokenHolders
  <1> QED
    BY <1>3, <1>5, <1>6, <1>7 DEF IInv, ILRMTypeOK, EtherBacked

LEMMA SubmitProposalInv ==
  ASSUME IInv, NEW d \in DisputeIds, NEW text \in Proposals, SubmitLLMProposal(d, text)
  PROVE  IInv'
  <1> DEFINE x == disputes[d]
             y == [x EXCEPT !.llmProposal = text]
  <1>0. x \in Dispute
    BY DEF IInv, ILRMTypeOK
  <1>1. /\ y \in Dispute
        /\ y.initiator = x.initiator /\ y.counterparty = x.counterparty
        /\ y.resolved = x.resolved
    BY <1>0 DEF Dispute
  <1>2. /\ disputes' = [disputes EXCEPT ![d] = y]
        /\ Exists(d)
        /\ ~x.resolved
        /\ UNCHANGED <<now, registryVars, disputeCounter, lastDisputeTime, tokenReserves, wallet,
                       held, paused, burned, treasury, ethBalance, createdAt, consent>>
    BY StakedExists DEF SubmitLLMProposal, ethVars, historyVars, tokenVars, IInv, ILRMTypeOK
  <1> HIDE DEF y
  <1>3. /\ disputes' \in [DisputeIds -> Dispute]
        /\ DisputesWellFormed'
    BY <1>1, <1>2, KeepsDisputes
  <1>4. RegInv' /\ HeldByInitiator'
    BY <1>1, <1>2, KeepsHolding
  <1> QED
    BY <1>2, <1>3, <1>4 DEF IInv, ILRMTypeOK, EtherBacked

\* What the three resolutions have in common: the dispute is settled and the assets
\* it froze are released, under the fallback licence or not.
LEMMA ResolutionInv ==
  ASSUME IInv, NEW d \in DisputeIds, NEW x \in Dispute, Open(d),
         disputes' = [disputes EXCEPT ![d] = x], UNCHANGED disputeCounter,
         x.initiator = disputes[d].initiator, x.counterparty = disputes[d].counterparty,
         UnfreezeAssets(ThisILRM, d), terms' \in [Assets -> Terms],
         UNCHANGED DisputesLeaveAlone
  PROVE  RegInv' /\ disputes' \in [DisputeIds -> Dispute] /\ DisputesWellFormed' /\ HeldByInitiator'
  <1>1. RegInv'
    BY UnfreezeAssetsInv, RegistryAssumption DEF IInv
  <1>2. /\ disputes' \in [DisputeIds -> Dispute]
        /\ \A e \in DisputeIds \ {d} : disputes'[e] = disputes[e]
        /\ DisputesWellFormed'
    BY KeepsDisputes DEF Open
  <1>3. /\ frozenAssets'[d] = {}
        /\ \A e \in DisputeIds \ {d} : frozenAssets'[e] = frozenAssets[e]
        /\ owner' = owner
    BY DEF UnfreezeAssets, DisputesLeaveAlone, IInv, RegInv, RegistryTypeOK
  <1>4. HeldByInitiator'
    BY <1>2, <1>3 DEF IInv, HeldByInitiator, Open, Exists
  <1> QED
    BY <1>1, <1>2, <1>4

\* The parties of a dispute hold tokens, so a payment to them stays in the books.
LEMMA PaymentType ==
  ASSUME IInv, NEW d \in DisputeIds, Exists(d), NEW n \in Nat, NEW m \in Nat
  PROVE  /\ Credit(wallet, disputes[d].initiator, n) \in [TokenHolders -> Nat]
         /\ Credit(Credit(wallet, disputes[d].initiator, n), disputes[d].counterparty, m)
              \in [TokenHolders -> Nat]
  <1>1. disputes[d].initiator \in TokenHolders /\ disputes[d].counterparty \in TokenHolders
    BY DEF IInv, DisputesWellFormed, TokenHolders
  <1>2. wallet \in [TokenHolders -> Nat]
    BY DEF IInv, ILRMTypeOK
  <1>3. Credit(wallet, disputes[d].initiator, n) \in [TokenHolders -> Nat]
    BY <1>1, <1>2, CreditType
  <1> QED
    BY <1>1, <1>3, CreditType

LEMMA StakeType ==
  ASSUME IInv, NEW d \in DisputeIds
  PROVE  /\ disputes[d] \in Dispute
         /\ disputes[d].initiatorStake \in Nat
         /\ disputes[d].counterpartyStake \in Nat
         /\ StakeOf(d) \in Nat
  <1>1. disputes[d] \in Dispute
    BY DEF IInv, ILRMTypeOK
  <1> QED
    BY <1>1 DEF Dispute, StakeOf

LEMMA AcceptInv ==
  ASSUME IInv, NEW d \in DisputeIds, NEW r \in Roles, AcceptProposal(d, r)
  PROVE  IInv'
  <1> DEFINE x    == disputes[d]
             both == x.accepted \cup {r} = Roles
             mine == [round |-> x.counterCount, proposal |-> x.llmProposal]
  <1>1. /\ x \in Dispute
        /\ x.initiatorStake \in Nat /\ x.counterpartyStake \in Nat
        /\ Open(d)
    BY StakeType DEF AcceptProposal, Open
  <1>2. mine \in Consent
    BY <1>1 DEF Dispute, Consent
  <1>3. consent' = [consent EXCEPT ![d][r] = mine]
    BY DEF AcceptProposal
  <1> HIDE DEF mine
  <1>4. consent' \in [DisputeIds -> [Roles -> Consent]]
    BY <1>2, <1>3 DEF IInv, ILRMTypeOK
  <1>5. UNCHANGED <<now, disputeCounter, lastDisputeTime, tokenReserves, paused, treasury,
                    ethBalance, createdAt>>
    BY DEF AcceptProposal, ethVars
  <1>6. CASE both
    <2> DEFINE y == [x EXCEPT !.accepted = Roles, !.resolved = TRUE,
                              !.outcome = "AcceptedProposal"]
    <2>1. disputes' = [disputes EXCEPT ![d] = y] /\ ResolveAccepted(d)
      BY <1>6 DEF AcceptProposal
    <2>2. /\ y \in Dispute
          /\ y.initiator = x.initiator /\ y.counterparty = x.counterparty
      BY <1>1 DEF Dispute, Outcomes
    <2>3. terms' \in [Assets -> Terms]
      BY <2>1 DEF ResolveAccepted, IInv, RegInv, RegistryTypeOK
    <2>4. UnfreezeAssets(ThisILRM, d) /\ UNCHANGED <<DisputesLeaveAlone, burned>>
      BY <2>1 DEF ResolveAccepted
    <2> HIDE DEF y
    <2>5. /\ RegInv'
          /\ disputes' \in [DisputeIds -> Dispute]
          /\ DisputesWellFormed'
          /\ HeldByInitiator'
      BY <1>1, <1>5, <2>1, <2>2, <2>3, <2>4, ResolutionInv
    <2>6. wallet' \in [TokenHolders -> Nat]
      BY <1>1, <2>1, PaymentType DEF ResolveAccepted, Open
    <2>7. held' \in Int
      BY <2>1, StakeType DEF ResolveAccepted, IInv, ILRMTypeOK
    <2> QED
      BY <1>4, <1>5, <2>4, <2>5, <2>6, <2>7 DEF IInv, ILRMTypeOK, EtherBacked
  <1>7. CASE ~both
    <2> DEFINE y == [x EXCEPT !.accepted = @ \cup {r}]
    <2>1. /\ disputes' = [disputes EXCEPT ![d] = y]
          /\ UNCHANGED <<wallet, held, burned, registryVars>>
      BY <1>7 DEF AcceptProposal, tokenVars, IInv, ILRMTypeOK
    <2>2. /\ y \in Dispute
          /\ y.initiator = x.initiator /\ y.counterparty = x.counterparty
          /\ ~y.resolved
      BY <1>1 DEF Dispute, Open
    <2> HIDE DEF y
    <2>3. disputes' \in [DisputeIds -> Dispute] /\ DisputesWellFormed'
      BY <1>1, <1>5, <2>1, <2>2, KeepsDisputes DEF Open
    <2>4. RegInv' /\ HeldByInitiator'
      BY <2>1, <2>2, KeepsHolding
    <2> QED
      BY <1>4, <1>5, <2>1, <2>3, <2>4 DEF IInv, ILRMTypeOK, EtherBacked
  <1> QED
    BY <1>6, <1>7

LEMMA CounterProposeInv ==
  ASSUME IInv, NEW d \in DisputeIds, NEW value \in MsgValues, CounterPropose(d, value)
  PROVE  IInv'
  <1> DEFINE x   == disputes[d]
             y   == Renegotiated(x)
             fee == CounterFee(x.counterCount)
  <1>1. /\ x \in Dispute /\ Exists(d) /\ ~x.resolved
        /\ x.counterCount \in 0 .. MAX_COUNTERS /\ x.counterCount < MAX_COUNTERS
        /\ x.startTime \in Nat
    BY StakeType, StakedExists DEF CounterPropose, CountersLeft, Dispute
  <1>2. fee \in Nat /\ value \in Nat
    BY <1>1, CounterFeeType, ILRMAssumption DEF ILRMAssumption
  <1>3. /\ disputes' = [disputes EXCEPT ![d] = y]
        /\ value >= fee
        /\ ethBalance' = ethBalance + value - fee
        /\ treasury' = treasury + (value - fee)
        /\ UNCHANGED <<now, registryVars, disputeCounter, lastDisputeTime, tokenReserves,
                       paused, wallet, held, burned, createdAt, consent>>
    BY DEF CounterPropose, tokenVars, historyVars
  <1>4. /\ x.counterCount + 1 \in 0 .. MAX_COUNTERS
        /\ ExtendedStart(x) \in Nat
    <2>1. MAX_COUNTERS \in Nat
      BY ILRMAssumption DEF ILRMAssumption
    <2> QED
      BY <1>1, <2>1 DEF ExtendedStart
  <1>5. y \in Dispute /\ y.initiator = x.initiator /\ y.counterparty = x.counterparty
        /\ y.resolved = x.resolved
    BY <1>1, <1>4 DEF Renegotiated, Dispute
  <1> HIDE DEF y, fee
  <1>6. disputes' \in [DisputeIds -> Dispute] /\ DisputesWellFormed'
    BY <1>1, <1>3, <1>5, KeepsDisputes
  <1>7. RegInv' /\ HeldByInitiator'
    BY <1>1, <1>3, <1>5, KeepsHolding
  <1>8. treasury' \in Nat /\ ethBalance' \in Nat /\ EtherBacked'
    BY <1>2, <1>3 DEF IInv, ILRMTypeOK, EtherBacked
  <1> QED
    BY <1>3, <1>6, <1>7, <1>8 DEF IInv, ILRMTypeOK

LEMMA ExitType ==
  ASSUME IInv, NEW d \in DisputeIds, ApplyFallbackAndUnfreeze(d)
  PROVE  UnfreezeAssets(ThisILRM, d) /\ terms' \in [Assets -> Terms] /\ UNCHANGED DisputesLeaveAlone
  <1>1. disputes[d].fallback \in FallbackTerms
    BY StakeType DEF Dispute
  <1> QED
    BY <1>1, ApplyFallbackType DEF ApplyFallbackAndUnfreeze, IInv

LEMMA EnforceTimeoutInv ==
  ASSUME IInv, NEW d \in DisputeIds, EnforceTimeout(d)
  PROVE  IInv'
  <1> DEFINE x == disputes[d]
  <1>1. /\ x \in Dispute
        /\ x.initiatorStake \in Nat /\ x.counterpartyStake \in Nat /\ StakeOf(d) \in Nat
        /\ Open(d) /\ Exists(d)
    BY StakeType DEF EnforceTimeout, Open
  <1>2. UNCHANGED <<now, disputeCounter, lastDisputeTime, paused, treasury, ethBalance,
                    createdAt, consent>>
    BY DEF EnforceTimeout, ethVars, historyVars
  <1>3. ASSUME NEW outcome \in Outcomes,
               disputes' = [disputes EXCEPT ![d].resolved = TRUE, ![d].outcome = outcome],
               ApplyFallbackAndUnfreeze(d)
        PROVE  RegInv' /\ disputes' \in [DisputeIds -> Dispute] /\ DisputesWellFormed'
               /\ HeldByInitiator' /\ EtherBacked'
    <2> DEFINE y == [x EXCEPT !.resolved = TRUE, !.outcome = outcome]
    <2>1. disputes' = [disputes EXCEPT ![d] = y]
      BY <1>3 DEF IInv, ILRMTypeOK
    <2>2. y \in Dispute /\ y.initiator = x.initiator /\ y.counterparty = x.counterparty
      BY <1>1 DEF Dispute
    <2>3. /\ UnfreezeAssets(ThisILRM, d)
          /\ terms' \in [Assets -> Terms]
          /\ UNCHANGED DisputesLeaveAlone
      BY <1>3, ExitType
    <2> HIDE DEF y
    <2> QED
      BY <1>1, <1>2, <2>1, <2>2, <2>3, ResolutionInv DEF IInv, EtherBacked
  <1>4. CASE ResolveNonParticipation(d)
    <2> DEFINE granted == Granted(Incentive(x.initiatorStake))
    <2>1. /\ tokenReserves' = tokenReserves - granted
          /\ wallet' = Credit(wallet, x.initiator, x.initiatorStake + granted)
          /\ held' = held - (x.initiatorStake + granted)
          /\ burned' = burned
      BY <1>4 DEF ResolveNonParticipation
    <2>2. granted \in Nat /\ tokenReserves - granted \in Nat
      BY <1>1, IncentiveType DEF Granted, IInv, ILRMTypeOK
    <2>3. RegInv' /\ disputes' \in [DisputeIds -> Dispute] /\ DisputesWellFormed'
          /\ HeldByInitiator' /\ EtherBacked'
      BY <1>3, <1>4 DEF ResolveNonParticipation, Outcomes
    <2> HIDE DEF granted
    <2>4. wallet' \in [TokenHolders -> Nat]
      BY <1>1, <2>1, <2>2, PaymentType
    <2>5. held' \in Int
      BY <1>1, <2>1, <2>2 DEF IInv, ILRMTypeOK
    <2> QED
      BY <1>2, <2>1, <2>2, <2>3, <2>4, <2>5 DEF IInv, ILRMTypeOK
  <1>5. CASE ResolveTimeout(d)
    <2> DEFINE total == StakeOf(d)
               share == ShareOf(total)
    <2>1. /\ wallet' = Credit(Credit(wallet, x.initiator, share), x.counterparty, share)
          /\ burned' = burned + Burnt(total)
          /\ held' = held - (Burnt(total) + 2 * share)
          /\ tokenReserves' = tokenReserves
      BY <1>5 DEF ResolveTimeout
    <2>2. share \in Nat /\ Burnt(total) \in Nat
      BY <1>1, SharesAddUp
    <2>3. RegInv' /\ disputes' \in [DisputeIds -> Dispute] /\ DisputesWellFormed'
          /\ HeldByInitiator' /\ EtherBacked'
      BY <1>3, <1>5 DEF ResolveTimeout, Outcomes
    <2> HIDE DEF total, share
    <2>4. wallet' \in [TokenHolders -> Nat]
      BY <1>1, <2>1, <2>2, PaymentType
    <2>5. held' \in Int /\ burned' \in Nat
      BY <2>1, <2>2 DEF IInv, ILRMTypeOK
    <2> QED
      BY <1>2, <2>1, <2>3, <2>4, <2>5 DEF IInv, ILRMTypeOK
  <1> QED
    BY <1>4, <1>5 DEF EnforceTimeout, Exit

LEMMA FundsInv ==
  ASSUME IInv, FundsNext
  PROVE  IInv'
  <1>1. ASSUME NEW p \in Sponsors, NEW amount \in Deposits, DepositTokenReserves(p, amount)
        PROVE  IInv'
    <2>1. amount \in Nat /\ p \in TokenHolders
      BY ILRMAssumption DEF ILRMAssumption, TokenHolders
    <2>2. /\ wallet[p] >= amount
          /\ wallet' = [wallet EXCEPT ![p] = @ - amount]
          /\ held' = held + amount
          /\ tokenReserves' = tokenReserves + amount
          /\ UNCHANGED <<now, registryVars, disputes, disputeCounter, lastDisputeTime, paused,
                         burned, treasury, ethBalance, createdAt, consent>>
      BY <1>1 DEF DepositTokenReserves, ethVars, historyVars
    <2>3. wallet' \in [TokenHolders -> Nat] /\ held' \in Int /\ tokenReserves' \in Nat
      BY <2>1, <2>2 DEF IInv, ILRMTypeOK
    <2> QED
      BY <2>2, <2>3 DEF IInv, ILRMTypeOK, DisputesWellFormed, HeldByInitiator, EtherBacked, RegInv,
           RegistryTypeOK, OwnershipIndexed, FrozenOnOneList, UnownedActive, Open, Exists,
           registryVars, assetVars
  <1>2. ASSUME NEW value \in MsgValues, ReceiveEther(value) \/ WithdrawTreasury(value)
        PROVE  IInv'
    <2>1. value \in Nat
      BY ILRMAssumption DEF ILRMAssumption
    <2>2. /\ treasury' \in Nat /\ ethBalance' \in Nat /\ EtherBacked'
          /\ UNCHANGED <<now, registryVars, disputes, disputeCounter, lastDisputeTime,
                         tokenReserves, paused, wallet, held, burned, createdAt, consent>>
      BY <1>2, <2>1 DEF ReceiveEther, WithdrawTreasury, tokenVars, historyVars, IInv, ILRMTypeOK,
                        EtherBacked
    <2> QED
      BY <2>2 DEF IInv, ILRMTypeOK, DisputesWellFormed, HeldByInitiator, RegInv,
           RegistryTypeOK, OwnershipIndexed, FrozenOnOneList, UnownedActive, Open, Exists,
           registryVars, assetVars
  <1>3. CASE Pause \/ Unpause
    <2>1. /\ paused' \in BOOLEAN
          /\ UNCHANGED <<now, registryVars, disputes, disputeCounter, lastDisputeTime,
                         tokenReserves, wallet, held, burned, treasury, ethBalance,
                         createdAt, consent>>
      BY <1>3 DEF Pause, Unpause, SetPaused, tokenVars, ethVars, historyVars
    <2> QED
      BY <2>1 DEF IInv, ILRMTypeOK, DisputesWellFormed, HeldByInitiator, RegInv, EtherBacked,
           RegistryTypeOK, OwnershipIndexed, FrozenOnOneList, UnownedActive, Open, Exists,
           registryVars, assetVars
  <1> QED
    BY <1>1, <1>2, <1>3 DEF FundsNext

\* Owners of assets and of the registry: a frozen asset keeps its owner.
LEMMA RegistryStepInv ==
  ASSUME IInv, UserNext \/ OwnerNext, UNCHANGED <<now, ilrmVars>>
  PROVE  IInv'
  <1>1. RegInv'
    BY UserInv, OwnerInv, RegistryAssumption DEF IInv
  <1>2. /\ frozenAssets' = frozenAssets
        /\ \A a \in Assets : status[a] = "Frozen" => owner'[a] = owner[a]
    <2>1. CASE OwnerNext
      BY <2>1 DEF OwnerNext, AuthorizeILRM, RevokeILRM, assetVars
    <2>2. ASSUME NEW a \in Assets, NEW p \in Accounts, NEW t \in OwnTerms, RegisterAsset(a, p, t)
          PROVE  <1>2!1 /\ <1>2!2
      BY <2>2, RegistryAssumption
         DEF RegisterAsset, IInv, RegInv, RegistryTypeOK, UnownedActive, RegistryAssumption
    <2>3. ASSUME NEW a \in Assets, NEW p \in Accounts, TransferAsset(a, p)
          PROVE  <1>2!1 /\ <1>2!2
      BY <2>3 DEF TransferAsset, NotFrozen, IInv, RegInv, RegistryTypeOK
    <2>4. ASSUME NEW a \in Assets, NEW l \in Licensees,
                 (\E n \in Durations : GrantLicense(a, l, n)) \/ RevokeLicense(a, l)
          PROVE  <1>2!1 /\ <1>2!2
      BY <2>4 DEF GrantLicense, RevokeLicense, assetVars
    <2> QED
      BY <2>1, <2>2, <2>3, <2>4 DEF UserNext
  <1>3. UNCHANGED <<now, disputes, disputeCounter, lastDisputeTime, tokenReserves, paused,
                    wallet, held, burned, treasury, ethBalance, createdAt, consent>>
    BY DEF ilrmVars, tokenVars, ethVars, historyVars
  <1>4. HeldByInitiator'
    BY <1>2, <1>3 DEF IInv, HeldByInitiator, RegInv, RegistryTypeOK, FrozenOnOneList, Open, Exists
  <1> QED
    BY <1>1, <1>3, <1>4 DEF IInv, ILRMTypeOK, DisputesWellFormed, EtherBacked, Exists

LEMMA StutterInv ==
  ASSUME IInv, UNCHANGED <<registryVars, ilrmVars>>, Tick \/ UNCHANGED now
  PROVE  IInv'
  BY DEF IInv, ILRMTypeOK, DisputesWellFormed, HeldByInitiator, RegInv, EtherBacked,
         RegistryTypeOK, OwnershipIndexed, FrozenOnOneList, UnownedActive, Open, Exists, Tick,
         registryVars, assetVars, ilrmVars, tokenVars, ethVars, historyVars

LEMMA NextInv == IInv /\ [Next]_vars => IInv'
  <1> SUFFICES ASSUME IInv, [Next]_vars PROVE IInv'
    OBVIOUS
  <1>1. CASE \E p, c \in Accounts, base \in Stakes, t \in FallbackTerms :
                InitiateBreachDispute(p, c, base, t)
    BY <1>1, InitiateInv
  <1>2. ASSUME NEW d \in DisputeIds,
               PartyNext(d) \/ \E text \in Proposals : SubmitLLMProposal(d, text)
        PROVE  IInv'
    BY <1>2, DepositStakeInv, SubmitProposalInv, AcceptInv, CounterProposeInv, EnforceTimeoutInv
       DEF PartyNext
  <1>3. CASE FundsNext
    BY <1>3, FundsInv
  <1>4. CASE (UserNext \/ OwnerNext) /\ UNCHANGED <<now, ilrmVars>>
    BY <1>4, RegistryStepInv
  <1>5. CASE (Tick /\ UNCHANGED <<registryVars, ilrmVars>>) \/ UNCHANGED vars
    BY <1>5, StutterInv DEF vars
  <1> QED
    BY <1>1, <1>2, <1>3, <1>4, <1>5 DEF Next, UsersNext

THEOREM Invariance == Spec => []IInv
  BY InitInv, NextInv, PTL DEF Spec

----------------------------------------------------------------------------
(* What follows.                                                           *)

\* The state of the contract and of the registry keep their types: no balance, stake
\* or reserve ever goes below zero, no counter past its cap.
THEOREM TypeCorrect == Spec => []TypeOK
  <1>1. IInv => TypeOK
    BY DEF IInv, RegInv, TypeOK
  <1> QED
    BY <1>1, Invariance, PTL

\* An asset is frozen exactly when it is on the list of one open dispute, and it
\* belongs to the initiator of that dispute.
THEOREM FreezeLockHolds == Spec => []FreezeLock
  <1>1. IInv => FreezeLock
    BY DEF IInv, RegInv, RegistryTypeOK, FrozenOnOneList, HeldByInitiator, FreezeLock
  <1> QED
    BY <1>1, Invariance, PTL

----------------------------------------------------------------------------
(* Negotiation: an acceptance counts only in the round it was given in,    *)
(* and a dispute settles on the right side of its deadline however many    *)
(* counter-proposals moved it.                                             *)

Extension(rounds) == IF rounds <= MAX_TIME_EXTENSION THEN rounds ELSE MAX_TIME_EXTENSION

\* Of a dispute x and what its parties consented to: whoever has its flag set
\* accepted a text in the round that the dispute is in.
RoundOK(x, k) ==
  /\ x.outcome = "AcceptedProposal" => x.resolved /\ x.accepted = Roles
  /\ \A r \in x.accepted : k[r].round = x.counterCount /\ k[r].proposal # NoProposal

\* Of a dispute x initiated on a given day: startTime has moved by the extensions of
\* its rounds, and there is none before both stakes are in.
ClockOK(x, day) ==
  x.initiator # NoOne =>
    /\ x.startTime = day + Extension(x.counterCount)
    /\ x.counterpartyStake = 0 => x.counterCount = 0

RoundsInv == \A d \in DisputeIds : /\ RoundOK(disputes[d], consent[d])
                                   /\ ClockOK(disputes[d], createdAt[d])

\* The strengthened invariant and the step property, together.
OnTime == \A d \in DisputeIds : Settles(d) => SettledOnTime(d)

LEMMA ExtensionStep ==
  ASSUME NEW n \in Nat
  PROVE  /\ Extension(0) = 0
         /\ Extension(n) \in Nat
         /\ Extension(n + 1) = Extension(n) + (IF n + 1 <= MAX_TIME_EXTENSION THEN 1 ELSE 0)
  BY ILRMAssumption DEF Extension, ILRMAssumption

LEMMA RoundsInit == Init => RoundsInv
  BY DEF Init, RoundsInv, RoundOK, ClockOK, NoDispute

\* A step that changes one dispute.
LEMMA OneDispute ==
  ASSUME IInv, RoundsInv, NEW d \in DisputeIds, NEW x,
         disputes' = [disputes EXCEPT ![d] = x],
         \A e \in DisputeIds \ {d} : consent'[e] = consent[e] /\ createdAt'[e] = createdAt[e],
         RoundOK(x, consent'[d]), ClockOK(x, createdAt'[d]),
         Open(d) /\ x.resolved => SettledOnTime(d)
  PROVE  RoundsInv' /\ OnTime
  <1>1. disputes'[d] = x /\ \A e \in DisputeIds \ {d} : disputes'[e] = disputes[e]
    BY DEF IInv, ILRMTypeOK
  <1>2. RoundsInv'
    BY <1>1 DEF RoundsInv, RoundOK, ClockOK
  <1>3. OnTime
    BY <1>1 DEF OnTime, Settles, Open
  <1> QED
    BY <1>2, <1>3

\* A step that changes none.
LEMMA NoDisputeChanges ==
  ASSUME RoundsInv, UNCHANGED <<disputes, consent, createdAt>>
  PROVE  RoundsInv' /\ OnTime
  BY DEF RoundsInv, RoundOK, ClockOK, OnTime, Settles, Open

----------------------------------------------------------------------------
LEMMA InitiateRounds ==
  ASSUME IInv, RoundsInv, NEW p \in Accounts, NEW c \in Accounts, NEW base \in Stakes,
         NEW t \in FallbackTerms, InitiateBreachDispute(p, c, base, t)
  PROVE  RoundsInv' /\ OnTime
  <1> DEFINE d   == disputeCounter
             new == [NoDispute EXCEPT !.initiator = p, !.counterparty = c,
                                      !.initiatorStake = EscalatedStake(p, c, base),
                                      !.startTime = now, !.fallback = t]
  <1>1. d \in DisputeIds /\ ~Open(d)
    BY DEF InitiateBreachDispute, IInv, ILRMTypeOK, DisputesWellFormed, Open
  <1>2. /\ disputes' = [disputes EXCEPT ![d] = new]
        /\ createdAt' = [createdAt EXCEPT ![d] = now]
        /\ consent' = consent
    BY DEF InitiateBreachDispute
  <1>3. createdAt'[d] = now /\ \A e \in DisputeIds \ {d} : createdAt'[e] = createdAt[e]
    BY <1>1, <1>2 DEF IInv, ILRMTypeOK
  <1>4. /\ new.accepted = {} /\ new.outcome = "Pending" /\ new.counterCount = 0
        /\ new.startTime = now
    BY DEF NoDispute
  <1>5. RoundOK(new, consent'[d])
    BY <1>4 DEF RoundOK
  <1>6. ClockOK(new, createdAt'[d])
    BY <1>3, <1>4, ExtensionStep DEF ClockOK, IInv
  <1> HIDE DEF d, new
  <1> QED
    BY <1>1, <1>2, <1>3, <1>5, <1>6, OneDispute

LEMMA DepositStakeRounds ==
  ASSUME IInv, RoundsInv, NEW d \in DisputeIds, DepositStake(d)
  PROVE  RoundsInv' /\ OnTime
  <1> DEFINE x == disputes[d]
             y == [x EXCEPT !.counterpartyStake = x.initiatorStake]
  <1>1. /\ disputes' = [disputes EXCEPT ![d] = y]
        /\ ~x.resolved
        /\ x.counterpartyStake = 0
        /\ UNCHANGED <<consent, createdAt>>
    BY StakeType DEF DepositStake, historyVars, IInv, ILRMTypeOK, Staked
  <1>2. /\ y.initiator = x.initiator /\ y.startTime = x.startTime
        /\ y.counterCount = x.counterCount /\ y.accepted = x.accepted
        /\ y.resolved = x.resolved /\ y.outcome = x.outcome
    BY StakeType DEF Dispute
  <1>3. RoundOK(y, consent'[d]) /\ ClockOK(y, createdAt'[d])
    BY <1>1, <1>2 DEF RoundsInv, RoundOK, ClockOK
  <1> HIDE DEF y
  <1> QED
    BY <1>1, <1>2, <1>3, OneDispute

LEMMA SubmitProposalRounds ==
  ASSUME IInv, RoundsInv, NEW d \in DisputeIds, NEW text \in Proposals,
         SubmitLLMProposal(d, text)
  PROVE  RoundsInv' /\ OnTime
  <1> DEFINE x == disputes[d]
             y == [x EXCEPT !.llmProposal = text]
  <1>1. /\ disputes' = [disputes EXCEPT ![d] = y]
        /\ ~x.resolved
        /\ UNCHANGED <<consent, createdAt>>
    BY DEF SubmitLLMProposal, historyVars, IInv, ILRMTypeOK
  <1>2. /\ y.initiator = x.initiator /\ y.startTime = x.startTime
        /\ y.counterpartyStake = x.counterpartyStake
        /\ y.counterCount = x.counterCount /\ y.accepted = x.accepted
        /\ y.resolved = x.resolved /\ y.outcome = x.outcome
    BY StakeType DEF Dispute
  <1>3. RoundOK(y, consent'[d]) /\ ClockOK(y, createdAt'[d])
    BY <1>1, <1>2 DEF RoundsInv, RoundOK, ClockOK
  <1> HIDE DEF y
  <1> QED
    BY <1>1, <1>2, <1>3, OneDispute

\* The deadline as the code computes it is the deadline of the property.
LEMMA Deadlines ==
  ASSUME IInv, RoundsInv, NEW d \in DisputeIds, Exists(d)
  PROVE  /\ TimedOut(disputes[d]) <=> now > DeadlineOf(d)
         /\ ~Staked(d) => disputes[d].startTime = createdAt[d]
  <1>1. /\ disputes[d].startTime = createdAt[d] + Extension(disputes[d].counterCount)
        /\ disputes[d].counterpartyStake = 0 => disputes[d].counterCount = 0
    BY DEF RoundsInv, ClockOK, Exists
  <1>2. /\ createdAt[d] \in Nat
        /\ disputes[d].counterCount \in Nat
        /\ disputes[d].counterpartyStake \in Nat
        /\ now \in Nat
        /\ RESOLUTION_TIMEOUT \in Nat
    BY StakeType, ILRMAssumption DEF IInv, ILRMTypeOK, Dispute, ILRMAssumption
  <1>3. DeadlineOf(d) = createdAt[d] + RESOLUTION_TIMEOUT + Extension(disputes[d].counterCount)
    BY DEF DeadlineOf, Extension
  <1>4. Extension(disputes[d].counterCount) \in Nat
    BY <1>2, ExtensionStep
  <1>5. TimedOut(disputes[d]) <=> now > DeadlineOf(d)
    BY <1>1, <1>2, <1>3, <1>4 DEF TimedOut
  <1>6. ~Staked(d) => disputes[d].startTime = createdAt[d]
    BY <1>1, <1>2, ExtensionStep DEF Staked
  <1> QED
    BY <1>5, <1>6

LEMMA AcceptRounds ==
  ASSUME IInv, RoundsInv, NEW d \in DisputeIds, NEW r \in Roles, AcceptProposal(d, r)
  PROVE  RoundsInv' /\ OnTime
  <1> DEFINE x    == disputes[d]
             both == x.accepted \cup {r} = Roles
             mine == [round |-> x.counterCount, proposal |-> x.llmProposal]
             y    == IF both
                     THEN [x EXCEPT !.accepted = Roles, !.resolved = TRUE,
                                    !.outcome = "AcceptedProposal"]
                     ELSE [x EXCEPT !.accepted = @ \cup {r}]
  <1>1. x \in Dispute /\ Exists(d) /\ ~x.resolved /\ x.llmProposal # NoProposal /\ ~TimedOut(x)
    BY StakeType DEF AcceptProposal
  <1>2. disputes' = [disputes EXCEPT ![d] = y] /\ createdAt' = createdAt
    BY DEF AcceptProposal, IInv, ILRMTypeOK
  <1>3. /\ consent'[d] = [consent[d] EXCEPT ![r] = mine]
        /\ \A e \in DisputeIds \ {d} : consent'[e] = consent[e]
    BY DEF AcceptProposal, IInv, ILRMTypeOK
  <1>4. /\ y.accepted = x.accepted \cup {r}
        /\ y.counterCount = x.counterCount /\ y.initiator = x.initiator
        /\ y.startTime = x.startTime /\ y.counterpartyStake = x.counterpartyStake
        /\ both => y.resolved /\ y.outcome = "AcceptedProposal"
        /\ ~both => y.resolved = x.resolved /\ y.outcome = x.outcome
    BY <1>1 DEF Dispute
  <1>5. RoundOK(y, consent'[d])
    <2>1. \A q \in y.accepted : /\ consent'[d][q].round = x.counterCount
                                /\ consent'[d][q].proposal # NoProposal
      <3> SUFFICES ASSUME NEW q \in y.accepted
                   PROVE  /\ consent'[d][q].round = x.counterCount
                          /\ consent'[d][q].proposal # NoProposal
        OBVIOUS
      <3>1. consent[d] \in [Roles -> Consent] /\ x.accepted \subseteq Roles
        BY <1>1 DEF IInv, ILRMTypeOK, Dispute
      <3>2. CASE q = r
        BY <1>1, <1>3, <3>1, <3>2
      <3>3. CASE q # r
        BY <1>3, <1>4, <3>1, <3>3 DEF RoundsInv, RoundOK
      <3> QED
        BY <3>2, <3>3
    <2>2. y.outcome = "AcceptedProposal" => y.resolved /\ y.accepted = Roles
      BY <1>1, <1>4 DEF RoundsInv, RoundOK
    <2> QED
      BY <1>4, <2>1, <2>2 DEF RoundOK
  <1>6. ClockOK(y, createdAt'[d])
    BY <1>2, <1>4 DEF RoundsInv, ClockOK
  <1> HIDE DEF y
  <1>7. y.resolved => SettledOnTime(d)
    <2> SUFFICES ASSUME y.resolved PROVE SettledOnTime(d)
      OBVIOUS
    <2>1. y.outcome = "AcceptedProposal"
      BY <1>1, <1>4
    <2>2. disputes'[d].outcome = "AcceptedProposal"
      BY <1>2, <2>1 DEF IInv, ILRMTypeOK
    <2>3. now <= DeadlineOf(d)
      <3>1. now \in Nat /\ DeadlineOf(d) \in Int
        BY <1>1, ILRMAssumption DEF IInv, ILRMTypeOK, DeadlineOf, Dispute, ILRMAssumption
      <3> QED
        BY <1>1, <3>1, Deadlines
    <2> QED
      BY <2>2, <2>3 DEF SettledOnTime
  <1> QED
    BY <1>2, <1>3, <1>5, <1>6, <1>7, OneDispute

LEMMA CounterProposeRounds ==
  ASSUME IInv, RoundsInv, NEW d \in DisputeIds, NEW value \in MsgValues, CounterPropose(d, value)
  PROVE  RoundsInv' /\ OnTime
  <1> DEFINE x == disputes[d]
             y == Renegotiated(x)
  <1>1. /\ x \in Dispute /\ Staked(d) /\ ~x.resolved
        /\ x.counterCount \in Nat /\ x.startTime \in Nat /\ x.counterpartyStake \in Nat
    BY StakeType DEF CounterPropose, Dispute
  <1>2. disputes' = [disputes EXCEPT ![d] = y] /\ UNCHANGED <<consent, createdAt>>
    BY DEF CounterPropose, historyVars
  <1>3. /\ y.accepted = {} /\ y.counterCount = x.counterCount + 1
        /\ y.startTime = ExtendedStart(x) /\ y.initiator = x.initiator
        /\ y.counterpartyStake = x.counterpartyStake
        /\ y.resolved = x.resolved /\ y.outcome = x.outcome
    BY <1>1 DEF Renegotiated, Dispute
  <1>4. RoundOK(y, consent'[d])
    BY <1>1, <1>3 DEF RoundsInv, RoundOK
  <1>5. ClockOK(y, createdAt'[d])
    <2>1. Exists(d)
      BY <1>1, StakedExists
    <2>2. x.startTime = createdAt[d] + Extension(x.counterCount) /\ createdAt[d] \in Nat
      BY <2>1 DEF RoundsInv, ClockOK, Exists, IInv, ILRMTypeOK
    <2>3. y.startTime = createdAt[d] + Extension(x.counterCount + 1)
      BY <1>1, <1>3, <2>2, ExtensionStep DEF ExtendedStart
    <2> QED
      BY <1>1, <1>2, <1>3, <2>3 DEF ClockOK, Staked
  <1> HIDE DEF y
  <1> QED
    BY <1>1, <1>2, <1>3, <1>4, <1>5, OneDispute

LEMMA EnforceTimeoutRounds ==
  ASSUME IInv, RoundsInv, NEW d \in DisputeIds, EnforceTimeout(d)
  PROVE  RoundsInv' /\ OnTime
  <1>1. Open(d) /\ Exists(d) /\ UNCHANGED <<consent, createdAt>> /\ disputes[d] \in Dispute
    BY StakeType DEF EnforceTimeout, Open, historyVars
  <1>2. ASSUME NEW outcome \in {"TimeoutWithBurn", "DefaultLicenseApplied"},
               disputes' = [disputes EXCEPT ![d].resolved = TRUE, ![d].outcome = outcome],
               disputes'[d].outcome = outcome => SettledOnTime(d)
        PROVE  RoundsInv' /\ OnTime
    <2> DEFINE y == [disputes[d] EXCEPT !.resolved = TRUE, !.outcome = outcome]
    <2>1. disputes' = [disputes EXCEPT ![d] = y]
      BY <1>2 DEF IInv, ILRMTypeOK
    <2>2. /\ y.outcome = outcome
          /\ y.accepted = disputes[d].accepted /\ y.counterCount = disputes[d].counterCount
          /\ y.initiator = disputes[d].initiator /\ y.startTime = disputes[d].startTime
          /\ y.counterpartyStake = disputes[d].counterpartyStake
      BY <1>1 DEF Dispute
    <2>3. RoundOK(y, consent'[d]) /\ ClockOK(y, createdAt'[d])
      BY <1>1, <1>2, <2>2 DEF RoundsInv, RoundOK, ClockOK
    <2> HIDE DEF y
    <2>4. SettledOnTime(d)
      BY <1>2, <2>1, <2>2 DEF IInv, ILRMTypeOK
    <2> QED
      BY <1>1, <2>1, <2>3, <2>4, OneDispute
  <1>3. CASE ~Staked(d) /\ StakeWindowOver(disputes[d]) /\ ResolveNonParticipation(d)
    <2>1. disputes[d].startTime = createdAt[d]
      BY <1>1, <1>3, Deadlines
    <2> QED
      BY <1>2, <1>3, <2>1 DEF ResolveNonParticipation, StakeWindowOver, SettledOnTime
  <1>4. CASE Staked(d) /\ TimedOut(disputes[d]) /\ ResolveTimeout(d)
    <2>1. now > DeadlineOf(d)
      BY <1>1, <1>4, Deadlines
    <2> QED
      BY <1>2, <1>4, <2>1 DEF ResolveTimeout, SettledOnTime
  <1> QED
    BY <1>3, <1>4 DEF EnforceTimeout, Exit

LEMMA RoundsStep == IInv /\ RoundsInv /\ [Next]_vars => RoundsInv' /\ OnTime
  <1> SUFFICES ASSUME IInv, RoundsInv, [Next]_vars PROVE RoundsInv' /\ OnTime
    OBVIOUS
  <1>1. CASE \E p, c \in Accounts, base \in Stakes, t \in FallbackTerms :
                InitiateBreachDispute(p, c, base, t)
    BY <1>1, InitiateRounds
  <1>2. ASSUME NEW d \in DisputeIds,
               PartyNext(d) \/ \E text \in Proposals : SubmitLLMProposal(d, text)
        PROVE  RoundsInv' /\ OnTime
    BY <1>2, DepositStakeRounds, SubmitProposalRounds, AcceptRounds, CounterProposeRounds,
       EnforceTimeoutRounds
       DEF PartyNext
  <1>3. CASE FundsNext
    <2>1. UNCHANGED <<disputes, consent, createdAt>>
      BY <1>3 DEF FundsNext, DepositTokenReserves, ReceiveEther, WithdrawTreasury, Pause, Unpause,
                  SetPaused, historyVars
    <2> QED
      BY <2>1, NoDisputeChanges
  <1>4. CASE UNCHANGED ilrmVars
    BY <1>4, NoDisputeChanges DEF ilrmVars, historyVars
  <1> QED
    BY <1>1, <1>2, <1>3, <1>4 DEF Next, UsersNext, vars

THEOREM RoundsInvariance == Spec => [](IInv /\ RoundsInv)
  <1>1. Init => IInv /\ RoundsInv
    BY InitInv, RoundsInit
  <1>2. IInv /\ RoundsInv /\ [Next]_vars => IInv' /\ RoundsInv'
    BY NextInv, RoundsStep
  <1> QED
    BY <1>1, <1>2, PTL DEF Spec

\* A dispute that ends in agreement was accepted by both parties in its last round:
\* a counter-proposal withdraws every acceptance before it.
THEOREM ConsentIsCurrentHolds == Spec => []ConsentIsCurrent
  <1>1. RoundsInv => ConsentIsCurrent
    BY DEF RoundsInv, RoundOK, ConsentIsCurrent
  <1> QED
    BY <1>1, RoundsInvariance, PTL

\* Agreement comes no later than the deadline that the rounds of negotiation give the
\* dispute, a burn only after it, a default only after the staking window.
THEOREM SettledInTimeHolds == Spec => SettledInTime
  <1>1. IInv /\ RoundsInv /\ [Next]_vars =>
          [\A d \in DisputeIds : Settles(d) => SettledOnTime(d)]_vars
    BY RoundsStep DEF OnTime
  <1> QED
    BY <1>1, RoundsInvariance, PTL DEF Spec, SettledInTime

----------------------------------------------------------------------------
(* Stakes, settlements and the books.                                     *)

\* A dispute begins with its initiator's stake.
InitiatorStaked == \A d \in DisputeIds : Exists(d) => disputes[d].initiatorStake > 0

\* An account that took no part has all its tokens.
SilentKeepTokens == \A p \in Accounts : Silent(p) => wallet[p] >= InitialTokens

StakesInv == InitiatorStaked /\ SilentKeepTokens

\* A step that pays nobody into the contract.
StakesStay == \A e \in DisputeIds :
                /\ disputes'[e].initiator = disputes[e].initiator
                /\ disputes'[e].counterparty = disputes[e].counterparty
                /\ disputes'[e].initiatorStake = disputes[e].initiatorStake
                /\ disputes'[e].counterpartyStake = disputes[e].counterpartyStake
NobodyPays == \A p \in Accounts : wallet'[p] >= wallet[p]

LEMMA StakesInit == Init => StakesInv
  BY RegistryAssumption, ILRMAssumption
     DEF Init, StakesInv, InitiatorStaked, SilentKeepTokens, NoDispute, Exists, TokenHolders,
         ILRMAssumption

LEMMA StakesKept ==
  ASSUME IInv, StakesInv, StakesStay, NobodyPays, wallet' \in [TokenHolders -> Nat]
  PROVE  StakesInv'
  <1>1. InitiatorStaked'
    BY DEF StakesInv, InitiatorStaked, StakesStay, Exists
  <1>2. SilentKeepTokens'
    <2> SUFFICES ASSUME NEW p \in Accounts, Silent(p)' PROVE wallet'[p] >= InitialTokens
      BY DEF SilentKeepTokens
    <2>1. Silent(p)
      BY DEF Silent, StakesStay, Staked
    <2>2. wallet[p] \in Nat /\ wallet'[p] \in Nat /\ InitialTokens \in Nat
      BY ILRMAssumption DEF IInv, ILRMTypeOK, TokenHolders, ILRMAssumption
    <2> QED
      BY <2>1, <2>2 DEF StakesInv, SilentKeepTokens, NobodyPays
  <1> QED
    BY <1>1, <1>2 DEF StakesInv

LEMMA CreditRaises ==
  ASSUME NEW S, NEW f \in [S -> Nat], NEW p \in S, NEW n \in Nat
  PROVE  \A q \in S : Credit(f, p, n)[q] >= f[q]
  BY DEF Credit

LEMMA PaymentRaises ==
  ASSUME IInv, NEW d \in DisputeIds, Exists(d), NEW n \in Nat, NEW m \in Nat
  PROVE  \A q \in Accounts :
           /\ Credit(wallet, disputes[d].initiator, n)[q] >= wallet[q]
           /\ Credit(Credit(wallet, disputes[d].initiator, n), disputes[d].counterparty, m)[q]
                >= wallet[q]
  <1> DEFINE w1 == Credit(wallet, disputes[d].initiator, n)
             w2 == Credit(w1, disputes[d].counterparty, m)
  <1>1. /\ wallet \in [TokenHolders -> Nat] /\ w1 \in [TokenHolders -> Nat]
        /\ w2 \in [TokenHolders -> Nat]
    BY PaymentType DEF IInv, ILRMTypeOK
  <1>2. disputes[d].initiator \in TokenHolders /\ disputes[d].counterparty \in TokenHolders
    BY DEF IInv, DisputesWellFormed, TokenHolders
  <1>3. \A q \in TokenHolders : w1[q] >= wallet[q] /\ w2[q] >= w1[q]
    BY <1>1, <1>2, CreditRaises
  <1> HIDE DEF w1, w2
  <1>4. \A q \in TokenHolders : w1[q] >= wallet[q] /\ w2[q] >= wallet[q]
    BY <1>1, <1>3
  <1> QED
    BY <1>4 DEF TokenHolders, w1, w2

----------------------------------------------------------------------------
(* Which steps settle, and what they do to the assets.                     *)

LEMMA OneField ==
  ASSUME IInv, NEW d \in DisputeIds, NEW x,
         disputes' = [disputes EXCEPT ![d] = x]
  PROVE  disputes'[d] = x /\ \A e \in DisputeIds \ {d} : disputes'[e] = disputes[e]
  BY DEF IInv, ILRMTypeOK

\* The record that the second acceptance or an exit leaves behind.
SettledAs(x, outcome) == [x EXCEPT !.resolved = TRUE, !.outcome = outcome]

LEMMA EnforceTimeoutSettles ==
  ASSUME IInv, NEW d \in DisputeIds, EnforceTimeout(d)
  PROVE  /\ \E outcome \in {"TimeoutWithBurn", "DefaultLicenseApplied"} :
              disputes' = [disputes EXCEPT ![d] = SettledAs(disputes[d], outcome)]
         /\ ApplyFallbackAndUnfreeze(d)
         /\ Open(d)
  BY DEF EnforceTimeout, Exit, ResolveNonParticipation, ResolveTimeout, SettledAs, IInv, ILRMTypeOK

LEMMA AcceptLeaves ==
  ASSUME IInv, NEW d \in DisputeIds, NEW r \in Roles, AcceptProposal(d, r)
  PROVE  /\ Open(d)
         /\ \/ /\ disputes' = [disputes EXCEPT ![d] =
                      SettledAs([disputes[d] EXCEPT !.accepted = Roles], "AcceptedProposal")]
               /\ ResolveAccepted(d)
            \/ /\ disputes' = [disputes EXCEPT ![d] =
                      [disputes[d] EXCEPT !.accepted = @ \cup {r}]]
               /\ UNCHANGED <<tokenVars, registryVars>>
  <1>1. disputes[d] \in Dispute
    BY StakeType
  <1>2. [disputes[d] EXCEPT !.accepted = Roles, !.resolved = TRUE, !.outcome = "AcceptedProposal"]
          = SettledAs([disputes[d] EXCEPT !.accepted = Roles], "AcceptedProposal")
    BY <1>1 DEF SettledAs, Dispute
  <1>3. [disputes EXCEPT ![d].accepted = @ \cup {r}]
          = [disputes EXCEPT ![d] = [disputes[d] EXCEPT !.accepted = @ \cup {r}]]
    BY DEF IInv, ILRMTypeOK
  <1> QED
    BY <1>2, <1>3 DEF AcceptProposal, Open

LEMMA SettledFields ==
  ASSUME NEW x \in Dispute, NEW outcome \in Outcomes
  PROVE  /\ SettledAs(x, outcome) \in Dispute
         /\ SettledAs(x, outcome).resolved
         /\ SettledAs(x, outcome).outcome = outcome
         /\ SettledAs(x, outcome).initiator = x.initiator
         /\ SettledAs(x, outcome).counterparty = x.counterparty
         /\ SettledAs(x, outcome).initiatorStake = x.initiatorStake
         /\ SettledAs(x, outcome).counterpartyStake = x.counterpartyStake
         /\ SettledAs(x, outcome).accepted = x.accepted
  BY DEF SettledAs, Dispute

LEMMA AcceptedField ==
  ASSUME NEW x \in Dispute, NEW A \in SUBSET Roles
  PROVE  /\ [x EXCEPT !.accepted = A] \in Dispute
         /\ [x EXCEPT !.accepted = A].resolved = x.resolved
         /\ [x EXCEPT !.accepted = A].initiator = x.initiator
         /\ [x EXCEPT !.accepted = A].counterparty = x.counterparty
         /\ [x EXCEPT !.accepted = A].initiatorStake = x.initiatorStake
         /\ [x EXCEPT !.accepted = A].counterpartyStake = x.counterpartyStake
  BY DEF Dispute

\* Every other step leaves the resolved flags as they are.
LEMMA SettlingStep ==
  ASSUME IInv, Next, NEW d \in DisputeIds, Settles(d)
  PROVE  \/ ResolveAccepted(d) /\ disputes'[d].outcome = "AcceptedProposal"
         \/ ApplyFallbackAndUnfreeze(d) /\ disputes'[d].outcome # "AcceptedProposal"
  <1>0. disputes[d] \in Dispute /\ Open(d) /\ ~disputes[d].resolved /\ disputes'[d].resolved
    BY StakeType DEF Settles, Open
  <1>1. ASSUME NEW p \in Accounts, NEW c \in Accounts, NEW base \in Stakes,
               NEW t \in FallbackTerms, InitiateBreachDispute(p, c, base, t)
        PROVE  FALSE
    <2> DEFINE new == [NoDispute EXCEPT !.initiator = p, !.counterparty = c,
                                        !.initiatorStake = EscalatedStake(p, c, base),
                                        !.startTime = now, !.fallback = t]
    <2>1. disputeCounter \in DisputeIds /\ disputes' = [disputes EXCEPT ![disputeCounter] = new]
      BY <1>1 DEF InitiateBreachDispute
    <2>2. ~new.resolved
      BY DEF NoDispute
    <2> HIDE DEF new
    <2> QED
      BY <1>0, <2>1, <2>2, OneField
  <1>2. ASSUME NEW e \in DisputeIds, DepositStake(e) PROVE FALSE
    <2>1. disputes' = [disputes EXCEPT ![e] =
                         [disputes[e] EXCEPT !.counterpartyStake = disputes[e].initiatorStake]]
      BY <1>2 DEF DepositStake, IInv, ILRMTypeOK
    <2>2. [disputes[e] EXCEPT !.counterpartyStake = disputes[e].initiatorStake].resolved
            = disputes[e].resolved
      BY StakeType DEF Dispute
    <2> QED
      BY <1>0, <2>1, <2>2, OneField
  <1>3. ASSUME NEW e \in DisputeIds, NEW text \in Proposals, SubmitLLMProposal(e, text)
        PROVE  FALSE
    <2>1. disputes' = [disputes EXCEPT ![e] = [disputes[e] EXCEPT !.llmProposal = text]]
      BY <1>3 DEF SubmitLLMProposal, IInv, ILRMTypeOK
    <2>2. [disputes[e] EXCEPT !.llmProposal = text].resolved = disputes[e].resolved
      BY StakeType DEF Dispute
    <2> QED
      BY <1>0, <2>1, <2>2, OneField
  <1>4. ASSUME NEW e \in DisputeIds, NEW value \in MsgValues, CounterPropose(e, value)
        PROVE  FALSE
    <2>1. disputes' = [disputes EXCEPT ![e] = Renegotiated(disputes[e])]
      BY <1>4 DEF CounterPropose
    <2>2. Renegotiated(disputes[e]).resolved = disputes[e].resolved
      BY StakeType DEF Renegotiated, Dispute
    <2> QED
      BY <1>0, <2>1, <2>2, OneField
  <1>5. ASSUME NEW e \in DisputeIds, NEW r \in Roles, AcceptProposal(e, r)
        PROVE  ResolveAccepted(d) /\ disputes'[d].outcome = "AcceptedProposal"
    <2> DEFINE x == [disputes[e] EXCEPT !.accepted = Roles]
    <2>1. x \in Dispute /\ "AcceptedProposal" \in Outcomes
      BY StakeType, AcceptedField DEF Outcomes
    <2>2. SettledAs(x, "AcceptedProposal").outcome = "AcceptedProposal"
      BY <2>1, SettledFields
    <2>3. [disputes[e] EXCEPT !.accepted = @ \cup {r}].resolved = disputes[e].resolved
      BY StakeType DEF Dispute
    <2> HIDE DEF x
    <2>4. CASE ResolveAccepted(e) /\ disputes' = [disputes EXCEPT ![e] =
                                                    SettledAs(x, "AcceptedProposal")]
      BY <1>0, <2>2, <2>4, OneField
    <2>5. CASE disputes' = [disputes EXCEPT ![e] = [disputes[e] EXCEPT !.accepted = @ \cup {r}]]
      BY <1>0, <2>3, <2>5, OneField
    <2> QED
      BY <1>5, <2>4, <2>5, AcceptLeaves DEF x
  <1>6. ASSUME NEW e \in DisputeIds, EnforceTimeout(e)
        PROVE  ApplyFallbackAndUnfreeze(d) /\ disputes'[d].outcome # "AcceptedProposal"
    <2>1. PICK outcome \in {"TimeoutWithBurn", "DefaultLicenseApplied"} :
             disputes' = [disputes EXCEPT ![e] = SettledAs(disputes[e], outcome)]
      BY <1>6, EnforceTimeoutSettles
    <2>2. SettledAs(disputes[e], outcome).outcome # "AcceptedProposal"
      BY <2>1, StakeType, SettledFields DEF Outcomes
    <2> QED
      BY <1>0, <1>6, <2>1, <2>2, OneField, EnforceTimeoutSettles
  <1>7. CASE FundsNext
    BY <1>0, <1>7 DEF FundsNext, DepositTokenReserves, ReceiveEther, WithdrawTreasury, Pause,
                      Unpause, SetPaused
  <1>8. CASE UNCHANGED ilrmVars
    BY <1>0, <1>8 DEF ilrmVars
  <1> QED
    BY <1>1, <1>2, <1>3, <1>4, <1>5, <1>6, <1>7, <1>8 DEF Next, UsersNext, PartyNext

LEMMA Released ==
  ASSUME IInv, NEW d \in DisputeIds, UnfreezeAssets(ThisILRM, d)
  PROVE  \A a \in frozenAssets[d] : status'[a] = "Active" /\ assetDispute'[a] = 0
  BY DEF UnfreezeAssets, IInv, RegInv, FrozenOnOneList, RegistryTypeOK

\* A dispute that settles releases the assets it froze; without agreement they, and
\* no others, come out under the fallback licence it named.
THEOREM FallbackOnExitHolds == Spec => FallbackOnExit
  <1>1. ASSUME IInv, [Next]_vars
        PROVE  [\A d \in DisputeIds : Settles(d) => ReleasedOnTerms(d)]_vars
    <2> SUFFICES ASSUME Next, NEW d \in DisputeIds, Settles(d) PROVE ReleasedOnTerms(d)
      BY <1>1
    <2>0. frozenAssets[d] \subseteq Assets
      BY <1>1 DEF IInv, RegInv, RegistryTypeOK
    <2>1. CASE ResolveAccepted(d) /\ disputes'[d].outcome = "AcceptedProposal"
      <3>1. UnfreezeAssets(ThisILRM, d) /\ terms' = terms
        BY <2>1 DEF ResolveAccepted
      <3> QED
        BY <1>1, <2>1, <3>1, Released DEF ReleasedOnTerms
    <2>2. CASE ApplyFallbackAndUnfreeze(d) /\ disputes'[d].outcome # "AcceptedProposal"
      <3>1. /\ UnfreezeAssets(ThisILRM, d)
            /\ terms' = [a \in Assets |-> IF a \in frozenAssets[d] THEN disputes[d].fallback
                                                                   ELSE terms[a]]
        BY <2>2 DEF ApplyFallbackAndUnfreeze, ApplyFallbackLicense
      <3> QED
        BY <1>1, <2>2, <3>1, Released DEF ReleasedOnTerms
    <2> QED
      BY <1>1, <2>1, <2>2, SettlingStep
  <1> QED
    BY <1>1, Invariance, PTL DEF Spec, FallbackOnExit

----------------------------------------------------------------------------
(* The escrow.  Its stage and what was paid in are functions of the        *)
(* dispute's record.                                                       *)

StageFrom(x) == IF x.initiator = NoOne THEN "absent"
                ELSE IF x.resolved THEN "settled"
                ELSE IF x.counterpartyStake > 0 THEN "matched"
                ELSE "open"
PaidFrom(x) == x.initiatorStake + x.counterpartyStake

Stage == [d \in DisputeIds |-> StageOf(d)]
PaidIn == [d \in DisputeIds |-> StakeOf(d)]
Pot == held - tokenReserves

EscrowStep == [AbstractEscrow!Next]_(AbstractEscrow!escrowVars)

\* The actions of the escrow, in the words of the contract.
LEMMA EscrowActions ==
  ASSUME NEW d \in DisputeIds
  PROVE  /\ \A amount \in EscalatedStakes :
              /\ Stage[d] = "absent" /\ Stage' = [Stage EXCEPT ![d] = "open"]
              /\ PaidIn' = [PaidIn EXCEPT ![d] = amount]
              /\ Pot' = Pot + amount
              /\ burned' = burned
              => EscrowStep
         /\ /\ Stage[d] = "open" /\ Stage' = [Stage EXCEPT ![d] = "matched"]
            /\ PaidIn' = [PaidIn EXCEPT ![d] = 2 * @]
            /\ Pot' = Pot + PaidIn[d]
            /\ burned' = burned
            => EscrowStep
         /\ /\ Stage[d] \in {"open", "matched"} /\ Stage' = [Stage EXCEPT ![d] = "settled"]
            /\ PaidIn' = PaidIn
            /\ Pot' = Pot - PaidIn[d]
            /\ burned' \in burned .. (burned + PaidIn[d])
            /\ Stage[d] = "open" => burned' = burned
            => EscrowStep
  BY DEF EscrowStep, Stage, PaidIn, Pot, AbstractEscrow!Next, AbstractEscrow!PayIn,
         AbstractEscrow!Match, AbstractEscrow!Settle

LEMMA EscrowStutter ==
  ASSUME Stage' = Stage, PaidIn' = PaidIn, Pot' = Pot, burned' = burned
  PROVE  EscrowStep
  BY DEF EscrowStep, Stage, PaidIn, Pot, AbstractEscrow!escrowVars

LEMMA EscrowFrame ==
  ASSUME IInv, NEW d \in DisputeIds, NEW x, disputes' = [disputes EXCEPT ![d] = x]
  PROVE  /\ Stage' = [Stage EXCEPT ![d] = StageFrom(x)]
         /\ PaidIn' = [PaidIn EXCEPT ![d] = PaidFrom(x)]
         /\ Stage[d] = StageFrom(disputes[d])
         /\ PaidIn[d] = PaidFrom(disputes[d])
  <1>1. disputes'[d] = x /\ \A e \in DisputeIds \ {d} : disputes'[e] = disputes[e]
    BY OneField
  <1>2. \A e \in DisputeIds : Stage[e] = StageFrom(disputes[e]) /\ PaidIn[e] = PaidFrom(disputes[e])
    BY DEF Stage, PaidIn, StageOf, StageFrom, Exists, Staked, StakeOf, PaidFrom
  <1>3. /\ Stage' = [e \in DisputeIds |-> StageFrom(disputes'[e])]
        /\ PaidIn' = [e \in DisputeIds |-> PaidFrom(disputes'[e])]
    BY DEF Stage, PaidIn, StageOf, StageFrom, Exists, Staked, StakeOf, PaidFrom
  <1>4. Stage' = [Stage EXCEPT ![d] = StageFrom(x)]
    <2>1. Stage = [e \in DisputeIds |-> StageFrom(disputes[e])]
      BY DEF Stage, StageOf, StageFrom, Exists, Staked
    <2> QED
      BY <1>1, <1>3, <2>1
  <1>5. PaidIn' = [PaidIn EXCEPT ![d] = PaidFrom(x)]
    <2>1. PaidIn = [e \in DisputeIds |-> PaidFrom(disputes[e])]
      BY DEF PaidIn, StakeOf, PaidFrom
    <2> QED
      BY <1>1, <1>3, <2>1
  <1> QED
    BY <1>2, <1>4, <1>5

\* A step that changes neither parties, stakes nor outcome of any dispute.
LEMMA EscrowIdle ==
  ASSUME IInv, NEW d \in DisputeIds, NEW x, disputes' = [disputes EXCEPT ![d] = x],
         x.initiator = disputes[d].initiator, x.resolved = disputes[d].resolved,
         x.initiatorStake = disputes[d].initiatorStake,
         x.counterpartyStake = disputes[d].counterpartyStake
  PROVE  Stage' = Stage /\ PaidIn' = PaidIn
  <1>1. StageFrom(x) = StageFrom(disputes[d]) /\ PaidFrom(x) = PaidFrom(disputes[d])
    BY DEF StageFrom, PaidFrom
  <1>2. /\ Stage' = [Stage EXCEPT ![d] = StageFrom(x)]
        /\ PaidIn' = [PaidIn EXCEPT ![d] = PaidFrom(x)]
    BY EscrowFrame
  <1>3. Stage[d] = StageFrom(disputes[d]) /\ PaidIn[d] = PaidFrom(disputes[d])
    BY EscrowFrame
  <1>4. [Stage EXCEPT ![d] = Stage[d]] = Stage /\ [PaidIn EXCEPT ![d] = PaidIn[d]] = PaidIn
    BY DEF Stage, PaidIn
  <1>5. Stage[d] = StageFrom(x) /\ PaidIn[d] = PaidFrom(x)
    BY <1>1, <1>3
  <1> QED
    BY <1>2, <1>4, <1>5

----------------------------------------------------------------------------
(* One lemma per action: silence stays free and the escrow takes a step.   *)

LEMMA InitiateStakes ==
  ASSUME IInv, StakesInv, NEW p \in Accounts, NEW c \in Accounts, NEW base \in Stakes,
         NEW t \in FallbackTerms, InitiateBreachDispute(p, c, base, t)
  PROVE  StakesInv' /\ EscrowStep
  <1> DEFINE d     == disputeCounter
             stake == EscalatedStake(p, c, base)
             new   == [NoDispute EXCEPT !.initiator = p, !.counterparty = c,
                                        !.initiatorStake = stake,
                                        !.startTime = now, !.fallback = t]
  <1>1. stake \in Nat \ {0} /\ stake \in EscalatedStakes
    BY EscalatedStakeType, ILRMAssumption
       DEF EscalatedStakes, EscalatedStake, IInv, ILRMAssumption
  <1>2. /\ d \in DisputeIds /\ disputes[d] = NoDispute
        /\ disputes' = [disputes EXCEPT ![d] = new]
        /\ wallet' = [wallet EXCEPT ![p] = @ - stake]
        /\ held' = held + stake
        /\ burned' = burned
        /\ tokenReserves' = tokenReserves
    BY DEF InitiateBreachDispute, IInv, ILRMTypeOK, DisputesWellFormed
  <1>3. /\ new.initiator = p /\ new.counterparty = c /\ new.initiatorStake = stake
        /\ new.counterpartyStake = 0 /\ ~new.resolved
        /\ NoDispute.initiator = NoOne /\ NoDispute.counterparty = NoOne
    BY DEF NoDispute
  <1>4. p # NoOne /\ \A q \in Accounts : q # NoOne
    BY RegistryAssumption DEF RegistryAssumption
  <1> HIDE DEF d, stake, new
  <1>5. disputes'[d] = new /\ \A e \in DisputeIds \ {d} : disputes'[e] = disputes[e]
    BY <1>2, OneField
  <1>6. InitiatorStaked'
    BY <1>1, <1>3, <1>5 DEF StakesInv, InitiatorStaked, Exists
  <1>7. SilentKeepTokens'
    <2> SUFFICES ASSUME NEW q \in Accounts, Silent(q)' PROVE wallet'[q] >= InitialTokens
      BY DEF SilentKeepTokens
    <2>1. q # p
      BY <1>2, <1>3, <1>5 DEF Silent
    <2>2. Silent(q)
      BY <1>2, <1>3, <1>4, <1>5 DEF Silent, Staked
    <2>3. wallet'[q] = wallet[q]
      BY <1>2, <2>1 DEF IInv, ILRMTypeOK, TokenHolders
    <2> QED
      BY <2>2, <2>3 DEF StakesInv, SilentKeepTokens
  <1>8. EscrowStep
    <2>1. StageFrom(new) = "open" /\ StageFrom(disputes[d]) = "absent" /\ PaidFrom(new) = stake
      BY <1>1, <1>2, <1>3, <1>4 DEF StageFrom, PaidFrom
    <2>2. Pot' = Pot + stake
      BY <1>1, <1>2 DEF Pot, IInv, ILRMTypeOK
    <2>3. /\ Stage' = [Stage EXCEPT ![d] = StageFrom(new)]
          /\ PaidIn' = [PaidIn EXCEPT ![d] = PaidFrom(new)]
      BY <1>2, EscrowFrame
    <2>4. Stage[d] = StageFrom(disputes[d])
      BY <1>2, EscrowFrame
    <2>5. /\ Stage[d] = "absent" /\ Stage' = [Stage EXCEPT ![d] = "open"]
          /\ PaidIn' = [PaidIn EXCEPT ![d] = stake]
      BY <2>1, <2>3, <2>4
    <2> QED
      BY <1>1, <1>2, <2>2, <2>5, EscrowActions
  <1> QED
    BY <1>6, <1>7, <1>8 DEF StakesInv

LEMMA DepositStakeStakes ==
  ASSUME IInv, StakesInv, NEW d \in DisputeIds, DepositStake(d)
  PROVE  StakesInv' /\ EscrowStep
  <1> DEFINE x     == disputes[d]
             c     == x.counterparty
             stake == x.initiatorStake
             y     == [x EXCEPT !.counterpartyStake = stake]
  <1>1. /\ x \in Dispute /\ Exists(d) /\ ~x.resolved
        /\ x.counterpartyStake = 0
        /\ stake \in Nat /\ stake > 0
        /\ c \in Accounts
    BY StakeType DEF DepositStake, Staked, StakesInv, InitiatorStaked, IInv, DisputesWellFormed
  <1>2. /\ disputes' = [disputes EXCEPT ![d] = y]
        /\ wallet' = [wallet EXCEPT ![c] = @ - stake]
        /\ held' = held + stake
        /\ burned' = burned
        /\ tokenReserves' = tokenReserves
    BY DEF DepositStake, IInv, ILRMTypeOK
  <1>3. /\ y.initiator = x.initiator /\ y.counterparty = c /\ y.initiatorStake = stake
        /\ y.counterpartyStake = stake /\ y.resolved = x.resolved
    BY <1>1 DEF Dispute
  <1> HIDE DEF c, stake, y
  <1>4. disputes'[d] = y /\ \A e \in DisputeIds \ {d} : disputes'[e] = disputes[e]
    BY <1>2, OneField
  <1>5. InitiatorStaked'
    BY <1>1, <1>3, <1>4 DEF StakesInv, InitiatorStaked, Exists
  <1>6. SilentKeepTokens'
    <2> SUFFICES ASSUME NEW q \in Accounts, Silent(q)' PROVE wallet'[q] >= InitialTokens
      BY DEF SilentKeepTokens
    <2>1. q # c
      BY <1>1, <1>3, <1>4 DEF Silent, Staked
    <2>2. Silent(q)
      BY <1>3, <1>4, <2>1 DEF Silent, Staked, c
    <2>3. wallet'[q] = wallet[q]
      BY <1>2, <2>1 DEF IInv, ILRMTypeOK, TokenHolders
    <2> QED
      BY <2>2, <2>3 DEF StakesInv, SilentKeepTokens
  <1>7. EscrowStep
    <2>1. StageFrom(y) = "matched" /\ StageFrom(x) = "open"
      BY <1>1, <1>3 DEF StageFrom, Exists
    <2>2. PaidFrom(x) = stake /\ PaidFrom(y) = 2 * stake
      BY <1>1, <1>3 DEF PaidFrom, stake
    <2>3. Pot' = Pot + stake
      BY <1>1, <1>2 DEF Pot, IInv, ILRMTypeOK
    <2>4. /\ Stage' = [Stage EXCEPT ![d] = StageFrom(y)]
          /\ PaidIn' = [PaidIn EXCEPT ![d] = PaidFrom(y)]
      BY <1>2, EscrowFrame
    <2>5. Stage[d] = StageFrom(x) /\ PaidIn[d] = PaidFrom(x)
      BY <1>2, EscrowFrame
    <2>6. /\ Stage[d] = "open" /\ Stage' = [Stage EXCEPT ![d] = "matched"]
          /\ PaidIn[d] = stake /\ PaidIn' = [PaidIn EXCEPT ![d] = 2 * stake]
      BY <2>1, <2>2, <2>4, <2>5
    <2>7. PaidIn' = [PaidIn EXCEPT ![d] = 2 * @]
      BY <2>6
    <2>8. burned' = burned
      BY <1>2
    <2> QED
      BY <2>3, <2>6, <2>7, <2>8, EscrowActions
  <1> QED
    BY <1>5, <1>6, <1>7 DEF StakesInv

\* A step of negotiation: no tokens move, no dispute settles.
LEMMA NegotiationStakes ==
  ASSUME IInv, StakesInv, NEW d \in DisputeIds, NEW y, disputes' = [disputes EXCEPT ![d] = y],
         y.initiator = disputes[d].initiator, y.counterparty = disputes[d].counterparty,
         y.initiatorStake = disputes[d].initiatorStake,
         y.counterpartyStake = disputes[d].counterpartyStake, y.resolved = disputes[d].resolved,
         UNCHANGED <<wallet, held, burned, tokenReserves>>
  PROVE  StakesInv' /\ EscrowStep
  <1>1. StakesStay
    BY OneField DEF StakesStay
  <1>2. NobodyPays /\ wallet' \in [TokenHolders -> Nat]
    BY DEF NobodyPays, IInv, ILRMTypeOK, TokenHolders
  <1>3. EscrowStep
    BY EscrowIdle, EscrowStutter DEF Pot
  <1> QED
    BY <1>1, <1>2, <1>3, StakesKept

\* A settlement pays the parties and takes what the dispute received from the pot.
LEMMA SettlementStakes ==
  ASSUME IInv, StakesInv, NEW d \in DisputeIds, Open(d), NEW x \in Dispute, NEW outcome \in Outcomes,
         x.initiator = disputes[d].initiator, x.counterparty = disputes[d].counterparty,
         x.initiatorStake = disputes[d].initiatorStake,
         x.counterpartyStake = disputes[d].counterpartyStake,
         disputes' = [disputes EXCEPT ![d] = SettledAs(x, outcome)],
         NobodyPays, wallet' \in [TokenHolders -> Nat],
         Pot' = Pot - StakeOf(d),
         burned' \in burned .. (burned + StakeOf(d)),
         ~Staked(d) => burned' = burned
  PROVE  StakesInv' /\ EscrowStep
  <1> DEFINE y == SettledAs(x, outcome)
  <1>1. /\ y.resolved
        /\ y.initiator = disputes[d].initiator /\ y.counterparty = disputes[d].counterparty
        /\ y.initiatorStake = disputes[d].initiatorStake
        /\ y.counterpartyStake = disputes[d].counterpartyStake
    BY SettledFields
  <1> HIDE DEF y
  <1>2. disputes' = [disputes EXCEPT ![d] = y]
    BY DEF y
  <1>3. StakesStay
    BY <1>1, <1>2, OneField DEF StakesStay
  <1>4. EscrowStep
    <2>1. StageFrom(y) = "settled" /\ StageFrom(disputes[d]) \in {"open", "matched"}
          /\ (StageFrom(disputes[d]) = "open" => ~Staked(d))
      BY <1>1 DEF StageFrom, Open, Exists, Staked
    <2>2. PaidFrom(y) = PaidFrom(disputes[d]) /\ PaidFrom(disputes[d]) = StakeOf(d)
      BY <1>1 DEF PaidFrom, StakeOf
    <2>3. /\ Stage' = [Stage EXCEPT ![d] = StageFrom(y)]
          /\ PaidIn' = [PaidIn EXCEPT ![d] = PaidFrom(y)]
      BY <1>2, EscrowFrame
    <2>4. Stage[d] = StageFrom(disputes[d]) /\ PaidIn[d] = PaidFrom(disputes[d])
      BY <1>2, EscrowFrame
    <2>5. /\ Stage[d] \in {"open", "matched"} /\ (Stage[d] = "open" => ~Staked(d))
          /\ Stage' = [Stage EXCEPT ![d] = "settled"]
          /\ PaidIn[d] = StakeOf(d) /\ PaidIn' = [PaidIn EXCEPT ![d] = PaidIn[d]]
      BY <2>1, <2>2, <2>3, <2>4
    <2>6. [PaidIn EXCEPT ![d] = PaidIn[d]] = PaidIn
      BY DEF PaidIn
    <2> QED
      BY <2>5, <2>6, EscrowActions
  <1> QED
    BY <1>3, <1>4, StakesKept

LEMMA SubmitProposalStakes ==
  ASSUME IInv, StakesInv, NEW d \in DisputeIds, NEW text \in Proposals,
         SubmitLLMProposal(d, text)
  PROVE  StakesInv' /\ EscrowStep
  <1> DEFINE y == [disputes[d] EXCEPT !.llmProposal = text]
  <1>1. /\ disputes' = [disputes EXCEPT ![d] = y]
        /\ UNCHANGED <<wallet, held, burned, tokenReserves>>
    BY DEF SubmitLLMProposal, tokenVars, IInv, ILRMTypeOK
  <1>2. /\ y.initiator = disputes[d].initiator /\ y.counterparty = disputes[d].counterparty
        /\ y.initiatorStake = disputes[d].initiatorStake
        /\ y.counterpartyStake = disputes[d].counterpartyStake
        /\ y.resolved = disputes[d].resolved
    BY StakeType DEF Dispute
  <1> HIDE DEF y
  <1> QED
    BY <1>1, <1>2, NegotiationStakes

LEMMA CounterProposeStakes ==
  ASSUME IInv, StakesInv, NEW d \in DisputeIds, NEW value \in MsgValues, CounterPropose(d, value)
  PROVE  StakesInv' /\ EscrowStep
  <1> DEFINE y == Renegotiated(disputes[d])
  <1>1. /\ disputes' = [disputes EXCEPT ![d] = y]
        /\ UNCHANGED <<wallet, held, burned, tokenReserves>>
    BY DEF CounterPropose, tokenVars
  <1>2. /\ y.initiator = disputes[d].initiator /\ y.counterparty = disputes[d].counterparty
        /\ y.initiatorStake = disputes[d].initiatorStake
        /\ y.counterpartyStake = disputes[d].counterpartyStake
        /\ y.resolved = disputes[d].resolved
    BY StakeType DEF Renegotiated, Dispute
  <1> HIDE DEF y
  <1> QED
    BY <1>1, <1>2, NegotiationStakes

LEMMA AcceptStakes ==
  ASSUME IInv, StakesInv, NEW d \in DisputeIds, NEW r \in Roles, AcceptProposal(d, r)
  PROVE  StakesInv' /\ EscrowStep
  <1>0. /\ Open(d) /\ Exists(d) /\ disputes[d] \in Dispute
        /\ disputes[d].initiatorStake \in Nat /\ disputes[d].counterpartyStake \in Nat
        /\ StakeOf(d) \in Nat /\ tokenReserves' = tokenReserves
    BY AcceptLeaves, StakeType DEF Open, AcceptProposal
  <1>1. CASE /\ disputes' = [disputes EXCEPT ![d] =
                     SettledAs([disputes[d] EXCEPT !.accepted = Roles], "AcceptedProposal")]
             /\ ResolveAccepted(d)
    <2> DEFINE x == [disputes[d] EXCEPT !.accepted = Roles]
    <2>1. /\ x \in Dispute
          /\ x.initiator = disputes[d].initiator /\ x.counterparty = disputes[d].counterparty
          /\ x.initiatorStake = disputes[d].initiatorStake
          /\ x.counterpartyStake = disputes[d].counterpartyStake
          /\ "AcceptedProposal" \in Outcomes
      BY <1>0 DEF Dispute, Outcomes
    <2>2. /\ wallet' = Credit(Credit(wallet, disputes[d].initiator, disputes[d].initiatorStake),
                              disputes[d].counterparty, disputes[d].counterpartyStake)
          /\ held' = held - StakeOf(d)
          /\ burned' = burned
      BY <1>1 DEF ResolveAccepted
    <2>3. NobodyPays /\ wallet' \in [TokenHolders -> Nat]
      BY <1>0, <2>2, PaymentRaises, PaymentType DEF NobodyPays
    <2>4. Pot' = Pot - StakeOf(d) /\ burned' \in burned .. (burned + StakeOf(d))
      BY <1>0, <2>2 DEF Pot, IInv, ILRMTypeOK
    <2>5. disputes' = [disputes EXCEPT ![d] = SettledAs(x, "AcceptedProposal")]
      BY <1>1
    <2> HIDE DEF x
    <2> QED
      BY <1>0, <2>1, <2>2, <2>3, <2>4, <2>5, SettlementStakes
  <1>2. CASE /\ disputes' = [disputes EXCEPT ![d] = [disputes[d] EXCEPT !.accepted = @ \cup {r}]]
             /\ UNCHANGED <<tokenVars, registryVars>>
    <2> DEFINE y == [disputes[d] EXCEPT !.accepted = @ \cup {r}]
    <2>1. /\ y.initiator = disputes[d].initiator /\ y.counterparty = disputes[d].counterparty
          /\ y.initiatorStake = disputes[d].initiatorStake
          /\ y.counterpartyStake = disputes[d].counterpartyStake
          /\ y.resolved = disputes[d].resolved
      BY <1>0 DEF Dispute
    <2>2. disputes' = [disputes EXCEPT ![d] = y] /\ UNCHANGED <<wallet, held, burned>>
      BY <1>2 DEF tokenVars
    <2> HIDE DEF y
    <2> QED
      BY <1>0, <2>1, <2>2, NegotiationStakes
  <1> QED
    BY <1>1, <1>2, AcceptLeaves

LEMMA EnforceTimeoutStakes ==
  ASSUME IInv, StakesInv, NEW d \in DisputeIds, EnforceTimeout(d)
  PROVE  StakesInv' /\ EscrowStep
  <1> DEFINE x == disputes[d]
  <1>1. /\ Open(d) /\ Exists(d) /\ x \in Dispute
        /\ x.initiatorStake \in Nat /\ x.counterpartyStake \in Nat /\ StakeOf(d) \in Nat
    BY StakeType DEF EnforceTimeout, Open
  <1>2. PICK outcome \in {"TimeoutWithBurn", "DefaultLicenseApplied"} :
           disputes' = [disputes EXCEPT ![d] = SettledAs(disputes[d], outcome)]
    BY EnforceTimeoutSettles
  <1>3. outcome \in Outcomes
    BY DEF Outcomes
  <1>4. CASE ~Staked(d) /\ ResolveNonParticipation(d)
    <2> DEFINE granted == Granted(Incentive(x.initiatorStake))
    <2>1. /\ tokenReserves' = tokenReserves - granted
          /\ wallet' = Credit(wallet, x.initiator, x.initiatorStake + granted)
          /\ held' = held - (x.initiatorStake + granted)
          /\ burned' = burned
      BY <1>4 DEF ResolveNonParticipation
    <2>2. granted \in Nat /\ StakeOf(d) = x.initiatorStake
      BY <1>1, <1>4, IncentiveType DEF Granted, StakeOf, Staked
    <2> HIDE DEF granted
    <2>3. x.initiatorStake + granted \in Nat
      BY <1>1, <2>2
    <2>4. NobodyPays /\ wallet' \in [TokenHolders -> Nat]
      BY <1>1, <2>1, <2>3, PaymentRaises, PaymentType DEF NobodyPays
    <2>5. Pot' = Pot - StakeOf(d) /\ burned' \in burned .. (burned + StakeOf(d))
      BY <1>1, <2>1, <2>2 DEF Pot, IInv, ILRMTypeOK
    <2> QED
      BY <1>1, <1>2, <1>3, <2>1, <2>4, <2>5, SettlementStakes
  <1>5. CASE Staked(d) /\ ResolveTimeout(d)
    <2> DEFINE total == StakeOf(d)
               share == ShareOf(total)
               ashes == Burnt(total)
    <2>1. /\ wallet' = Credit(Credit(wallet, x.initiator, share), x.counterparty, share)
          /\ burned' = burned + ashes
          /\ held' = held - (ashes + 2 * share)
          /\ tokenReserves' = tokenReserves
      BY <1>5 DEF ResolveTimeout
    <2>2. share \in Nat /\ ashes \in Nat /\ ashes + 2 * share = total
      BY <1>1, SharesAddUp
    <2> HIDE DEF share, ashes
    <2>3. NobodyPays /\ wallet' \in [TokenHolders -> Nat]
      BY <1>1, <2>1, <2>2, PaymentRaises, PaymentType DEF NobodyPays
    <2>4. Pot' = Pot - StakeOf(d) /\ burned' \in burned .. (burned + StakeOf(d))
      BY <1>1, <2>1, <2>2 DEF Pot, IInv, ILRMTypeOK
    <2> QED
      BY <1>1, <1>2, <1>3, <1>5, <2>3, <2>4, SettlementStakes
  <1> QED
    BY <1>4, <1>5 DEF EnforceTimeout, Exit

LEMMA FundsStakes ==
  ASSUME IInv, StakesInv, FundsNext
  PROVE  StakesInv' /\ EscrowStep
  <1>1. disputes' = disputes /\ burned' = burned
    BY DEF FundsNext, DepositTokenReserves, ReceiveEther, WithdrawTreasury, Pause, Unpause,
           SetPaused, tokenVars
  <1>2. StakesStay /\ Stage' = Stage /\ PaidIn' = PaidIn
    BY <1>1 DEF StakesStay, Stage, PaidIn, StageOf, StakeOf, Exists, Staked
  <1>3. NobodyPays /\ Pot' = Pot
    <2>1. ASSUME NEW p \in Sponsors, NEW amount \in Deposits, DepositTokenReserves(p, amount)
          PROVE  NobodyPays /\ Pot' = Pot
      BY <2>1, ILRMAssumption DEF DepositTokenReserves, NobodyPays, Pot, IInv, ILRMTypeOK,
                                  TokenHolders, ILRMAssumption
    <2>2. CASE UNCHANGED <<wallet, held, tokenReserves>>
      BY <2>2 DEF NobodyPays, Pot, IInv, ILRMTypeOK, TokenHolders
    <2> QED
      BY <2>1, <2>2 DEF FundsNext, ReceiveEther, WithdrawTreasury, Pause, Unpause, SetPaused,
                        tokenVars
  <1>4. wallet' \in [TokenHolders -> Nat]
    BY FundsInv DEF IInv, ILRMTypeOK
  <1> QED
    BY <1>1, <1>2, <1>3, <1>4, StakesKept, EscrowStutter

LEMMA IdleStakes ==
  ASSUME IInv, StakesInv, UNCHANGED ilrmVars
  PROVE  StakesInv' /\ EscrowStep
  <1>1. UNCHANGED <<disputes, wallet, held, burned, tokenReserves>>
    BY DEF ilrmVars, tokenVars
  <1>2. StakesStay /\ NobodyPays /\ wallet' \in [TokenHolders -> Nat]
    BY <1>1 DEF StakesStay, NobodyPays, IInv, ILRMTypeOK, TokenHolders
  <1>3. Stage' = Stage /\ PaidIn' = PaidIn /\ Pot' = Pot
    BY <1>1 DEF Stage, PaidIn, StageOf, StakeOf, Exists, Staked, Pot
  <1> QED
    BY <1>1, <1>2, <1>3, StakesKept, EscrowStutter

LEMMA StakesStep == IInv /\ StakesInv /\ [Next]_vars => StakesInv' /\ EscrowStep
  <1> SUFFICES ASSUME IInv, StakesInv, [Next]_vars PROVE StakesInv' /\ EscrowStep
    OBVIOUS
  <1>1. CASE \E p, c \in Accounts, base \in Stakes, t \in FallbackTerms :
                InitiateBreachDispute(p, c, base, t)
    BY <1>1, InitiateStakes
  <1>2. ASSUME NEW d \in DisputeIds,
               PartyNext(d) \/ \E text \in Proposals : SubmitLLMProposal(d, text)
        PROVE  StakesInv' /\ EscrowStep
    BY <1>2, DepositStakeStakes, SubmitProposalStakes, AcceptStakes, CounterProposeStakes,
       EnforceTimeoutStakes
       DEF PartyNext
  <1>3. CASE FundsNext
    BY <1>3, FundsStakes
  <1>4. CASE UNCHANGED ilrmVars
    BY <1>4, IdleStakes
  <1> QED
    BY <1>1, <1>2, <1>3, <1>4 DEF Next, UsersNext, vars

THEOREM StakesInvariance == Spec => [](IInv /\ StakesInv)
  <1>1. Init => IInv /\ StakesInv
    BY InitInv, StakesInit
  <1>2. IInv /\ StakesInv /\ [Next]_vars => IInv' /\ StakesInv'
    BY NextInv, StakesStep
  <1> QED
    BY <1>1, <1>2, PTL DEF Spec

\* Whoever neither initiates nor stakes keeps every token and every asset free,
\* whatever disputes are opened against it.
THEOREM SilenceIsFreeHolds == Spec => []SilenceIsFree
  <1>1. IInv /\ StakesInv => SilenceIsFree
    <2> SUFFICES ASSUME IInv, StakesInv, NEW p \in Accounts, Silent(p)
                 PROVE  /\ wallet[p] >= InitialTokens
                        /\ \A a \in Assets : owner[a] = p => status[a] = "Active"
      BY DEF SilenceIsFree
    <2>1. wallet[p] >= InitialTokens
      BY DEF StakesInv, SilentKeepTokens
    <2>2. ASSUME NEW a \in Assets, owner[a] = p, status[a] = "Frozen" PROVE FALSE
      <3>1. assetDispute[a] \in DisputeIds /\ a \in frozenAssets[assetDispute[a]]
        BY <2>2 DEF IInv, RegInv, RegistryTypeOK, FrozenOnOneList
      <3> QED
        BY <2>2, <3>1 DEF IInv, HeldByInitiator, Silent
    <2>3. \A a \in Assets : status[a] \in {"Active", "Frozen"}
      BY DEF IInv, RegInv, RegistryTypeOK
    <2> QED
      BY <2>1, <2>2, <2>3
  <1> QED
    BY <1>1, StakesInvariance, PTL

\* The contract implements the escrow: every stake leaves the contract once and whole,
\* when its dispute settles, and only matched stakes burn.
THEOREM EscrowImplemented == Spec => ImplementsEscrow
  <1>1. Init => AbstractEscrow!Init
    BY DEF Init, NoDispute, AbstractEscrow!Init, StageOf, Exists, StakeOf
  <1>2. IInv /\ StakesInv /\ [Next]_vars => [AbstractEscrow!Next]_(AbstractEscrow!escrowVars)
    BY StakesStep DEF EscrowStep
  <1> QED
    BY <1>1, <1>2, StakesInvariance, PTL DEF Spec, ImplementsEscrow, AbstractEscrow!Spec

----------------------------------------------------------------------------
(* The books.  What the contract holds beyond the reserves is the sum of   *)
(* the open disputes' stakes: a fact about the escrow.  That no token      *)
(* comes from nowhere or gets lost is a fact about each transfer.          *)

\* What dispute d has in the pot.
InPot(d) == IF Stage[d] \in {"open", "matched"} THEN PaidIn[d] ELSE 0
Holdings == [d \in DisputeIds |-> InPot(d)]

PotIsHoldings == Pot = SumFunction(Holdings)

Supply == SumFunction(wallet) + held + burned
SupplyConstant == Supply = InitialTokens * Cardinality(TokenHolders)

BooksInv == PotIsHoldings /\ SupplyConstant

LEMMA Finite == IsFiniteSet(DisputeIds) /\ IsFiniteSet(TokenHolders)
  BY RegistryAssumption, ILRMAssumption, FS_Union
     DEF RegistryAssumption, ILRMAssumption, TokenHolders

LEMMA HoldingsType == IInv => Holdings \in [DisputeIds -> Int] /\ Pot \in Int
  <1> SUFFICES ASSUME IInv PROVE Holdings \in [DisputeIds -> Int] /\ Pot \in Int
    OBVIOUS
  <1>1. \A d \in DisputeIds : PaidIn[d] \in Nat
    BY StakeType DEF PaidIn
  <1>2. Holdings \in [DisputeIds -> Int]
    BY <1>1 DEF Holdings, InPot
  <1>3. Pot \in Int
    BY DEF Pot, IInv, ILRMTypeOK
  <1> QED
    BY <1>2, <1>3

LEMMA HoldingsAre == Holdings = [d \in DisputeIds |-> Holding(d)]
  BY DEF Holdings, InPot, Holding, Stage, PaidIn, StageOf, Open, Exists

LEMMA PotStep ==
  ASSUME IInv, IInv', PotIsHoldings, EscrowStep
  PROVE  PotIsHoldings'
  <1>0. /\ Holdings \in [DisputeIds -> Int] /\ Pot \in Int /\ SumFunction(Holdings) = Pot
        /\ Holdings' \in [DisputeIds -> Int]
        /\ \A d \in DisputeIds : PaidIn[d] \in Int /\ PaidIn'[d] \in Int
    <2>1. \A d \in DisputeIds : PaidIn[d] \in Int
      BY StakeType DEF PaidIn
    <2>2. IInv' => \A d \in DisputeIds : PaidIn'[d] \in Int
      BY DEF PaidIn, StakeOf, IInv, ILRMTypeOK, Dispute
    <2>3. IInv' => Holdings' \in [DisputeIds -> Int]
      BY <2>2 DEF Holdings, InPot
    <2> QED
      BY <2>1, <2>2, <2>3, HoldingsType DEF PotIsHoldings
  <1>1. ASSUME NEW d \in DisputeIds, NEW v \in Int,
               \A e \in DisputeIds \ {d} : Stage'[e] = Stage[e] /\ PaidIn'[e] = PaidIn[e],
               Holdings'[d] = v, Pot' = Pot - Holdings[d] + v
        PROVE  PotIsHoldings'
    <2>1. \A e \in DisputeIds \ {d} : Holdings'[e] = Holdings[e]
      BY <1>1 DEF Holdings, InPot
    <2>2. SumFunction(Holdings') = SumFunction(Holdings) - Holdings[d] + Holdings'[d]
      BY <1>0, <2>1, Finite, SumChangesOne
    <2> QED
      BY <1>0, <1>1, <2>2 DEF PotIsHoldings
  <1>2. CASE Stage' = Stage /\ PaidIn' = PaidIn /\ Pot' = Pot
    <2>1. Holdings' = Holdings
      BY <1>2 DEF Holdings, InPot
    <2> QED
      BY <1>2, <2>1 DEF PotIsHoldings
  <1>3. ASSUME NEW d \in DisputeIds, NEW amount \in Int,
               Stage[d] = "absent", Stage' = [Stage EXCEPT ![d] = "open"],
               PaidIn' = [PaidIn EXCEPT ![d] = amount], Pot' = Pot + amount
        PROVE  PotIsHoldings'
    <2>1. \A e \in DisputeIds \ {d} : Stage'[e] = Stage[e] /\ PaidIn'[e] = PaidIn[e]
      BY <1>3
    <2>2. Stage'[d] = "open" /\ PaidIn'[d] = amount
      BY <1>3 DEF Stage, PaidIn
    <2>3. Holdings[d] = 0 /\ Holdings'[d] = amount
      BY <1>3, <2>2 DEF Holdings, InPot
    <2> QED
      BY <1>0, <1>1, <1>3, <2>1, <2>3
  <1>4. ASSUME NEW d \in DisputeIds, Stage[d] = "open", Stage' = [Stage EXCEPT ![d] = "matched"],
               PaidIn' = [PaidIn EXCEPT ![d] = 2 * @], Pot' = Pot + PaidIn[d]
        PROVE  PotIsHoldings'
    <2>1. \A e \in DisputeIds \ {d} : Stage'[e] = Stage[e] /\ PaidIn'[e] = PaidIn[e]
      BY <1>4
    <2>2. Stage'[d] = "matched" /\ PaidIn'[d] = 2 * PaidIn[d]
      BY <1>4 DEF Stage, PaidIn
    <2>3. Holdings[d] = PaidIn[d] /\ Holdings'[d] = 2 * PaidIn[d]
      BY <1>4, <2>2 DEF Holdings, InPot
    <2> QED
      BY <1>0, <1>1, <1>4, <2>1, <2>3
  <1>5. ASSUME NEW d \in DisputeIds, Stage[d] \in {"open", "matched"},
               Stage' = [Stage EXCEPT ![d] = "settled"],
               PaidIn' = PaidIn, Pot' = Pot - PaidIn[d]
        PROVE  PotIsHoldings'
    <2>1. \A e \in DisputeIds \ {d} : Stage'[e] = Stage[e] /\ PaidIn'[e] = PaidIn[e]
      BY <1>5
    <2>2. Stage'[d] = "settled"
      BY <1>5 DEF Stage
    <2>3. Holdings[d] = PaidIn[d] /\ Holdings'[d] = 0
      BY <1>5, <2>2 DEF Holdings, InPot
    <2> QED
      BY <1>0, <1>1, <1>5, <2>1, <2>3
  <1>6. EscalatedStakes \subseteq Int
    <2>1. \A base \in Stakes : (base * ESCALATION_MULTIPLIER) \div 100 \in Int
      BY ILRMAssumption DEF ILRMAssumption, ESCALATION_MULTIPLIER
    <2>2. Stakes \subseteq Int
      BY ILRMAssumption DEF ILRMAssumption
    <2> QED
      BY <2>1, <2>2 DEF EscalatedStakes
  <1> QED
    BY <1>2, <1>3, <1>4, <1>5, <1>6
       DEF EscrowStep, Stage, PaidIn, Pot, AbstractEscrow!Next, AbstractEscrow!PayIn,
           AbstractEscrow!Match, AbstractEscrow!Settle, AbstractEscrow!escrowVars

----------------------------------------------------------------------------
(* Every transfer, action by action.                                       *)

LEMMA WalletType ==
  IInv => /\ wallet \in [TokenHolders -> Int]
          /\ SumFunction(wallet) \in Int
          /\ held \in Int /\ burned \in Int
  BY Finite, SumType DEF IInv, ILRMTypeOK

LEMMA CreditSum ==
  ASSUME NEW S, IsFiniteSet(S), NEW f \in [S -> Nat], NEW p \in S, NEW n \in Nat
  PROVE  SumFunction(Credit(f, p, n)) = SumFunction(f) + n
  <1>1. f \in [S -> Int] /\ n \in Int
    OBVIOUS
  <1> QED
    BY <1>1, SumCredit, ZenonT(30) DEF Credit

LEMMA PaymentSum ==
  ASSUME IInv, NEW d \in DisputeIds, Exists(d), NEW n \in Nat, NEW m \in Nat
  PROVE  /\ SumFunction(Credit(wallet, disputes[d].initiator, n)) = SumFunction(wallet) + n
         /\ SumFunction(Credit(Credit(wallet, disputes[d].initiator, n),
                               disputes[d].counterparty, m))
              = SumFunction(wallet) + n + m
  <1> DEFINE w == Credit(wallet, disputes[d].initiator, n)
  <1>1. disputes[d].initiator \in TokenHolders /\ disputes[d].counterparty \in TokenHolders
    BY DEF IInv, DisputesWellFormed, TokenHolders
  <1>2. wallet \in [TokenHolders -> Nat] /\ w \in [TokenHolders -> Nat]
    BY PaymentType DEF IInv, ILRMTypeOK
  <1>3. SumFunction(w) = SumFunction(wallet) + n
    BY <1>1, <1>2, Finite, CreditSum
  <1> HIDE DEF w
  <1>4. SumFunction(Credit(w, disputes[d].counterparty, m)) = SumFunction(w) + m
    BY <1>1, <1>2, Finite, CreditSum
  <1> QED
    BY <1>3, <1>4 DEF w

\* A payment into the contract.
LEMMA PaidIntoSupply ==
  ASSUME IInv, NEW p \in TokenHolders, NEW n \in Int,
         wallet' = [wallet EXCEPT ![p] = @ - n], held' = held + n, burned' = burned
  PROVE  Supply' = Supply
  <1>1. SumFunction(wallet') = SumFunction(wallet) - n /\ SumFunction(wallet) \in Int
    BY Finite, WalletType, SumDebit, ZenonT(30)
  <1> QED
    BY <1>1, WalletType DEF Supply

LEMMA SupplyStep == IInv /\ [Next]_vars => Supply' = Supply
  <1> SUFFICES ASSUME IInv, [Next]_vars PROVE Supply' = Supply
    OBVIOUS
  <1>0. CASE UNCHANGED <<wallet, held, burned>>
    BY <1>0 DEF Supply
  <1>1. ASSUME NEW p \in Accounts, NEW c \in Accounts, NEW base \in Stakes,
               NEW t \in FallbackTerms, InitiateBreachDispute(p, c, base, t)
        PROVE  Supply' = Supply
    <2>1. EscalatedStake(p, c, base) \in Int
      BY EscalatedStakeType, ILRMAssumption DEF IInv, ILRMAssumption
    <2> QED
      BY <1>1, <2>1, PaidIntoSupply DEF InitiateBreachDispute, TokenHolders
  <1>2. ASSUME NEW d \in DisputeIds, DepositStake(d) PROVE Supply' = Supply
    <2>1. disputes[d].counterparty \in TokenHolders /\ disputes[d].initiatorStake \in Int
      BY <1>2, StakeType DEF DepositStake, IInv, DisputesWellFormed, TokenHolders
    <2> QED
      BY <1>2, <2>1, PaidIntoSupply DEF DepositStake
  <1>3. ASSUME NEW d \in DisputeIds, NEW r \in Roles, AcceptProposal(d, r)
        PROVE  Supply' = Supply
    <2>1. CASE ResolveAccepted(d)
      <3>1. Exists(d)
        BY <1>3 DEF AcceptProposal
      <3>2. SumFunction(wallet)' = SumFunction(wallet) + disputes[d].initiatorStake
                                     + disputes[d].counterpartyStake
        BY <2>1, <3>1, PaymentSum, StakeType DEF ResolveAccepted
      <3>3. held' = held - StakeOf(d) /\ burned' = burned
        BY <2>1 DEF ResolveAccepted
      <3> QED
        BY <3>2, <3>3, WalletType, StakeType DEF Supply, StakeOf
    <2> QED
      BY <1>0, <1>3, <2>1, AcceptLeaves DEF tokenVars
  <1>4. ASSUME NEW d \in DisputeIds, EnforceTimeout(d) PROVE Supply' = Supply
    <2>1. Exists(d) /\ disputes[d].initiatorStake \in Nat /\ StakeOf(d) \in Nat
      BY <1>4, StakeType DEF EnforceTimeout, Open
    <2>2. CASE ResolveNonParticipation(d)
      <3> DEFINE paid == disputes[d].initiatorStake + Granted(Incentive(disputes[d].initiatorStake))
      <3>1. paid \in Nat
        BY <2>1, IncentiveType DEF Granted
      <3>2. wallet' = Credit(wallet, disputes[d].initiator, paid) /\ held' = held - paid
            /\ burned' = burned
        BY <2>2 DEF ResolveNonParticipation
      <3> HIDE DEF paid
      <3>3. SumFunction(wallet)' = SumFunction(wallet) + paid
        BY <2>1, <3>1, <3>2, PaymentSum
      <3> QED
        BY <3>1, <3>2, <3>3, WalletType DEF Supply
    <2>3. CASE ResolveTimeout(d)
      <3> DEFINE share == ShareOf(StakeOf(d))
                 ashes == Burnt(StakeOf(d))
      <3>1. share \in Nat /\ ashes \in Nat
        BY <2>1, SharesAddUp
      <3>2. /\ wallet' = Credit(Credit(wallet, disputes[d].initiator, share),
                                disputes[d].counterparty, share)
            /\ burned' = burned + ashes
            /\ held' = held - (ashes + 2 * share)
        BY <2>3 DEF ResolveTimeout
      <3> HIDE DEF share, ashes
      <3>3. SumFunction(wallet)' = SumFunction(wallet) + share + share
        BY <2>1, <3>1, <3>2, PaymentSum
      <3> QED
        BY <3>1, <3>2, <3>3, WalletType DEF Supply
    <2> QED
      BY <1>4, <2>2, <2>3 DEF EnforceTimeout, Exit
  <1>5. ASSUME NEW p \in Sponsors, NEW amount \in Deposits, DepositTokenReserves(p, amount)
        PROVE  Supply' = Supply
    <2>1. p \in TokenHolders /\ amount \in Int
      BY ILRMAssumption DEF TokenHolders, ILRMAssumption
    <2> QED
      BY <1>5, <2>1, PaidIntoSupply DEF DepositTokenReserves
  <1>6. ASSUME NEW d \in DisputeIds, NEW value, CounterPropose(d, value)
        PROVE  UNCHANGED <<wallet, held, burned>>
    BY <1>6 DEF CounterPropose, tokenVars
  <1>7. ASSUME NEW d \in DisputeIds, NEW text, SubmitLLMProposal(d, text)
        PROVE  UNCHANGED <<wallet, held, burned>>
    BY <1>7 DEF SubmitLLMProposal, tokenVars
  <1>8. CASE \/ \E value \in MsgValues : ReceiveEther(value) \/ WithdrawTreasury(value)
             \/ Pause \/ Unpause \/ UNCHANGED ilrmVars
    BY <1>0, <1>8 DEF ReceiveEther, WithdrawTreasury, Pause, Unpause, SetPaused, ilrmVars, tokenVars
  <1> QED
    BY <1>0, <1>1, <1>2, <1>3, <1>4, <1>5, <1>6, <1>7, <1>8
       DEF Next, UsersNext, PartyNext, FundsNext, vars

LEMMA BooksInit == Init => BooksInv
  <1> SUFFICES ASSUME Init PROVE BooksInv
    OBVIOUS
  <1>1. Holdings = [d \in DisputeIds |-> 0] /\ Pot = 0
    BY DEF Init, Holdings, InPot, Stage, StageOf, Exists, NoDispute, Pot
  <1>2. SumFunction(Holdings) = 0 * Cardinality(DisputeIds)
    BY <1>1, Finite, SumConstant
  <1>3. PotIsHoldings
    BY <1>1, <1>2, Finite, FS_CardinalityType DEF PotIsHoldings
  <1>4. SumFunction(wallet) = InitialTokens * Cardinality(TokenHolders)
    BY Finite, SumConstant, ILRMAssumption DEF Init, ILRMAssumption
  <1>5. InitialTokens * Cardinality(TokenHolders) \in Int
    BY Finite, FS_CardinalityType, ILRMAssumption DEF ILRMAssumption
  <1>6. SupplyConstant
    BY <1>4, <1>5 DEF SupplyConstant, Supply, Init
  <1> QED
    BY <1>3, <1>6 DEF BooksInv

\* Whatever the parties, the sponsors and the keepers do, the contract holds exactly
\* the stakes of the open disputes and the reserves, and no token is created or lost.
THEOREM FundsAccountedHolds == Spec => []FundsAccounted
  <1>1. Init => IInv /\ StakesInv /\ BooksInv
    BY InitInv, StakesInit, BooksInit
  <1>2. IInv /\ StakesInv /\ BooksInv /\ [Next]_vars => IInv' /\ StakesInv' /\ BooksInv'
    BY NextInv, StakesStep, PotStep, SupplyStep DEF BooksInv, SupplyConstant
  <1>3. IInv /\ BooksInv => FundsAccounted
    <2> SUFFICES ASSUME IInv, BooksInv PROVE FundsAccounted
      OBVIOUS
    <2>1. Pot = SumFunction([d \in DisputeIds |-> Holding(d)])
      BY HoldingsAre DEF BooksInv, PotIsHoldings
    <2>2. held = SumFunction([d \in DisputeIds |-> Holding(d)]) + tokenReserves
      BY <2>1 DEF Pot, IInv, ILRMTypeOK
    <2>3. tokenReserves >= 0 /\ treasury <= ethBalance
      BY DEF IInv, ILRMTypeOK, EtherBacked
    <2> QED
      BY <2>2, <2>3 DEF FundsAccounted, BooksInv, SupplyConstant, Supply
  <1> QED
    BY <1>1, <1>2, <1>3, PTL DEF Spec
=============================================================================

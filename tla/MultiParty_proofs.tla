-------------------------- MODULE MultiParty_proofs --------------------------
(***************************************************************************)
(* Proofs about the multi-party protocol, for any number of parties and    *)
(* disputes, every quorum rule and every value of the windows: votes and   *)
(* their counters agree, a quorum is one of parties that consented to the  *)
(* text that is on the table, and only those who staked have assets        *)
(* frozen.                                                                 *)
(***************************************************************************)
EXTENDS MultiPartyProps, Registry_proofs, FiniteAlgebra

\* What VotesAgree says of one dispute.
Agree(x) == /\ x.acceptanceCount = Cardinality(x.accepted)
            /\ x.rejectionCount = Cardinality(x.rejected)
            /\ x.accepted \cap x.rejected = {}
            /\ x.accepted \cup x.rejected \subseteq x.staked
            /\ x.staked \subseteq x.parties

\* An acceptance stands only while the round and the text do.  c is the dispute's
\* consent.
Consented(x, c) == \A p \in x.accepted :
                      c[p] = [round |-> x.counterCount, proposal |-> x.llmProposal]

\* No party joins, no vote is cast or withdrawn after the quorum.
Quorate(x) == x.outcome = "QuorumAccepted" =>
                /\ x.resolved
                /\ Cardinality(x.accepted) >= QuorumRequirement(x)
                /\ x.accepted # {}

Sound(x, c) == /\ x \in MultiPartyDispute
               /\ Agree(x)
               /\ Consented(x, c)
               /\ Quorate(x)
               /\ x.initiator = NoOne => x.parties = {}

DisputesSound == /\ mp \in [DisputeIds -> MultiPartyDispute]
                 /\ consent \in [DisputeIds -> [Accounts -> Consent]]
                 /\ \A d \in DisputeIds : Sound(mp[d], consent[d])

\* Ids are used once, in order.
IdsInOrder == mpCounter \in Nat /\ \A d \in DisputeIds : d >= mpCounter => ~Exists(d)

HeldByStakers == \A d \in DisputeIds : \A a \in frozenAssets[d] :
                    Open(d) /\ owner[a] \in mp[d].staked

IInv == /\ now \in Nat \ {0}
        /\ RegInv
        /\ DisputesSound
        /\ IdsInOrder
        /\ HeldByStakers

----------------------------------------------------------------------------
(* One dispute.                                                            *)

LEMMA ConfigType ==
  ASSUME NEW cf \in Config
  PROVE  cf.quorumType \in QuorumTypes /\ cf.customQuorumBps \in Nat
  <1>1. cf.quorumType \in QuorumTypes
    BY DEF Config
  <1>2. cf.customQuorumBps \in 0 .. BPS_DENOMINATOR
    BY DEF Config
  <1>3. \A n \in 0 .. BPS_DENOMINATOR : n \in Nat
    BY DEF BPS_DENOMINATOR
  <1>4. cf.customQuorumBps \in Nat
    BY <1>2, <1>3, Zenon
  <1> QED
    BY <1>1, <1>4, Zenon

LEMMA QuorumType ==
  ASSUME NEW x \in MultiPartyDispute
  PROVE  QuorumRequirement(x) \in Int
  <1>1. Cardinality(x.parties) \in Nat
    BY RegistryAssumption, FS_Subset, FS_CardinalityType
       DEF RegistryAssumption, MultiPartyDispute
  <1>2. x.config \in Config
    BY MultiPartyAssumption DEF MultiPartyAssumption, MultiPartyDispute
  <1>3. x.config.quorumType \in QuorumTypes /\ x.config.customQuorumBps \in Nat
    BY <1>2, ConfigType
  <1>4. Cardinality(x.parties) * x.config.customQuorumBps \in Nat
    BY <1>1, <1>3
  <1> QED
    BY <1>1, <1>3, <1>4 DEF QuorumRequirement, QuorumTypes, BPS_DENOMINATOR

\* Sets of parties are finite: adding one counts one more.
LEMMA OneMore ==
  ASSUME NEW S \in SUBSET Accounts, NEW p \in Accounts, p \notin S
  PROVE  Cardinality(S \cup {p}) = Cardinality(S) + 1 /\ Cardinality(S) \in Nat
  <1>1. IsFiniteSet(S)
    BY RegistryAssumption, FS_Subset DEF RegistryAssumption
  <1> QED
    BY <1>1, FS_AddElement, FS_CardinalityType

\* The parts of a dispute that staking and voting replace.
LEMMA StakedType ==
  ASSUME NEW x \in MultiPartyDispute, NEW S \in SUBSET Accounts, NEW n \in Nat
  PROVE  [x EXCEPT !.staked = S, !.totalStaked = n] \in MultiPartyDispute
  BY DEF MultiPartyDispute

LEMMA AcceptedType ==
  ASSUME NEW x \in MultiPartyDispute, NEW S \in SUBSET Accounts, NEW n \in Nat
  PROVE  [x EXCEPT !.accepted = S, !.acceptanceCount = n] \in MultiPartyDispute
  BY DEF MultiPartyDispute

LEMMA RejectedType ==
  ASSUME NEW x \in MultiPartyDispute, NEW S \in SUBSET Accounts, NEW n \in Nat
  PROVE  [x EXCEPT !.rejected = S, !.rejectionCount = n] \in MultiPartyDispute
  BY DEF MultiPartyDispute

LEMMA NoDisputeSound == \A c : Sound(NoDispute, c)
  <1>1. NoDispute \in MultiPartyDispute
    <2> DEFINE first == CHOOSE t \in FallbackTerms : TRUE
               plain == CHOOSE cf \in Configs : TRUE
    <2>1. first \in FallbackTerms /\ plain \in Configs
      BY RegistryAssumption, MultiPartyAssumption DEF RegistryAssumption, MultiPartyAssumption
    <2>2. 0 \in 0 .. MAX_COUNTERS
      BY MultiPartyAssumption DEF MultiPartyAssumption
    <2> HIDE DEF first, plain
    <2> QED
      BY <2>1, <2>2 DEF NoDispute, MultiPartyDispute, Outcomes, first, plain
  <1>2. Agree(NoDispute)
    BY FS_EmptySet DEF NoDispute, Agree
  <1> QED
    BY <1>1, <1>2 DEF Sound, Consented, Quorate, NoDispute

\* What every step but the first does to a dispute.
LEMMA KeepsDisputes ==
  ASSUME DisputesSound, IdsInOrder, NEW d \in DisputeIds, Exists(d), NEW x,
         mp' = [mp EXCEPT ![d] = x], Sound(x, consent'[d]),
         consent' \in [DisputeIds -> [Accounts -> Consent]],
         \A e \in DisputeIds \ {d} : consent'[e] = consent[e],
         x.initiator = mp[d].initiator, UNCHANGED mpCounter
  PROVE  DisputesSound' /\ IdsInOrder'
  <1>1. x \in MultiPartyDispute
    BY DEF Sound
  <1>2. mp'[d] = x /\ \A e \in DisputeIds \ {d} : mp'[e] = mp[e]
    BY DEF DisputesSound
  <1>3. mp' \in [DisputeIds -> MultiPartyDispute]
    BY <1>1 DEF DisputesSound
  <1>4. \A e \in DisputeIds : Sound(mp'[e], consent'[e])
    BY <1>2 DEF DisputesSound
  <1>5. IdsInOrder'
    BY <1>2 DEF IdsInOrder, Exists
  <1> QED
    BY <1>3, <1>4, <1>5 DEF DisputesSound

----------------------------------------------------------------------------
(* What a step does to the registry: nothing, freeze or release.           *)

LEMMA KeepsHolding ==
  ASSUME IInv, NEW d \in DisputeIds, NEW x, mp' = [mp EXCEPT ![d] = x],
         x.initiator = mp[d].initiator, ~x.resolved, mp[d].staked \subseteq x.staked,
         UNCHANGED registryVars
  PROVE  RegInv' /\ HeldByStakers'
  <1>1. mp'[d] = x /\ \A e \in DisputeIds \ {d} : mp'[e] = mp[e]
    BY DEF IInv, DisputesSound
  <1> QED
    BY <1>1 DEF IInv, HeldByStakers, Open, Exists, RegInv, RegistryTypeOK, OwnershipIndexed,
                FrozenOnOneList, UnownedActive, registryVars, assetVars

LEMMA FreezeHolding ==
  ASSUME IInv, NEW d \in DisputeIds, NEW p \in Accounts, NEW x, mp' = [mp EXCEPT ![d] = x],
         x.initiator \in Accounts, ~x.resolved, mp[d].staked \subseteq x.staked, p \in x.staked,
         FreezeAssets(ThisMP, d, p), UNCHANGED <<terms, DisputesLeaveAlone>>
  PROVE  RegInv' /\ HeldByStakers'
  <1>1. RegInv'
    BY FreezeAssetsInv, RegistryAssumption DEF IInv
  <1>2. mp'[d] = x /\ \A e \in DisputeIds \ {d} : mp'[e] = mp[e]
    BY DEF IInv, DisputesSound
  <1>3. \A a \in Freezable(p) : owner[a] = p
    BY FreezableProperty DEF IInv
  <1>4. /\ frozenAssets'[d] = frozenAssets[d] \cup Freezable(p)
        /\ \A e \in DisputeIds \ {d} : frozenAssets'[e] = frozenAssets[e]
        /\ owner' = owner
    BY DEF FreezeAssets, DisputesLeaveAlone, IInv, RegInv, RegistryTypeOK
  <1>5. x.initiator # NoOne
    BY RegistryAssumption DEF RegistryAssumption
  <1>6. HeldByStakers'
    BY <1>2, <1>3, <1>4, <1>5 DEF IInv, HeldByStakers, Open, Exists
  <1> QED
    BY <1>1, <1>6

LEMMA ReleaseHolding ==
  ASSUME IInv, NEW d \in DisputeIds, NEW x, mp' = [mp EXCEPT ![d] = x],
         UnfreezeAssets(ThisMP, d), terms' \in [Assets -> Terms], UNCHANGED DisputesLeaveAlone
  PROVE  RegInv' /\ HeldByStakers'
  <1>1. RegInv'
    BY UnfreezeAssetsInv, RegistryAssumption DEF IInv
  <1>2. \A e \in DisputeIds \ {d} : mp'[e] = mp[e]
    BY DEF IInv, DisputesSound
  <1>3. /\ frozenAssets'[d] = {}
        /\ \A e \in DisputeIds \ {d} : frozenAssets'[e] = frozenAssets[e]
        /\ owner' = owner
    BY DEF UnfreezeAssets, DisputesLeaveAlone, IInv, RegInv, RegistryTypeOK
  <1>4. HeldByStakers'
    BY <1>2, <1>3 DEF IInv, HeldByStakers, Open, Exists
  <1> QED
    BY <1>1, <1>4

----------------------------------------------------------------------------
(* One lemma per action.                                                   *)

LEMMA InitInv == Init => IInv
  <1> SUFFICES ASSUME Init PROVE IInv
    OBVIOUS
  <1>1. now \in Nat \ {0} /\ RegInv
    BY RegistryInitInv, RegistryAssumption DEF Init, BlockInit
  <1>2. [round |-> 0, proposal |-> NoProposal] \in Consent
    BY MultiPartyAssumption DEF Consent, MultiPartyAssumption
  <1>3. DisputesSound
    <2>1. \A d \in DisputeIds : mp[d] = NoDispute
      BY DEF Init
    <2>2. NoDispute \in MultiPartyDispute
      BY NoDisputeSound DEF Sound
    <2>3. mp \in [DisputeIds -> MultiPartyDispute]
      BY <2>2 DEF Init
    <2>4. consent \in [DisputeIds -> [Accounts -> Consent]]
      BY <1>2 DEF Init
    <2> QED
      BY <2>1, <2>3, <2>4, NoDisputeSound DEF DisputesSound
  <1>4. IdsInOrder
    BY DEF Init, IdsInOrder, Exists, NoDispute
  <1>5. HeldByStakers
    BY DEF Init, RegistryInit, HeldByStakers
  <1> QED
    BY <1>1, <1>3, <1>4, <1>5 DEF IInv

LEMMA CreateInv ==
  ASSUME IInv, NEW p \in Accounts, NEW parties \in SUBSET Accounts, NEW base \in BaseStakes,
         NEW t \in FallbackTerms, NEW cf \in Configs,
         CreateMultiPartyDispute(p, parties, base, t, cf)
  PROVE  IInv'
  <1> DEFINE d == mpCounter
             x == [NoDispute EXCEPT !.initiator = p, !.baseStake = base, !.totalStaked = base,
                                    !.startTime = now, !.fallback = t, !.config = cf,
                                    !.parties = parties, !.staked = {p}]
  <1>1. /\ p \in parties
        /\ d \in DisputeIds
        /\ mpCounter' = d + 1
        /\ mp' = [mp EXCEPT ![d] = x]
        /\ FreezeAssets(ThisMP, d, p)
        /\ UNCHANGED <<now, terms, DisputesLeaveAlone, consent>>
    BY DEF CreateMultiPartyDispute
  <1>2. NoDispute \in MultiPartyDispute /\ base \in Nat
    BY NoDisputeSound, MultiPartyAssumption DEF Sound, MultiPartyAssumption
  <1>3. x \in MultiPartyDispute
    BY <1>1, <1>2 DEF MultiPartyDispute, IInv
  <1>4. /\ x.initiator = p /\ x.parties = parties /\ x.staked = {p}
        /\ x.accepted = {} /\ x.rejected = {}
        /\ x.acceptanceCount = 0 /\ x.rejectionCount = 0
        /\ x.outcome = "Pending" /\ x.resolved = FALSE
    BY DEF NoDispute
  <1>5. ~Exists(d)
    BY <1>1, MultiPartyAssumption DEF IInv, IdsInOrder, MultiPartyAssumption
  <1>6. mp[d].staked = {}
    BY <1>1, <1>5 DEF IInv, DisputesSound, Sound, Agree, Exists
  <1> HIDE DEF d, x
  <1>7. Sound(x, consent'[d])
    BY <1>1, <1>3, <1>4, FS_EmptySet, RegistryAssumption
       DEF Sound, Agree, Consented, Quorate, RegistryAssumption
  <1>8. mp'[d] = x /\ \A e \in DisputeIds \ {d} : mp'[e] = mp[e]
    BY <1>1 DEF IInv, DisputesSound
  <1>9. DisputesSound'
    <2>1. mp' \in [DisputeIds -> MultiPartyDispute]
      BY <1>1, <1>3 DEF IInv, DisputesSound
    <2> QED
      BY <1>1, <1>7, <1>8, <2>1 DEF IInv, DisputesSound
  <1>10. IdsInOrder'
    BY <1>1, <1>8, RegistryAssumption DEF IInv, IdsInOrder, Exists, RegistryAssumption, d
  <1>11. RegInv' /\ HeldByStakers'
    BY <1>1, <1>4, <1>6, FreezeHolding
  <1> QED
    BY <1>1, <1>9, <1>10, <1>11 DEF IInv

LEMMA JoinInv ==
  ASSUME IInv, NEW d \in DisputeIds, NEW p \in Accounts, JoinDispute(d, p)
  PROVE  IInv'
  <1> DEFINE x == mp[d]
             y == [x EXCEPT !.parties = @ \cup {p}]
  <1>1. Sound(x, consent[d]) /\ x \in MultiPartyDispute
    BY DEF IInv, DisputesSound, Sound
  <1>2. /\ Exists(d) /\ ~x.resolved
        /\ mp' = [mp EXCEPT ![d] = y]
        /\ UNCHANGED <<now, registryVars, mpCounter, consent>>
    BY DEF JoinDispute
  <1>3. /\ y \in MultiPartyDispute
        /\ y.parties = x.parties \cup {p}
        /\ y.initiator = x.initiator /\ y.staked = x.staked /\ y.resolved = x.resolved
        /\ y.outcome = x.outcome
        /\ y.accepted = x.accepted /\ y.rejected = x.rejected
        /\ y.acceptanceCount = x.acceptanceCount /\ y.rejectionCount = x.rejectionCount
        /\ y.counterCount = x.counterCount /\ y.llmProposal = x.llmProposal
    BY <1>1 DEF MultiPartyDispute
  <1> HIDE DEF y
  <1>4. Sound(y, consent'[d])
    BY <1>1, <1>2, <1>3 DEF Sound, Agree, Consented, Quorate, Exists
  <1>5. DisputesSound' /\ IdsInOrder'
    BY <1>2, <1>3, <1>4, KeepsDisputes DEF IInv, DisputesSound
  <1>6. RegInv' /\ HeldByStakers'
    BY <1>2, <1>3, KeepsHolding
  <1> QED
    BY <1>2, <1>5, <1>6 DEF IInv

LEMMA DepositStakeInv ==
  ASSUME IInv, NEW d \in DisputeIds, NEW p \in Accounts, DepositStake(d, p)
  PROVE  IInv'
  <1> DEFINE x == mp[d]
             y == [x EXCEPT !.staked = @ \cup {p}, !.totalStaked = @ + x.baseStake]
  <1>1. Sound(x, consent[d]) /\ x \in MultiPartyDispute
    BY DEF IInv, DisputesSound, Sound
  <1>2. /\ ~x.resolved
        /\ p \in x.parties
        /\ FreezeAssets(ThisMP, d, p)
        /\ UNCHANGED <<now, terms, DisputesLeaveAlone, mpCounter, consent>>
    BY DEF DepositStake
  <1>3. mp' = [mp EXCEPT ![d] = y]
    BY <1>1 DEF DepositStake, IInv, DisputesSound
  <1>4. Exists(d)
    BY <1>1, <1>2 DEF Sound, Exists
  <1>5. /\ y \in MultiPartyDispute
        /\ y.staked = x.staked \cup {p}
        /\ y.initiator = x.initiator /\ y.parties = x.parties /\ y.resolved = x.resolved
        /\ y.outcome = x.outcome
        /\ y.accepted = x.accepted /\ y.rejected = x.rejected
        /\ y.acceptanceCount = x.acceptanceCount /\ y.rejectionCount = x.rejectionCount
        /\ y.counterCount = x.counterCount /\ y.llmProposal = x.llmProposal
        /\ x.initiator \in Accounts
    <2>1. x.staked \cup {p} \in SUBSET Accounts /\ x.totalStaked + x.baseStake \in Nat
      BY <1>1 DEF MultiPartyDispute
    <2>2. y \in MultiPartyDispute
      BY <1>1, <2>1, StakedType
    <2> QED
      BY <1>1, <1>4, <2>2 DEF MultiPartyDispute, Exists
  <1> HIDE DEF y
  <1>6. Sound(y, consent'[d])
    BY <1>1, <1>2, <1>4, <1>5 DEF Sound, Agree, Consented, Quorate, Exists
  <1>7. DisputesSound' /\ IdsInOrder'
    BY <1>2, <1>3, <1>4, <1>5, <1>6, KeepsDisputes DEF IInv, DisputesSound
  <1>8. RegInv' /\ HeldByStakers'
    BY <1>2, <1>3, <1>5, FreezeHolding
  <1> QED
    BY <1>2, <1>7, <1>8 DEF IInv

\* Every vote is withdrawn with the text it was cast on.
LEMMA TabledSound ==
  ASSUME NEW x, NEW c, Sound(x, c), ~x.resolved, NEW text \in Proposals \cup {NoProposal}
  PROVE  /\ Sound(Tabled(x, text), c)
         /\ Tabled(x, text).initiator = x.initiator
         /\ Tabled(x, text).resolved = x.resolved
         /\ Tabled(x, text).staked = x.staked
         /\ Tabled(x, text).accepted = {}
         /\ Tabled(x, text).outcome # "QuorumAccepted"
  <1> DEFINE y == Tabled(x, text)
  <1>1. x \in MultiPartyDispute
    BY DEF Sound
  <1>2. /\ y.initiator = x.initiator /\ y.parties = x.parties /\ y.staked = x.staked
        /\ y.resolved = x.resolved /\ y.outcome = x.outcome
        /\ y.accepted = {} /\ y.rejected = {}
        /\ y.acceptanceCount = 0 /\ y.rejectionCount = 0
    BY <1>1 DEF MultiPartyDispute, Tabled
  <1>5. y \in MultiPartyDispute
    BY <1>1 DEF MultiPartyDispute, Tabled
  <1>3. x.outcome # "QuorumAccepted"
    BY DEF Sound, Quorate
  <1> HIDE DEF y
  <1>4. Sound(y, c)
    BY <1>2, <1>3, <1>5, FS_EmptySet DEF Sound, Agree, Consented, Quorate
  <1> QED
    BY <1>2, <1>3, <1>4 DEF y

LEMMA SubmitInv ==
  ASSUME IInv, NEW d \in DisputeIds, NEW text \in Proposals, SubmitLLMProposal(d, text)
  PROVE  IInv'
  <1> DEFINE x == mp[d]
             y == Tabled(x, text)
  <1>1. /\ Exists(d) /\ ~x.resolved
        /\ mp' = [mp EXCEPT ![d] = y]
        /\ UNCHANGED <<now, registryVars, mpCounter, consent>>
    BY DEF SubmitLLMProposal
  <1>2. Sound(y, consent'[d]) /\ y.initiator = x.initiator /\ ~y.resolved /\ y.staked = x.staked
    BY <1>1, TabledSound DEF IInv, DisputesSound
  <1> HIDE DEF y
  <1>3. DisputesSound' /\ IdsInOrder'
    BY <1>1, <1>2, KeepsDisputes DEF IInv, DisputesSound
  <1>4. RegInv' /\ HeldByStakers'
    BY <1>1, <1>2, KeepsHolding
  <1> QED
    BY <1>1, <1>3, <1>4 DEF IInv

LEMMA CounterProposeInv ==
  ASSUME IInv, NEW d \in DisputeIds, NEW p \in Accounts, NEW value \in MsgValues,
         CounterPropose(d, p, value)
  PROVE  IInv'
  <1> DEFINE x == mp[d]
             z == Tabled(x, NoProposal)
             y == [z EXCEPT !.counterCount = @ + 1, !.startTime = ExtendedStart(x)]
  <1>1. Sound(x, consent[d]) /\ x \in MultiPartyDispute
    BY DEF IInv, DisputesSound, Sound
  <1>2. /\ ~x.resolved
        /\ p \in x.parties
        /\ x.counterCount < MAX_COUNTERS
        /\ mp' = [mp EXCEPT ![d] = y]
        /\ UNCHANGED <<now, registryVars, mpCounter, consent>>
    BY DEF CounterPropose, CountersLeft
  <1>3. Exists(d)
    BY <1>1, <1>2 DEF Sound, Exists
  <1>4. /\ Sound(z, consent[d]) /\ z.initiator = x.initiator /\ z.resolved = x.resolved
        /\ z.staked = x.staked /\ z.accepted = {} /\ z.outcome # "QuorumAccepted"
    BY <1>1, <1>2, TabledSound
  <1>5. x.counterCount + 1 \in 0 .. MAX_COUNTERS /\ ExtendedStart(x) \in Nat
    <2>1. x.counterCount \in 0 .. MAX_COUNTERS /\ x.startTime \in Nat
      BY <1>1 DEF MultiPartyDispute
    <2>2. MAX_COUNTERS \in Nat
      BY MultiPartyAssumption DEF MultiPartyAssumption
    <2> QED
      BY <1>2, <2>1, <2>2 DEF ExtendedStart
  <1>6. z.counterCount = x.counterCount
    BY <1>1 DEF Tabled, MultiPartyDispute
  <1> HIDE DEF z
  <1>7. z \in MultiPartyDispute
    BY <1>4 DEF Sound
  <1>8. /\ y \in MultiPartyDispute
        /\ y.initiator = z.initiator /\ y.parties = z.parties /\ y.staked = z.staked
        /\ y.resolved = z.resolved /\ y.outcome = z.outcome
        /\ y.accepted = z.accepted /\ y.rejected = z.rejected
        /\ y.acceptanceCount = z.acceptanceCount /\ y.rejectionCount = z.rejectionCount
    BY <1>5, <1>6, <1>7 DEF MultiPartyDispute
  <1> HIDE DEF y
  <1>9. Sound(y, consent'[d])
    BY <1>2, <1>4, <1>8 DEF Sound, Agree, Consented, Quorate
  <1>10. DisputesSound' /\ IdsInOrder'
    BY <1>2, <1>3, <1>4, <1>8, <1>9, KeepsDisputes DEF IInv, DisputesSound
  <1>11. RegInv' /\ HeldByStakers'
    BY <1>2, <1>4, <1>8, KeepsHolding
  <1> QED
    BY <1>2, <1>10, <1>11 DEF IInv

LEMMA AcceptInv ==
  ASSUME IInv, NEW d \in DisputeIds, NEW p \in Accounts, AcceptProposal(d, p)
  PROVE  IInv'
  <1> DEFINE x    == mp[d]
             y    == AcceptedBy(x, p)
             done == [y EXCEPT !.resolved = TRUE, !.outcome = "QuorumAccepted"]
             mine == [round |-> y.counterCount, proposal |-> y.llmProposal]
  <1>1. Sound(x, consent[d]) /\ x \in MultiPartyDispute
    BY DEF IInv, DisputesSound, Sound
  <1>2. /\ ~x.resolved
        /\ p \in x.parties /\ p \in x.staked /\ p \notin x.accepted /\ p \notin x.rejected
    BY DEF AcceptProposal, MayVote
  <1>3. /\ consent' = [consent EXCEPT ![d][p] = mine]
        /\ UNCHANGED <<now, mpCounter>>
    BY DEF AcceptProposal
  <1>4. Exists(d)
    BY <1>1, <1>2 DEF Sound, Exists
  <1>5. /\ Cardinality(x.accepted \cup {p}) = x.acceptanceCount + 1
        /\ x.acceptanceCount \in Nat
    BY <1>1, <1>2, OneMore DEF Sound, Agree, MultiPartyDispute
  <1>6. /\ y \in MultiPartyDispute
        /\ y.accepted = x.accepted \cup {p} /\ y.acceptanceCount = x.acceptanceCount + 1
        /\ y.rejected = x.rejected /\ y.rejectionCount = x.rejectionCount
        /\ y.initiator = x.initiator /\ y.parties = x.parties /\ y.staked = x.staked
        /\ y.resolved = x.resolved /\ y.outcome = x.outcome
        /\ y.counterCount = x.counterCount /\ y.llmProposal = x.llmProposal
    <2>1. x.accepted \cup {p} \in SUBSET Accounts /\ x.acceptanceCount + 1 \in Nat
      BY <1>1 DEF MultiPartyDispute
    <2>2. y \in MultiPartyDispute
      BY <1>1, <2>1, AcceptedType DEF AcceptedBy
    <2> QED
      BY <1>1, <2>2 DEF AcceptedBy, MultiPartyDispute
  <1>7. mine \in Consent
    BY <1>6 DEF Consent, MultiPartyDispute
  <1>8. /\ consent' \in [DisputeIds -> [Accounts -> Consent]]
        /\ consent'[d][p] = mine
        /\ \A q \in Accounts \ {p} : consent'[d][q] = consent[d][q]
        /\ \A e \in DisputeIds \ {d} : consent'[e] = consent[e]
    BY <1>3, <1>7 DEF IInv, DisputesSound
  <1>9. Agree(y)
    BY <1>1, <1>2, <1>5, <1>6 DEF Sound, Agree
  <1>10. Consented(y, consent'[d])
    BY <1>1, <1>6, <1>8 DEF Sound, Consented, MultiPartyDispute
  <1>11. CASE y.acceptanceCount >= QuorumRequirement(y)
    <2>1. /\ mp' = [mp EXCEPT ![d] = done]
          /\ ResolveWithQuorum(d)
      BY <1>11 DEF AcceptProposal
    <2>2. /\ done \in MultiPartyDispute
          /\ done.resolved
          /\ done.accepted = y.accepted /\ done.acceptanceCount = y.acceptanceCount
          /\ done.rejected = y.rejected /\ done.rejectionCount = y.rejectionCount
          /\ done.initiator = y.initiator /\ done.parties = y.parties /\ done.staked = y.staked
          /\ done.counterCount = y.counterCount /\ done.llmProposal = y.llmProposal
          /\ done.config = y.config
      BY <1>6 DEF MultiPartyDispute, Outcomes
    <2>3. UnfreezeAssets(ThisMP, d) /\ terms' = terms /\ UNCHANGED DisputesLeaveAlone
      BY <2>1 DEF ResolveWithQuorum
    <2> HIDE DEF done, y
    <2>4. QuorumRequirement(done) = QuorumRequirement(y)
      BY <2>2 DEF QuorumRequirement
    <2>5. Agree(done) /\ Consented(done, consent'[d]) /\ Quorate(done)
      BY <1>6, <1>9, <1>10, <1>11, <2>2, <2>4 DEF Agree, Consented, Quorate
    <2>6. Sound(done, consent'[d])
      BY <1>4, <1>6, <2>2, <2>5 DEF Sound, Exists
    <2>7. DisputesSound' /\ IdsInOrder'
      BY <1>3, <1>4, <1>6, <1>8, <2>1, <2>2, <2>6, KeepsDisputes, ZenonT(30) DEF IInv
    <2>8. RegInv' /\ HeldByStakers'
      BY <2>1, <2>3, ReleaseHolding DEF IInv, RegInv, RegistryTypeOK
    <2> QED
      BY <1>3, <2>7, <2>8 DEF IInv
  <1>12. CASE ~(y.acceptanceCount >= QuorumRequirement(y))
    <2>1. /\ mp' = [mp EXCEPT ![d] = y]
          /\ UNCHANGED registryVars
      BY <1>12 DEF AcceptProposal
    <2> HIDE DEF y
    <2>2. Sound(y, consent'[d])
      BY <1>1, <1>2, <1>4, <1>6, <1>9, <1>10 DEF Sound, Quorate, Exists
    <2>3. DisputesSound' /\ IdsInOrder'
      BY <1>3, <1>4, <1>6, <1>8, <2>1, <2>2, KeepsDisputes DEF IInv
    <2>4. RegInv' /\ HeldByStakers'
      BY <1>2, <1>6, <2>1, KeepsHolding
    <2> QED
      BY <1>3, <2>3, <2>4 DEF IInv
  <1> QED
    BY <1>11, <1>12

LEMMA RejectInv ==
  ASSUME IInv, NEW d \in DisputeIds, NEW p \in Accounts, RejectProposal(d, p)
  PROVE  IInv'
  <1> DEFINE x == mp[d]
             y == [x EXCEPT !.rejected = @ \cup {p}, !.rejectionCount = @ + 1]
  <1>1. Sound(x, consent[d]) /\ x \in MultiPartyDispute
    BY DEF IInv, DisputesSound, Sound
  <1>2. /\ ~x.resolved
        /\ p \in x.parties /\ p \in x.staked /\ p \notin x.accepted /\ p \notin x.rejected
        /\ UNCHANGED <<now, registryVars, mpCounter, consent>>
    BY DEF RejectProposal, MayVote
  <1>3. mp' = [mp EXCEPT ![d] = y]
    BY <1>1 DEF RejectProposal, IInv, DisputesSound
  <1>4. Exists(d)
    BY <1>1, <1>2 DEF Sound, Exists
  <1>5. /\ Cardinality(x.rejected \cup {p}) = x.rejectionCount + 1
        /\ x.rejectionCount \in Nat
    BY <1>1, <1>2, OneMore DEF Sound, Agree, MultiPartyDispute
  <1>6. /\ y \in MultiPartyDispute
        /\ y.rejected = x.rejected \cup {p} /\ y.rejectionCount = x.rejectionCount + 1
        /\ y.accepted = x.accepted /\ y.acceptanceCount = x.acceptanceCount
        /\ y.initiator = x.initiator /\ y.parties = x.parties /\ y.staked = x.staked
        /\ y.resolved = x.resolved /\ y.outcome = x.outcome
        /\ y.counterCount = x.counterCount /\ y.llmProposal = x.llmProposal
    <2>1. x.rejected \cup {p} \in SUBSET Accounts /\ x.rejectionCount + 1 \in Nat
      BY <1>1 DEF MultiPartyDispute
    <2>2. y \in MultiPartyDispute
      BY <1>1, <2>1, RejectedType
    <2> QED
      BY <1>1, <2>2 DEF MultiPartyDispute
  <1> HIDE DEF y
  <1>7. Sound(y, consent'[d])
    BY <1>1, <1>2, <1>4, <1>5, <1>6 DEF Sound, Agree, Consented, Quorate, Exists
  <1>8. DisputesSound' /\ IdsInOrder'
    BY <1>2, <1>3, <1>4, <1>6, <1>7, KeepsDisputes DEF IInv, DisputesSound
  <1>9. RegInv' /\ HeldByStakers'
    BY <1>2, <1>3, <1>6, KeepsHolding
  <1> QED
    BY <1>2, <1>8, <1>9 DEF IInv

\* Both exits settle the dispute and release its assets, quorum or not.
LEMMA EnforceTimeoutInv ==
  ASSUME IInv, NEW d \in DisputeIds, EnforceTimeout(d)
  PROVE  IInv'
  <1> DEFINE x == mp[d]
  <1>1. Sound(x, consent[d]) /\ x \in MultiPartyDispute
    BY DEF IInv, DisputesSound, Sound
  <1>2. Exists(d) /\ UNCHANGED <<now, mpCounter, consent>>
    BY DEF EnforceTimeout, Open
  <1>3. PICK outcome \in {"PartialResolution", "TimeoutWithBurn"} :
           mp' = [mp EXCEPT ![d] = Settled(x, outcome)] /\ UnfreezeAndApplyFallback(d)
    BY <1>1 DEF EnforceTimeout, ResolveNonParticipation, ResolveTimeout, IInv, DisputesSound
  <1> DEFINE y == Settled(x, outcome)
  <1>4. /\ y \in MultiPartyDispute
        /\ y.outcome # "QuorumAccepted"
        /\ y.accepted = x.accepted /\ y.acceptanceCount = x.acceptanceCount
        /\ y.rejected = x.rejected /\ y.rejectionCount = x.rejectionCount
        /\ y.initiator = x.initiator /\ y.parties = x.parties /\ y.staked = x.staked
        /\ y.counterCount = x.counterCount /\ y.llmProposal = x.llmProposal
    <2>1. outcome \in Outcomes /\ outcome # "QuorumAccepted"
      BY DEF Outcomes
    <2>2. y \in MultiPartyDispute
      BY <1>1, <2>1 DEF Settled, MultiPartyDispute
    <2> QED
      BY <1>1, <2>1, <2>2 DEF Settled, MultiPartyDispute
  <1>5. /\ UnfreezeAssets(ThisMP, d)
        /\ terms' \in [Assets -> Terms]
        /\ UNCHANGED DisputesLeaveAlone
    <2>1. x.fallback \in FallbackTerms
      BY <1>1 DEF MultiPartyDispute
    <2> QED
      BY <1>3, <2>1, ApplyFallbackType DEF UnfreezeAndApplyFallback, IInv
  <1>6. mp' = [mp EXCEPT ![d] = y]
    BY <1>3
  <1> HIDE DEF y
  <1>7. Sound(y, consent'[d])
    BY <1>1, <1>2, <1>4 DEF Sound, Agree, Consented, Quorate
  <1>8. DisputesSound' /\ IdsInOrder'
    BY <1>2, <1>4, <1>6, <1>7, KeepsDisputes DEF IInv, DisputesSound
  <1>9. RegInv' /\ HeldByStakers'
    BY <1>5, <1>6, ReleaseHolding
  <1> QED
    BY <1>2, <1>8, <1>9 DEF IInv

\* Owners of assets and of the registry: a frozen asset keeps its owner.
LEMMA RegistryStepInv ==
  ASSUME IInv, UserNext \/ OwnerNext, UNCHANGED <<now, mpVars>>
  PROVE  IInv'
  <1>1. RegInv'
    BY UserInv, OwnerInv, RegistryAssumption DEF IInv
  <1>2. /\ frozenAssets' = frozenAssets
        /\ \A a \in Assets : status[a] = "Frozen" => owner'[a] = owner[a]
    <2>1. CASE OwnerNext
      BY <2>1 DEF OwnerNext, AuthorizeILRM, RevokeILRM, assetVars
    <2>2. ASSUME NEW a \in Assets, NEW p \in Accounts, NEW t \in OwnTerms, RegisterAsset(a, p, t)
          PROVE  <1>2!1 /\ <1>2!2
      BY <2>2, RegistryAssumption
         DEF RegisterAsset, IInv, RegInv, RegistryTypeOK, UnownedActive, RegistryAssumption
    <2>3. ASSUME NEW a \in Assets, NEW p \in Accounts, TransferAsset(a, p)
          PROVE  <1>2!1 /\ <1>2!2
      BY <2>3 DEF TransferAsset, NotFrozen, IInv, RegInv, RegistryTypeOK
    <2>4. ASSUME NEW a \in Assets, NEW l \in Licensees,
                 (\E n \in Durations : GrantLicense(a, l, n)) \/ RevokeLicense(a, l)
          PROVE  <1>2!1 /\ <1>2!2
      BY <2>4 DEF GrantLicense, RevokeLicense, assetVars
    <2> QED
      BY <2>1, <2>2, <2>3, <2>4 DEF UserNext
  <1>3. UNCHANGED <<now, mp, mpCounter, consent>>
    BY DEF mpVars
  <1>4. HeldByStakers'
    BY <1>2, <1>3
       DEF IInv, HeldByStakers, RegInv, RegistryTypeOK, FrozenOnOneList, Open, Exists
  <1> QED
    BY <1>1, <1>3, <1>4 DEF IInv, DisputesSound, IdsInOrder, Exists

\* The clock, ETH going in and out, the pause.
LEMMA AsideInv ==
  ASSUME IInv, UNCHANGED <<registryVars, mp, mpCounter, consent>>, Tick \/ UNCHANGED now
  PROVE  IInv'
  BY DEF IInv, DisputesSound, IdsInOrder, HeldByStakers, RegInv, RegistryTypeOK,
         OwnershipIndexed, FrozenOnOneList, UnownedActive, Open, Exists, Tick, registryVars,
         assetVars

LEMMA NextInv == IInv /\ [Next]_vars => IInv'
  <1> SUFFICES ASSUME IInv, [Next]_vars PROVE IInv'
    OBVIOUS
  <1>1. CASE \E p \in Accounts, parties \in SUBSET Accounts, base \in BaseStakes,
                t \in FallbackTerms, cf \in Configs :
                CreateMultiPartyDispute(p, parties, base, t, cf)
    BY <1>1, CreateInv
  <1>2. ASSUME NEW d \in DisputeIds, NEW p \in Accounts, PartyNext(d, p) PROVE IInv'
    BY <1>2, JoinInv, DepositStakeInv, AcceptInv, RejectInv, CounterProposeInv DEF PartyNext
  <1>3. ASSUME NEW d \in DisputeIds,
               (\E text \in Proposals : SubmitLLMProposal(d, text)) \/ EnforceTimeout(d)
        PROVE  IInv'
    BY <1>3, SubmitInv, EnforceTimeoutInv
  <1>4. CASE AdminNext
    BY <1>4, AsideInv DEF AdminNext, ReceiveEther, WithdrawTreasury, SetPaused
  <1>5. CASE (UserNext \/ OwnerNext) /\ UNCHANGED <<now, mpVars>>
    BY <1>5, RegistryStepInv
  <1>6. CASE (Tick /\ UNCHANGED <<registryVars, mpVars>>) \/ UNCHANGED vars
    BY <1>6, AsideInv DEF vars, mpVars
  <1> QED
    BY <1>1, <1>2, <1>3, <1>4, <1>5, <1>6 DEF Next

THEOREM Invariance == Spec => []IInv
  BY InitInv, NextInv, PTL DEF Spec

----------------------------------------------------------------------------
(* What follows.                                                           *)

\* Through every interleaving of joins, votes and counter-proposals, the counters of a
\* dispute are those of its flags and only staked parties have voted.
THEOREM VotesAgreeHolds == Spec => []VotesAgree
  <1>1. IInv => VotesAgree
    BY DEF IInv, DisputesSound, Sound, Agree, VotesAgree
  <1> QED
    BY <1>1, Invariance, PTL

\* An asset is frozen exactly when an open dispute holds it, and it belongs to a party
\* that staked in that dispute.
THEOREM FreezeBindsStakersHolds == Spec => []FreezeBindsStakers
  <1>1. IInv => FreezeBindsStakers
    BY DEF IInv, RegInv, RegistryTypeOK, FrozenOnOneList, HeldByStakers, FreezeBindsStakers
  <1> QED
    BY <1>1, Invariance, PTL

\* A quorum is one of the parties the dispute has, each of whom accepted the very text
\* it is resolved with, in the last round.
THEOREM QuorumConsentsHolds == Spec => []QuorumConsents
  <1>1. IInv => QuorumConsents
    <2> SUFFICES ASSUME IInv, NEW d \in DisputeIds, mp[d].outcome = "QuorumAccepted"
                 PROVE  LET agreed == {p \in mp[d].parties :
                                         consent[d][p] = [round |-> mp[d].counterCount,
                                                          proposal |-> mp[d].llmProposal]}
                        IN Cardinality(agreed) >= QuorumRequirement(mp[d]) /\ agreed # {}
      BY DEF QuorumConsents
    <2> DEFINE x      == mp[d]
               agreed == {p \in x.parties : consent[d][p] = [round |-> x.counterCount,
                                                             proposal |-> x.llmProposal]}
    <2>1. Sound(x, consent[d]) /\ x \in MultiPartyDispute
      BY DEF IInv, DisputesSound, Sound
    <2>2. Cardinality(x.accepted) >= QuorumRequirement(x) /\ x.accepted # {}
      BY <2>1 DEF Sound, Quorate
    <2>3. x.accepted \subseteq agreed
      BY <2>1 DEF Sound, Agree, Consented
    <2>4. agreed \subseteq Accounts
      BY <2>1 DEF MultiPartyDispute
    <2>5. IsFiniteSet(agreed)
      BY <2>4, RegistryAssumption, FS_Subset DEF RegistryAssumption
    <2>6. /\ Cardinality(x.accepted) <= Cardinality(agreed)
          /\ Cardinality(agreed) \in Nat
          /\ Cardinality(x.accepted) \in Nat
      BY <2>3, <2>5, FS_Subset, FS_CardinalityType
    <2>7. QuorumRequirement(x) \in Int
      BY <2>1, QuorumType
    <2> HIDE DEF agreed
    <2>8. Cardinality(agreed) >= QuorumRequirement(x) /\ agreed # {}
      BY <2>2, <2>3, <2>6, <2>7
    <2> QED
      BY <2>8 DEF agreed
  <1> QED
    BY <1>1, Invariance, PTL

----------------------------------------------------------------------------
(* The books: one base stake is held for each staker of an open dispute,   *)
(* and no token is created or lost when shares do not divide evenly.       *)

HoldingOf(x) == IF x.initiator # NoOne /\ ~x.resolved
                THEN Cardinality(x.staked) * x.baseStake
                ELSE 0
Holdings == [d \in DisputeIds |-> HoldingOf(mp[d])]
Supply == SumFunction(wallet) + held + burned

\* The running total of a dispute says what its stakers paid; the initiator is one.
Counted(x) == /\ x.totalStaked = Cardinality(x.staked) * x.baseStake
              /\ x.initiator # NoOne => x.initiator \in x.staked

BooksInv == /\ wallet \in [Accounts -> Nat] /\ burned \in Nat
            /\ held = SumFunction(Holdings)
            /\ Supply = InitialTokens * Cardinality(Accounts)
            /\ \A d \in DisputeIds : Counted(mp[d])
EtherInv == /\ treasury \in Nat /\ ethBalance \in Nat /\ paused \in BOOLEAN
            /\ treasury <= ethBalance

LEMMA StakedSize ==
  ASSUME NEW x \in MultiPartyDispute
  PROVE  /\ Cardinality(x.staked) \in Nat /\ x.baseStake \in Nat
         /\ Cardinality(x.staked) * x.baseStake \in Nat
         /\ HoldingOf(x) \in Nat
  <1>1. Cardinality(x.staked) \in Nat /\ x.baseStake \in Nat
    BY RegistryAssumption, FS_Subset, FS_CardinalityType
       DEF RegistryAssumption, MultiPartyDispute
  <1>2. Cardinality(x.staked) * x.baseStake \in Nat
    BY <1>1
  <1> QED
    BY <1>1, <1>2 DEF HoldingOf

LEMMA HeldType ==
  ASSUME IInv, BooksInv
  PROVE  /\ Holdings \in [DisputeIds -> Nat] /\ Holdings \in [DisputeIds -> Int]
         /\ wallet \in [Accounts -> Int] /\ SumFunction(wallet) \in Int
         /\ held \in Nat
         /\ IsFiniteSet(DisputeIds) /\ IsFiniteSet(Accounts)
  <1>0. IsFiniteSet(DisputeIds) /\ IsFiniteSet(Accounts)
    BY RegistryAssumption DEF RegistryAssumption
  <1>1. \A d \in DisputeIds : HoldingOf(mp[d]) \in Nat
    BY StakedSize DEF IInv, DisputesSound
  <1>2. Holdings \in [DisputeIds -> Nat]
    BY <1>1 DEF Holdings
  <1>3. Holdings \in [DisputeIds -> Int]
    BY <1>2
  <1>4. wallet \in [Accounts -> Int]
    BY DEF BooksInv
  <1>5. \A d \in DisputeIds : Holdings[d] \in Nat
    BY <1>2
  <1>6. SumFunctionOnSet(Holdings, DisputeIds) \in Nat
    BY <1>0, <1>5, SumNat
  <1>7. SumFunction(Holdings) \in Nat
    BY <1>0, <1>3, <1>6, SumType
  <1> QED
    BY <1>0, <1>2, <1>3, <1>4, <1>7, SumType DEF BooksInv

\* A step that changes one dispute, and what it holds by as much as the contract does.
LEMMA BooksStep ==
  ASSUME IInv, BooksInv, NEW d \in DisputeIds, NEW x \in MultiPartyDispute,
         mp' = [mp EXCEPT ![d] = x], Counted(x),
         held' = held - HoldingOf(mp[d]) + HoldingOf(x),
         wallet' \in [Accounts -> Nat], burned' \in Nat, Supply' = Supply
  PROVE  BooksInv'
  <1>1. mp'[d] = x /\ \A e \in DisputeIds \ {d} : mp'[e] = mp[e]
    BY DEF IInv, DisputesSound
  <1>2. \A e \in DisputeIds : Counted(mp'[e])
    BY <1>1 DEF BooksInv
  <1>3. /\ Holdings'[d] = HoldingOf(x) /\ Holdings[d] = HoldingOf(mp[d])
        /\ \A e \in DisputeIds \ {d} : Holdings'[e] = Holdings[e]
    BY <1>1 DEF Holdings
  <1>4. \A e \in DisputeIds : HoldingOf(mp'[e]) \in Nat
    BY <1>1, StakedSize DEF IInv, DisputesSound
  <1>5. Holdings' \in [DisputeIds -> Int]
    BY <1>4 DEF Holdings
  <1>6. SumFunction(Holdings') = SumFunction(Holdings) - Holdings[d] + Holdings'[d]
    BY <1>3, <1>5, HeldType, SumChangesOne
  <1>7. held' = SumFunction(Holdings')
    BY <1>3, <1>6 DEF BooksInv
  <1> QED
    BY <1>2, <1>7 DEF BooksInv, Counted

\* A party pays its stake.
LEMMA PaysSupply ==
  ASSUME IInv, BooksInv, NEW p \in Accounts, NEW n \in Nat, Pays(p, n), burned' = burned
  PROVE  /\ Supply' = Supply
         /\ wallet' \in [Accounts -> Nat]
  <1>1. SumFunction(wallet') = SumFunction(wallet) - n
    <2>1. wallet \in [Accounts -> Int] /\ IsFiniteSet(Accounts) /\ n \in Int
      BY HeldType
    <2>2. SumFunction([wallet EXCEPT ![p] = @ - n]) = SumFunction(wallet) - n
      BY <2>1, SumDebit
    <2> QED
      BY <2>2 DEF Pays
  <1>2. wallet' \in [Accounts -> Nat]
    BY DEF Pays, BooksInv
  <1>3. Supply' = Supply
    BY <1>1, HeldType DEF Supply, Pays, BooksInv
  <1> QED
    BY <1>2, <1>3

\* Everyone who staked receives the same amount.
LEMMA ReceiveSum ==
  ASSUME IInv, BooksInv, NEW A \in SUBSET Accounts, NEW n \in Nat, wallet' = Receive(A, n)
  PROVE  /\ SumFunction(wallet') = SumFunction(wallet) + n * Cardinality(A)
         /\ wallet' \in [Accounts -> Nat]
  <1>1. /\ wallet' \in [Accounts -> Nat]
        /\ \A q \in Accounts : wallet'[q] = wallet[q] + (IF q \in A THEN n ELSE 0)
    BY DEF Receive, BooksInv
  <1>2. wallet' \in [Accounts -> Int]
    BY <1>1
  <1>3. SumFunction(wallet') = SumFunction(wallet) + n * Cardinality(A)
    BY <1>1, <1>2, HeldType, SumPayout
  <1> QED
    BY <1>1, <1>3

LEMMA CreateBooks ==
  ASSUME IInv, BooksInv, NEW p \in Accounts, NEW parties \in SUBSET Accounts,
         NEW base \in BaseStakes, NEW t \in FallbackTerms, NEW cf \in Configs,
         CreateMultiPartyDispute(p, parties, base, t, cf)
  PROVE  BooksInv'
  <1> DEFINE d == mpCounter
             x == [NoDispute EXCEPT !.initiator = p, !.baseStake = base, !.totalStaked = base,
                                    !.startTime = now, !.fallback = t, !.config = cf,
                                    !.parties = parties, !.staked = {p}]
  <1>1. /\ d \in DisputeIds /\ mp' = [mp EXCEPT ![d] = x]
        /\ Pays(p, base) /\ burned' = burned
    BY DEF CreateMultiPartyDispute
  <1>2. NoDispute \in MultiPartyDispute /\ base \in Nat
    BY NoDisputeSound, MultiPartyAssumption DEF Sound, MultiPartyAssumption
  <1>3. x \in MultiPartyDispute
    BY <1>2 DEF MultiPartyDispute, IInv
  <1>4. /\ x.initiator = p /\ x.staked = {p} /\ x.resolved = FALSE
        /\ x.baseStake = base /\ x.totalStaked = base
    BY DEF NoDispute
  <1>5. ~Exists(d)
    BY <1>1, MultiPartyAssumption DEF IInv, IdsInOrder, MultiPartyAssumption
  <1> HIDE DEF d, x
  <1>6. Cardinality({p}) = 1
    BY FS_Singleton
  <1>7. p # NoOne
    BY RegistryAssumption DEF RegistryAssumption
  <1>8. HoldingOf(mp[d]) = 0 /\ HoldingOf(x) = base /\ Counted(x)
    BY <1>2, <1>4, <1>5, <1>6, <1>7 DEF HoldingOf, Counted, Exists
  <1>9. held' = held - HoldingOf(mp[d]) + HoldingOf(x)
    BY <1>1, <1>2, <1>8, HeldType DEF Pays
  <1> QED
    BY <1>1, <1>2, <1>3, <1>8, <1>9, PaysSupply, BooksStep DEF BooksInv

LEMMA DepositStakeBooks ==
  ASSUME IInv, BooksInv, NEW d \in DisputeIds, NEW p \in Accounts, DepositStake(d, p)
  PROVE  BooksInv'
  <1> DEFINE x == mp[d]
             y == [x EXCEPT !.staked = @ \cup {p}, !.totalStaked = @ + x.baseStake]
  <1>1. Sound(x, consent[d]) /\ x \in MultiPartyDispute /\ Counted(x)
    BY DEF IInv, DisputesSound, Sound, BooksInv
  <1>2. /\ ~x.resolved /\ p \in x.parties /\ p \notin x.staked
        /\ Pays(p, x.baseStake) /\ burned' = burned
        /\ mp' = [mp EXCEPT ![d] = y]
    BY <1>1 DEF DepositStake, IInv, DisputesSound
  <1>3. x.initiator # NoOne
    BY <1>1, <1>2 DEF Sound
  <1>4. x.staked \in SUBSET Accounts /\ x.totalStaked \in Nat /\ x.baseStake \in Nat
    BY <1>1 DEF MultiPartyDispute
  <1>5. y \in MultiPartyDispute
    <2>1. x.staked \cup {p} \in SUBSET Accounts /\ x.totalStaked + x.baseStake \in Nat
      BY <1>4
    <2> QED
      BY <1>1, <2>1, StakedType
  <1>6. /\ y.staked = x.staked \cup {p} /\ y.totalStaked = x.totalStaked + x.baseStake
        /\ y.baseStake = x.baseStake /\ y.initiator = x.initiator /\ y.resolved = x.resolved
    BY <1>1 DEF MultiPartyDispute
  <1> HIDE DEF x, y
  <1>7. Cardinality(y.staked) = Cardinality(x.staked) + 1 /\ Cardinality(x.staked) \in Nat
    BY <1>2, <1>4, <1>6, OneMore
  <1>8. (Cardinality(x.staked) + 1) * x.baseStake
          = Cardinality(x.staked) * x.baseStake + x.baseStake
    BY <1>4, <1>7
  <1>9. Counted(y) /\ HoldingOf(y) = HoldingOf(x) + x.baseStake
    BY <1>1, <1>2, <1>3, <1>6, <1>7, <1>8 DEF Counted, HoldingOf
  <1>10. held' = held - HoldingOf(x) + HoldingOf(y)
    BY <1>1, <1>2, <1>4, <1>9, HeldType, StakedSize DEF Pays
  <1>11. Supply' = Supply /\ wallet' \in [Accounts -> Nat]
    BY <1>2, <1>4, PaysSupply
  <1> QED
    BY <1>2, <1>5, <1>9, <1>10, <1>11, BooksStep DEF BooksInv, x

\* A step that leaves stakes, tokens and outcome of a dispute alone.
LEMMA SameBooks ==
  ASSUME IInv, BooksInv, NEW d \in DisputeIds, NEW x \in MultiPartyDispute,
         mp' = [mp EXCEPT ![d] = x],
         x.initiator = mp[d].initiator, x.resolved = mp[d].resolved, x.staked = mp[d].staked,
         x.baseStake = mp[d].baseStake, x.totalStaked = mp[d].totalStaked,
         UNCHANGED <<wallet, held, burned>>
  PROVE  BooksInv'
  <1>1. HoldingOf(x) = HoldingOf(mp[d]) /\ Counted(x)
    BY DEF HoldingOf, Counted, BooksInv
  <1>2. HoldingOf(x) \in Nat
    BY StakedSize
  <1>3. held' = held - HoldingOf(mp[d]) + HoldingOf(x)
    BY <1>1, <1>2, HeldType
  <1>4. Supply' = Supply /\ wallet' \in [Accounts -> Nat] /\ burned' \in Nat
    BY DEF Supply, BooksInv
  <1> QED
    BY <1>1, <1>3, <1>4, BooksStep

\* A settlement: every staker receives n, m tokens are burnt, and these are what the
\* contract held for the dispute.
LEMMA SettledBooks ==
  ASSUME IInv, BooksInv, NEW d \in DisputeIds, Open(d), NEW x \in MultiPartyDispute,
         mp' = [mp EXCEPT ![d] = x], x.resolved,
         x.initiator = mp[d].initiator, x.staked = mp[d].staked,
         x.baseStake = mp[d].baseStake, x.totalStaked = mp[d].totalStaked,
         NEW n \in Nat, NEW m \in Nat,
         wallet' = Receive(mp[d].staked, n), burned' = burned + m,
         held' = held - (m + Cardinality(mp[d].staked) * n),
         m + Cardinality(mp[d].staked) * n = Cardinality(mp[d].staked) * mp[d].baseStake
  PROVE  BooksInv'
  <1> DEFINE k == Cardinality(mp[d].staked)
  <1>1. mp[d] \in MultiPartyDispute /\ mp[d].staked \in SUBSET Accounts
    BY DEF IInv, DisputesSound, MultiPartyDispute
  <1>2. k \in Nat /\ k * mp[d].baseStake \in Nat
    BY <1>1, StakedSize
  <1>3. HoldingOf(mp[d]) = k * mp[d].baseStake /\ HoldingOf(x) = 0
    BY DEF HoldingOf, Open, Exists
  <1>4. Counted(x)
    BY DEF Counted, BooksInv
  <1>5. SumFunction(wallet') = SumFunction(wallet) + n * k /\ wallet' \in [Accounts -> Nat]
    BY <1>1, ReceiveSum
  <1> HIDE DEF k
  <1>6. held' = held - HoldingOf(mp[d]) + HoldingOf(x)
    BY <1>2, <1>3, HeldType DEF k
  <1>7. n * k = k * n /\ k * n \in Nat
    BY <1>2
  <1>8. burned \in Nat /\ burned' \in Nat
    BY DEF BooksInv
  <1>9. Supply' = Supply
    <2>1. held' = held - (m + k * n)
      BY DEF k
    <2> QED
      BY <1>5, <1>7, <1>8, <2>1, HeldType DEF Supply
  <1> QED
    BY <1>4, <1>5, <1>6, <1>8, <1>9, BooksStep

\* A share for each party never takes more than there is.
LEMMA SharesFit ==
  ASSUME NEW n \in Nat, NEW total \in Nat, n # 0
  PROVE  LET share == (total - (total * BURN_PERCENTAGE) \div 100) \div n
         IN share \in Nat /\ n * share \in Nat /\ n * share <= total
  <1> DEFINE rest  == total - (total * BURN_PERCENTAGE) \div 100
             share == rest \div n
  <1>1. rest \in Nat /\ rest <= total
    BY DEF BURN_PERCENTAGE
  <1> HIDE DEF rest
  <1>2. share \in Nat /\ n * share <= rest
    BY <1>1
  <1>3. n * share \in Nat
    BY <1>2
  <1> QED
    BY <1>1, <1>2, <1>3 DEF rest

LEMMA JoinBooks ==
  ASSUME IInv, BooksInv, NEW d \in DisputeIds, NEW p \in Accounts, JoinDispute(d, p)
  PROVE  BooksInv'
  <1> DEFINE y == [mp[d] EXCEPT !.parties = @ \cup {p}]
  <1>1. mp[d] \in MultiPartyDispute
    BY DEF IInv, DisputesSound
  <1>2. mp' = [mp EXCEPT ![d] = y] /\ UNCHANGED <<wallet, held, burned>>
    BY DEF JoinDispute, fundVars
  <1>3. /\ y \in MultiPartyDispute
        /\ y.initiator = mp[d].initiator /\ y.resolved = mp[d].resolved
        /\ y.staked = mp[d].staked /\ y.baseStake = mp[d].baseStake
        /\ y.totalStaked = mp[d].totalStaked
    BY <1>1 DEF MultiPartyDispute
  <1> HIDE DEF y
  <1> QED
    BY <1>2, <1>3, SameBooks

LEMMA TabledBooks ==
  ASSUME NEW x \in MultiPartyDispute, NEW text \in Proposals \cup {NoProposal}
  PROVE  /\ Tabled(x, text) \in MultiPartyDispute
         /\ Tabled(x, text).initiator = x.initiator /\ Tabled(x, text).resolved = x.resolved
         /\ Tabled(x, text).staked = x.staked /\ Tabled(x, text).baseStake = x.baseStake
         /\ Tabled(x, text).totalStaked = x.totalStaked
         /\ Tabled(x, text).counterCount = x.counterCount
  BY DEF Tabled, MultiPartyDispute

LEMMA SubmitBooks ==
  ASSUME IInv, BooksInv, NEW d \in DisputeIds, NEW text \in Proposals, SubmitLLMProposal(d, text)
  PROVE  BooksInv'
  BY TabledBooks, SameBooks DEF SubmitLLMProposal, fundVars, IInv, DisputesSound

LEMMA CounterProposeBooks ==
  ASSUME IInv, BooksInv, NEW d \in DisputeIds, NEW p \in Accounts, NEW value \in MsgValues,
         CounterPropose(d, p, value)
  PROVE  BooksInv'
  <1> DEFINE x == mp[d]
             z == Tabled(x, NoProposal)
             y == [z EXCEPT !.counterCount = @ + 1, !.startTime = ExtendedStart(x)]
  <1>1. x \in MultiPartyDispute
    BY DEF IInv, DisputesSound
  <1>2. /\ mp' = [mp EXCEPT ![d] = y] /\ UNCHANGED <<wallet, held, burned>>
        /\ x.counterCount < MAX_COUNTERS
    BY DEF CounterPropose, CountersLeft
  <1>3. /\ z \in MultiPartyDispute
        /\ z.initiator = x.initiator /\ z.resolved = x.resolved /\ z.staked = x.staked
        /\ z.baseStake = x.baseStake /\ z.totalStaked = x.totalStaked
        /\ z.counterCount = x.counterCount
    BY <1>1, TabledBooks
  <1>4. x.counterCount + 1 \in 0 .. MAX_COUNTERS /\ ExtendedStart(x) \in Nat
    <2>1. x.counterCount \in 0 .. MAX_COUNTERS /\ x.startTime \in Nat
      BY <1>1 DEF MultiPartyDispute
    <2> QED
      BY <1>2, <2>1, MultiPartyAssumption DEF MultiPartyAssumption, ExtendedStart
  <1> HIDE DEF z
  <1>5. /\ y \in MultiPartyDispute
        /\ y.initiator = z.initiator /\ y.resolved = z.resolved /\ y.staked = z.staked
        /\ y.baseStake = z.baseStake /\ y.totalStaked = z.totalStaked
    BY <1>3, <1>4 DEF MultiPartyDispute
  <1> HIDE DEF y
  <1> QED
    BY <1>2, <1>3, <1>5, SameBooks

SameStakes(x, y) == /\ y.initiator = x.initiator /\ y.resolved = x.resolved
                    /\ y.staked = x.staked /\ y.baseStake = x.baseStake
                    /\ y.totalStaked = x.totalStaked

LEMMA VoteBooks ==
  ASSUME NEW x \in MultiPartyDispute, NEW p \in Accounts
  PROVE  /\ AcceptedBy(x, p) \in MultiPartyDispute
         /\ SameStakes(x, AcceptedBy(x, p))
         /\ [x EXCEPT !.rejected = @ \cup {p}, !.rejectionCount = @ + 1] \in MultiPartyDispute
         /\ SameStakes(x, [x EXCEPT !.rejected = @ \cup {p}, !.rejectionCount = @ + 1])
  <1>1. /\ x.accepted \cup {p} \in SUBSET Accounts /\ x.rejected \cup {p} \in SUBSET Accounts
        /\ x.acceptanceCount + 1 \in Nat /\ x.rejectionCount + 1 \in Nat
    BY DEF MultiPartyDispute
  <1>2. AcceptedBy(x, p) \in MultiPartyDispute
    BY <1>1, AcceptedType DEF AcceptedBy
  <1>3. [x EXCEPT !.rejected = @ \cup {p}, !.rejectionCount = @ + 1] \in MultiPartyDispute
    BY <1>1, RejectedType
  <1>4. SameStakes(x, AcceptedBy(x, p))
    BY DEF AcceptedBy, MultiPartyDispute, SameStakes
  <1>5. SameStakes(x, [x EXCEPT !.rejected = @ \cup {p}, !.rejectionCount = @ + 1])
    BY DEF MultiPartyDispute, SameStakes
  <1> QED
    BY <1>2, <1>3, <1>4, <1>5

LEMMA AcceptBooks ==
  ASSUME IInv, BooksInv, NEW d \in DisputeIds, NEW p \in Accounts, AcceptProposal(d, p)
  PROVE  BooksInv'
  <1> DEFINE x    == mp[d]
             y    == AcceptedBy(x, p)
             done == [y EXCEPT !.resolved = TRUE, !.outcome = "QuorumAccepted"]
  <1>1. Sound(x, consent[d]) /\ x \in MultiPartyDispute
    BY DEF IInv, DisputesSound, Sound
  <1>2. ~x.resolved /\ p \in x.parties /\ burned' = burned
    BY DEF AcceptProposal, MayVote
  <1>3. Open(d)
    BY <1>1, <1>2 DEF Sound, Open, Exists
  <1>4. /\ y \in MultiPartyDispute
        /\ y.initiator = x.initiator /\ y.resolved = x.resolved /\ y.staked = x.staked
        /\ y.baseStake = x.baseStake /\ y.totalStaked = x.totalStaked
    BY <1>1, VoteBooks DEF SameStakes
  <1>5. \/ mp' = [mp EXCEPT ![d] = done] /\ ResolveWithQuorum(d)
        \/ mp' = [mp EXCEPT ![d] = y] /\ UNCHANGED <<wallet, held>>
    BY DEF AcceptProposal
  <1> HIDE DEF y
  <1>6. CASE mp' = [mp EXCEPT ![d] = y] /\ UNCHANGED <<wallet, held>>
    BY <1>2, <1>4, <1>6, SameBooks
  <1>7. CASE mp' = [mp EXCEPT ![d] = done] /\ ResolveWithQuorum(d)
    <2>1. /\ done \in MultiPartyDispute /\ done.resolved
          /\ done.initiator = y.initiator /\ done.staked = y.staked
          /\ done.baseStake = y.baseStake /\ done.totalStaked = y.totalStaked
      BY <1>4 DEF MultiPartyDispute, Outcomes
    <2> HIDE DEF done
    <2>2. Cardinality(x.staked) * x.baseStake \in Nat /\ x.baseStake \in Nat
      BY <1>1, StakedSize
    <2>3. /\ wallet' = Receive(x.staked, x.baseStake) /\ burned' = burned + 0
          /\ held' = held - (0 + Cardinality(x.staked) * x.baseStake)
          /\ 0 + Cardinality(x.staked) * x.baseStake = Cardinality(x.staked) * x.baseStake
      BY <1>2, <1>7, <2>2 DEF ResolveWithQuorum, BooksInv
    <2> QED
      BY <1>3, <1>4, <1>7, <2>1, <2>2, <2>3, SettledBooks
  <1> QED
    BY <1>5, <1>6, <1>7

LEMMA RejectBooks ==
  ASSUME IInv, BooksInv, NEW d \in DisputeIds, NEW p \in Accounts, RejectProposal(d, p)
  PROVE  BooksInv'
  <1> DEFINE x == mp[d]
             y == [x EXCEPT !.rejected = @ \cup {p}, !.rejectionCount = @ + 1]
  <1>1. x \in MultiPartyDispute
    BY DEF IInv, DisputesSound
  <1>2. mp' = [mp EXCEPT ![d] = y] /\ UNCHANGED <<wallet, held, burned>>
    BY <1>1 DEF RejectProposal, fundVars, IInv, DisputesSound
  <1>3. /\ y \in MultiPartyDispute
        /\ y.initiator = x.initiator /\ y.resolved = x.resolved /\ y.staked = x.staked
        /\ y.baseStake = x.baseStake /\ y.totalStaked = x.totalStaked
    BY <1>1, VoteBooks DEF SameStakes
  <1> HIDE DEF y
  <1> QED
    BY <1>2, <1>3, SameBooks

LEMMA EnforceTimeoutBooks ==
  ASSUME IInv, BooksInv, NEW d \in DisputeIds, EnforceTimeout(d)
  PROVE  BooksInv'
  <1> DEFINE x     == mp[d]
             k     == Cardinality(x.staked)
             share == ShareOf(x)
  <1>1. Sound(x, consent[d]) /\ x \in MultiPartyDispute /\ Counted(x) /\ Open(d)
    BY DEF IInv, DisputesSound, Sound, BooksInv, EnforceTimeout
  <1>2. k \in Nat /\ k * x.baseStake \in Nat /\ x.baseStake \in Nat
    BY <1>1, StakedSize
  <1>3. ASSUME NEW outcome \in {"PartialResolution", "TimeoutWithBurn"}
        PROVE  /\ Settled(x, outcome) \in MultiPartyDispute /\ Settled(x, outcome).resolved
               /\ Settled(x, outcome).initiator = x.initiator
               /\ Settled(x, outcome).staked = x.staked
               /\ Settled(x, outcome).baseStake = x.baseStake
               /\ Settled(x, outcome).totalStaked = x.totalStaked
    <2>1. outcome \in Outcomes
      BY DEF Outcomes
    <2> QED
      BY <1>1, <2>1 DEF Settled, MultiPartyDispute
  <1>4. CASE ResolveNonParticipation(d)
    <2> DEFINE y == Settled(x, "PartialResolution")
    <2>1. mp' = [mp EXCEPT ![d] = y]
      BY <1>4 DEF ResolveNonParticipation
    <2>2. /\ y \in MultiPartyDispute /\ y.resolved
          /\ y.initiator = x.initiator /\ y.staked = x.staked
          /\ y.baseStake = x.baseStake /\ y.totalStaked = x.totalStaked
      BY <1>3
    <2> HIDE DEF y
    <2>3. /\ wallet' = Receive(x.staked, x.baseStake) /\ burned' = burned + 0
          /\ held' = held - (0 + k * x.baseStake)
          /\ 0 + k * x.baseStake = k * x.baseStake
      BY <1>2, <1>4 DEF ResolveNonParticipation, BooksInv
    <2> QED
      BY <1>1, <1>2, <2>1, <2>2, <2>3, SettledBooks
  <1>5. CASE AllPartiesStaked(x) /\ ResolveTimeout(d)
    <2> DEFINE y == Settled(x, "TimeoutWithBurn")
    <2>1. mp' = [mp EXCEPT ![d] = y]
      BY <1>5 DEF ResolveTimeout
    <2>2. /\ y \in MultiPartyDispute /\ y.resolved
          /\ y.initiator = x.initiator /\ y.staked = x.staked
          /\ y.baseStake = x.baseStake /\ y.totalStaked = x.totalStaked
      BY <1>3
    <2> HIDE DEF y
    <2>3. x.parties = x.staked /\ x.staked # {}
      BY <1>1, <1>5 DEF AllPartiesStaked, Sound, Agree, Counted, Open, Exists
    <2>4. k # 0
      <3>1. IsFiniteSet(x.staked)
        BY <1>1, RegistryAssumption, FS_Subset DEF RegistryAssumption, MultiPartyDispute
      <3> QED
        BY <2>3, <3>1, FS_EmptySet
    <2>5. x.totalStaked \in Nat /\ x.totalStaked = k * x.baseStake
      BY <1>1, <1>2 DEF Counted
    <2>6. share \in Nat /\ k * share \in Nat /\ k * share <= x.totalStaked
      BY <1>2, <2>3, <2>4, <2>5, SharesFit DEF ShareOf
    <2>7. Burnt(x) = x.totalStaked - k * share
      BY <2>3 DEF Burnt
    <2>8. Burnt(x) \in Nat /\ Burnt(x) + k * share = k * x.baseStake
      BY <2>5, <2>6, <2>7
    <2>9. /\ wallet' = Receive(x.staked, share) /\ burned' = burned + Burnt(x)
          /\ held' = held - (Burnt(x) + k * share)
      BY <1>5 DEF ResolveTimeout
    <2> QED
      BY <1>1, <2>1, <2>2, <2>6, <2>8, <2>9, SettledBooks
  <1> QED
    BY <1>4, <1>5 DEF EnforceTimeout

LEMMA BooksIdle ==
  ASSUME BooksInv, UNCHANGED <<mp, wallet, held, burned>>
  PROVE  BooksInv'
  BY DEF BooksInv, Supply, Holdings, HoldingOf, Counted

LEMMA BooksNext == IInv /\ BooksInv /\ [Next]_vars => BooksInv'
  <1> SUFFICES ASSUME IInv, BooksInv, [Next]_vars PROVE BooksInv'
    OBVIOUS
  <1>1. CASE \E p \in Accounts, parties \in SUBSET Accounts, base \in BaseStakes,
                t \in FallbackTerms, cf \in Configs :
                CreateMultiPartyDispute(p, parties, base, t, cf)
    BY <1>1, CreateBooks
  <1>2. ASSUME NEW d \in DisputeIds, NEW p \in Accounts, PartyNext(d, p) PROVE BooksInv'
    BY <1>2, JoinBooks, DepositStakeBooks, AcceptBooks, RejectBooks, CounterProposeBooks
       DEF PartyNext
  <1>3. ASSUME NEW d \in DisputeIds,
               (\E text \in Proposals : SubmitLLMProposal(d, text)) \/ EnforceTimeout(d)
        PROVE  BooksInv'
    BY <1>3, SubmitBooks, EnforceTimeoutBooks
  <1>4. CASE AdminNext
    BY <1>4, BooksIdle DEF AdminNext, ReceiveEther, WithdrawTreasury, SetPaused
  <1>5. CASE UNCHANGED mpVars
    BY <1>5, BooksIdle DEF mpVars, fundVars
  <1> QED
    BY <1>1, <1>2, <1>3, <1>4, <1>5 DEF Next, vars

\* Fees, gifts and withdrawals of ETH; the pause.
LEMMA EtherNext == IInv /\ EtherInv /\ [Next]_vars => EtherInv'
  <1> SUFFICES ASSUME IInv, EtherInv, [Next]_vars PROVE EtherInv'
    OBVIOUS
  <1>1. CASE UNCHANGED <<treasury, ethBalance, paused>>
    BY <1>1 DEF EtherInv
  <1>2. ASSUME NEW d \in DisputeIds, NEW p \in Accounts, NEW value \in MsgValues,
               CounterPropose(d, p, value)
        PROVE  EtherInv'
    <2> DEFINE excess == value - CounterFee(mp[d].counterCount)
    <2>1. /\ treasury' = treasury + excess /\ ethBalance' = ethBalance + excess
          /\ value >= CounterFee(mp[d].counterCount) /\ paused' = paused
      BY <1>2 DEF CounterPropose
    <2>2. CounterFee(mp[d].counterCount) \in Nat /\ value \in Nat
      <3>1. mp[d].counterCount \in Nat
        BY MultiPartyAssumption DEF IInv, DisputesSound, MultiPartyDispute, MultiPartyAssumption
      <3> QED
        BY <3>1, PowersOfTwo, MultiPartyAssumption DEF CounterFee, MultiPartyAssumption
    <2> QED
      BY <2>1, <2>2 DEF EtherInv
  <1>3. ASSUME NEW value \in MsgValues, ReceiveEther(value) \/ WithdrawTreasury(value)
        PROVE  EtherInv'
    <2>1. value \in Nat
      BY MultiPartyAssumption DEF MultiPartyAssumption
    <2>2. CASE ReceiveEther(value)
      BY <2>1, <2>2 DEF EtherInv, ReceiveEther
    <2>3. CASE WithdrawTreasury(value)
      BY <2>1, <2>3 DEF EtherInv, WithdrawTreasury
    <2> QED
      BY <1>3, <2>2, <2>3
  <1>4. ASSUME NEW flag \in BOOLEAN, SetPaused(flag) PROVE EtherInv'
    BY <1>4 DEF EtherInv, SetPaused
  <1>5. ASSUME NEW p \in Accounts, NEW parties \in SUBSET Accounts, NEW base \in BaseStakes,
               NEW t \in FallbackTerms, NEW cf \in Configs,
               CreateMultiPartyDispute(p, parties, base, t, cf)
        PROVE  EtherInv'
    BY <1>1, <1>5 DEF CreateMultiPartyDispute
  <1>6. ASSUME NEW d \in DisputeIds, NEW p \in Accounts, PartyNext(d, p) PROVE EtherInv'
    BY <1>1, <1>2, <1>6 DEF PartyNext, JoinDispute, DepositStake, AcceptProposal, RejectProposal,
                            fundVars
  <1>7. ASSUME NEW d \in DisputeIds,
               (\E text \in Proposals : SubmitLLMProposal(d, text)) \/ EnforceTimeout(d)
        PROVE  EtherInv'
    BY <1>1, <1>7 DEF SubmitLLMProposal, EnforceTimeout, fundVars
  <1>8. CASE AdminNext
    BY <1>3, <1>4, <1>8 DEF AdminNext
  <1>9. CASE UNCHANGED mpVars
    BY <1>1, <1>9 DEF mpVars, fundVars
  <1> QED
    BY <1>5, <1>6, <1>7, <1>8, <1>9 DEF Next, vars

LEMMA BooksInit == Init => BooksInv /\ EtherInv
  <1> SUFFICES ASSUME Init PROVE BooksInv /\ EtherInv
    OBVIOUS
  <1>1. EtherInv
    <2>1. treasury = 0 /\ ethBalance = 0 /\ paused = FALSE
      BY DEF Init
    <2>2. treasury \in Nat /\ ethBalance \in Nat /\ treasury <= ethBalance
      BY <2>1
    <2>3. paused \in BOOLEAN
      BY <2>1
    <2> QED
      BY <2>2, <2>3 DEF EtherInv
  <1>2. IsFiniteSet(DisputeIds) /\ IsFiniteSet(Accounts) /\ InitialTokens \in Nat
    BY RegistryAssumption, MultiPartyAssumption DEF RegistryAssumption, MultiPartyAssumption
  <1>3. Holdings \in [DisputeIds -> Int] /\ \A d \in DisputeIds : Holdings[d] = 0
    BY DEF Init, Holdings, HoldingOf, NoDispute
  <1>4. SumFunction(Holdings) = 0 * Cardinality(DisputeIds)
    BY <1>2, <1>3, SumConstant
  <1>5. held = SumFunction(Holdings)
    BY <1>2, <1>4, FS_CardinalityType DEF Init
  <1>6. /\ wallet \in [Accounts -> Nat] /\ wallet \in [Accounts -> Int]
        /\ \A p \in Accounts : wallet[p] = InitialTokens
    BY <1>2 DEF Init
  <1>7. SumFunction(wallet) = InitialTokens * Cardinality(Accounts)
    BY <1>2, <1>6, SumConstant
  <1>8. InitialTokens * Cardinality(Accounts) \in Int
    BY <1>2, FS_CardinalityType
  <1>9. Supply = InitialTokens * Cardinality(Accounts)
    BY <1>7, <1>8 DEF Supply, Init
  <1>10. \A d \in DisputeIds : Counted(mp[d])
    <2>1. /\ NoDispute.totalStaked = 0 /\ NoDispute.staked = {} /\ NoDispute.baseStake = 0
          /\ NoDispute.initiator = NoOne
      BY DEF NoDispute
    <2>2. Cardinality({}) = 0
      BY FS_EmptySet
    <2>3. Counted(NoDispute)
      BY <2>1, <2>2 DEF Counted
    <2> QED
      BY <2>3 DEF Init
  <1> QED
    BY <1>1, <1>5, <1>6, <1>9, <1>10 DEF BooksInv, Init

\* Whatever joins, stakes, shares and exits happen, the contract holds one base stake for
\* each staker of an open dispute, no token is created or lost, and no value leaves its type.
THEOREM StakesAccountedHolds == Spec => []StakesAccounted
  <1>1. Init => IInv /\ BooksInv /\ EtherInv
    BY InitInv, BooksInit
  <1>2. IInv /\ BooksInv /\ EtherInv /\ [Next]_vars => IInv' /\ BooksInv' /\ EtherInv'
    BY NextInv, BooksNext, EtherNext
  <1>3. IInv /\ BooksInv /\ EtherInv => StakesAccounted
    <2> SUFFICES ASSUME IInv, BooksInv, EtherInv PROVE StakesAccounted
      OBVIOUS
    <2>1. MPTypeOK
      BY HeldType DEF MPTypeOK, IInv, RegInv, DisputesSound, IdsInOrder, BooksInv, EtherInv
    <2>2. Holdings = [d \in DisputeIds |-> Holding(d)]
      BY DEF Holdings, HoldingOf, Holding, Open, Exists
    <2>3. held = SumFunction([d \in DisputeIds |-> Holding(d)])
      BY <2>2 DEF BooksInv
    <2> QED
      BY <2>1, <2>3 DEF StakesAccounted, BooksInv, EtherInv, Supply, Counted
  <1> QED
    BY <1>1, <1>2, <1>3, PTL DEF Spec
=============================================================================

--------------------------- MODULE Treasury_proofs ---------------------------
(***************************************************************************)
(* Proofs about the treasury, for every number of disputes and accounts    *)
(* and whatever caps the owner sets: its counters and balance stay in      *)
(* range and add up, no dispute is subsidised twice or for anyone but its  *)
(* counterparty, and the caps per window bound what anyone is granted.     *)
(***************************************************************************)
EXTENDS TreasuryProps, ILRM_proofs

TInv == IInv /\ TreasuryTypeOK /\ SubsidizedOnce

\* Who disputes with whom never changes once a dispute exists.
PartiesKept == \A d \in DisputeIds : Exists(d) =>
                 /\ disputes'[d].initiator = disputes[d].initiator
                 /\ disputes'[d].counterparty = disputes[d].counterparty

LEMMA TreasuryConstants == TreasuryAssumption /\ ILRMAssumption /\ RegistryAssumption
  BY TreasuryAssumption, ILRMAssumption, RegistryAssumption

LEMMA TreasuryInitInv == Init /\ TreasuryInit => TInv
  <1> SUFFICES ASSUME Init, TreasuryInit PROVE TreasuryTypeOK /\ SubsidizedOnce
    BY InitInv DEF TInv
  <1> DEFINE zero == [p \in Accounts |-> 0]
  <1>1. TreasuryTypeOK
    <2>1. zero \in [Accounts -> Nat] /\ zero \in [Accounts -> 0 .. 100]
      OBVIOUS
    <2>2. /\ participantSubsidyUsed = zero
          /\ participantWindowStart = zero
          /\ harassmentScore = zero
      BY DEF TreasuryInit
    <2> HIDE DEF zero
    <2> QED
      BY <2>1, <2>2 DEF TreasuryInit, TreasuryTypeOK
  <1>2. SubsidizedOnce
    BY DEF TreasuryInit, SubsidizedOnce
  <1> QED
    BY <1>1, <1>2

----------------------------------------------------------------------------
(* Steps of the ILRM contract.                                             *)

LEMMA PartiesStay ==
  ASSUME IInv, [Next]_vars
  PROVE  PartiesKept
  <1>0. disputes \in [DisputeIds -> Dispute]
    BY DEF IInv, ILRMTypeOK
  <1>1. ASSUME NEW p \in Accounts, NEW c \in Accounts, NEW base \in Stakes,
               NEW t \in FallbackTerms, InitiateBreachDispute(p, c, base, t)
        PROVE  PartiesKept
    <2>1. /\ ~Exists(disputeCounter)
          /\ \A d \in DisputeIds \ {disputeCounter} : disputes'[d] = disputes[d]
      BY <1>0, <1>1, RegistryAssumption
         DEF InitiateBreachDispute, IInv, ILRMTypeOK, DisputesWellFormed, RegistryAssumption
    <2> QED
      BY <2>1 DEF PartiesKept
  <1>2. ASSUME NEW e \in DisputeIds, DepositStake(e) PROVE PartiesKept
    BY <1>0, <1>2 DEF DepositStake, PartiesKept, Dispute
  <1>3. ASSUME NEW e \in DisputeIds, NEW r \in Roles, AcceptProposal(e, r) PROVE PartiesKept
    <2>1. \/ disputes' = [disputes EXCEPT ![e] =
                [disputes[e] EXCEPT !.accepted = Roles, !.resolved = TRUE,
                                    !.outcome = "AcceptedProposal"]]
          \/ disputes' = [disputes EXCEPT ![e].accepted = @ \cup {r}]
      BY <1>3 DEF AcceptProposal
    <2>2. CASE disputes' = [disputes EXCEPT ![e] =
                [disputes[e] EXCEPT !.accepted = Roles, !.resolved = TRUE,
                                    !.outcome = "AcceptedProposal"]]
      BY <1>0, <2>2 DEF PartiesKept, Dispute
    <2>3. CASE disputes' = [disputes EXCEPT ![e].accepted = @ \cup {r}]
      BY <1>0, <2>3 DEF PartiesKept, Dispute
    <2> QED
      BY <2>1, <2>2, <2>3
  <1>4. ASSUME NEW e \in DisputeIds, NEW value \in MsgValues, CounterPropose(e, value)
        PROVE  PartiesKept
    BY <1>0, <1>4 DEF CounterPropose, Renegotiated, PartiesKept, Dispute
  <1>5. ASSUME NEW e \in DisputeIds, EnforceTimeout(e) PROVE PartiesKept
    BY <1>0, <1>5
       DEF EnforceTimeout, Exit, ResolveNonParticipation, ResolveTimeout, PartiesKept, Dispute
  <1>6. ASSUME NEW e \in DisputeIds, NEW text \in Proposals, SubmitLLMProposal(e, text)
        PROVE  PartiesKept
    BY <1>0, <1>6 DEF SubmitLLMProposal, PartiesKept, Dispute
  <1>7. CASE UNCHANGED disputes
    BY <1>7 DEF PartiesKept
  <1>8. FundsNext => UNCHANGED disputes
    BY DEF FundsNext, DepositTokenReserves, ReceiveEther, WithdrawTreasury, Pause, Unpause, SetPaused
  <1> QED
    BY <1>1, <1>2, <1>3, <1>4, <1>5, <1>6, <1>7, <1>8
       DEF Next, UsersNext, PartyNext, vars, ilrmVars

LEMMA ContractStepInv ==
  ASSUME TInv, [Next]_vars, UNCHANGED treasuryVars
  PROVE  TInv'
  <1>1. IInv' /\ PartiesKept
    BY NextInv, PartiesStay DEF TInv
  <1>2. TreasuryTypeOK'
    BY DEF TInv, TreasuryTypeOK, treasuryVars, adminVars, subsidyVars
  <1>3. SubsidizedOnce'
    BY <1>1 DEF TInv, SubsidizedOnce, PartiesKept, Exists, TreasuryTypeOK, Grant,
                treasuryVars, adminVars, subsidyVars
  <1> QED
    BY <1>1, <1>2, <1>3 DEF TInv

----------------------------------------------------------------------------
(* Steps of the treasury.                                                  *)

\* A change of balances alone disturbs nothing the contract relies on.
LEMMA WalletsMove ==
  ASSUME IInv, wallet' \in [TokenHolders -> Nat],
         UNCHANGED <<now, registryVars, disputes, disputeCounter, lastDisputeTime, tokenReserves,
                     paused, held, burned, ethVars, historyVars>>
  PROVE  IInv'
  <1>1. RegInv'
    BY DEF IInv, RegInv, RegistryTypeOK, OwnershipIndexed, FrozenOnOneList, UnownedActive,
           registryVars, assetVars
  <1>2. ILRMTypeOK' /\ DisputesWellFormed' /\ EtherBacked'
    BY DEF IInv, ILRMTypeOK, DisputesWellFormed, EtherBacked, Exists, ethVars, historyVars
  <1>3. HeldByInitiator' /\ now' \in Nat \ {0}
    BY DEF IInv, HeldByInitiator, Open, Exists, registryVars, assetVars
  <1> QED
    BY <1>1, <1>2, <1>3 DEF IInv

\* The caps never make an amount negative, nor larger than the balance.
LEMMA CappedBounds ==
  ASSUME TreasuryTypeOK, NEW request \in Nat, NEW used \in Nat
  PROVE  /\ Capped(request, used) \in Nat
         /\ Capped(request, used) <= fund
  <1>1. /\ caps.perDispute \in Nat
        /\ caps.perParticipant \in Nat
        /\ fund \in Nat
        /\ minReserve \in Nat
    BY TreasuryAssumption DEF TreasuryTypeOK, TreasuryAssumption
  <1> QED
    BY <1>1 DEF Capped, Smaller, AtLeastZero

LEMMA RequestSubsidyInv ==
  ASSUME TInv, NEW d \in DisputeIds, NEW request \in Requests, RequestSubsidy(d, request)
  PROVE  TInv'
  <1> DEFINE p == disputes[d].counterparty
             used == IF WindowOver(p) THEN 0 ELSE participantSubsidyUsed[p]
             amount == Capped(request, used)
             grant == [participant |-> p, disputeId |-> d, day |-> now, amount |-> amount]
  <1>1. /\ p \in Accounts /\ Exists(d) /\ d \notin disputeSubsidized
        /\ request \in Nat /\ now \in Nat
    BY TreasuryAssumption
       DEF RequestSubsidy, Eligible, Open, TInv, IInv, DisputesWellFormed, TreasuryAssumption
  <1>2. used \in Nat
    BY <1>1 DEF TInv, TreasuryTypeOK
  <1>3. amount \in Nat /\ amount <= fund
    BY <1>1, <1>2, CappedBounds DEF TInv
  <1>4. /\ participantWindowStart' = [participantWindowStart EXCEPT ![p] = StartOfWindow(p)]
        /\ participantSubsidyUsed' = [participantSubsidyUsed EXCEPT ![p] = used + amount]
        /\ disputeSubsidized' = disputeSubsidized \cup {d}
        /\ totalSubsidiesDistributed' = totalSubsidiesDistributed + amount
        /\ fund' = fund - amount
        /\ wallet' = Credit(wallet, p, amount)
        /\ grants' = grants \cup {grant}
        /\ UNCHANGED <<now, registryVars, disputes, disputeCounter, lastDisputeTime,
                       tokenReserves, paused, held, burned, ethVars, historyVars>>
        /\ UNCHANGED <<ilrm, caps, minReserve, harassmentScore, treasuryPaused, changes,
                       totalInflows, withdrawn>>
    BY DEF RequestSubsidy, Paid, adminVars
  <1> HIDE DEF p, used, amount
  <1>5. IInv'
    <2>1. wallet' \in [TokenHolders -> Nat]
      BY <1>1, <1>3, <1>4, CreditType DEF TInv, IInv, ILRMTypeOK, TokenHolders
    <2> QED
      BY <1>4, <2>1, WalletsMove DEF TInv
  <1>6. TreasuryTypeOK'
    <2>1. StartOfWindow(p) \in Nat
      BY <1>1 DEF StartOfWindow, TInv, TreasuryTypeOK
    <2>2. grant \in Grant
      BY <1>1, <1>3 DEF Grant
    <2> QED
      BY <1>1, <1>2, <1>3, <1>4, <2>1, <2>2 DEF TInv, TreasuryTypeOK
  <1>7. SubsidizedOnce'
    <2>1. \A g \in grants : /\ g.disputeId # d
                            /\ g.disputeId \in DisputeIds
      BY <1>1 DEF TInv, SubsidizedOnce, TreasuryTypeOK, Grant
    <2>2. grant.disputeId = d /\ grant.participant = p
      OBVIOUS
    <2> QED
      BY <1>1, <1>4, <2>1, <2>2 DEF TInv, SubsidizedOnce, Exists, p
  <1> QED
    BY <1>5, <1>6, <1>7 DEF TInv

\* Deposits and withdrawals.
LEMMA TreasuryFundsInv ==
  ASSUME TInv, NEW p \in Sponsors, NEW amount \in Deposits,
         DepositToTreasury(p, amount) \/ EmergencyWithdraw(p, amount)
  PROVE  TInv'
  <1>1. p \in TokenHolders /\ amount \in Nat /\ wallet \in [TokenHolders -> Nat]
    BY ILRMAssumption DEF TokenHolders, ILRMAssumption, TInv, IInv, ILRMTypeOK
  <1>2. wallet' \in [TokenHolders -> Nat]
    <2>1. CASE DepositToTreasury(p, amount)
      <3>1. wallet[p] >= amount /\ wallet' = [wallet EXCEPT ![p] = @ - amount]
        BY <2>1 DEF DepositToTreasury
      <3> QED
        BY <1>1, <3>1
    <2>2. CASE EmergencyWithdraw(p, amount)
      <3>1. wallet' = Credit(wallet, p, amount)
        BY <2>2 DEF EmergencyWithdraw
      <3> QED
        BY <1>1, <3>1, CreditType
    <2> QED
      BY <2>1, <2>2
  <1>3. IInv'
    BY <1>2, WalletsMove DEF TInv, DepositToTreasury, EmergencyWithdraw
  <1>4. TreasuryTypeOK'
    BY <1>1 DEF TInv, TreasuryTypeOK, DepositToTreasury, EmergencyWithdraw, adminVars, subsidyVars
  <1>5. SubsidizedOnce'
    BY DEF TInv, SubsidizedOnce, Exists, DepositToTreasury, EmergencyWithdraw, subsidyVars
  <1> QED
    BY <1>3, <1>4, <1>5 DEF TInv

LEMMA TreasuryOwnerInv ==
  ASSUME TInv, TreasuryOwnerNext, changes' = changes + 1,
         UNCHANGED <<vars, subsidyVars, totalInflows, fund, withdrawn>>
  PROVE  TInv'
  <1>1. IInv'
    BY NextInv DEF TInv
  <1>2. \A score \in Nat : ScoreOf(score) \in 0 .. 100
    BY DEF ScoreOf, Smaller
  <1>3. TreasuryTypeOK'
    <2>1. UNCHANGED <<disputeSubsidized, participantSubsidyUsed, participantWindowStart,
                      totalSubsidiesDistributed, totalInflows, fund, withdrawn, grants>>
      BY DEF subsidyVars
    <2>2. ASSUME NEW p \in Accounts, NEW score \in Scores, SetHarassmentScore(p, score)
          PROVE  TreasuryTypeOK'
      <3>1. ScoreOf(score) \in 0 .. 100
        BY <1>2, TreasuryAssumption DEF TreasuryAssumption
      <3> QED
        BY <2>1, <2>2, <3>1 DEF SetHarassmentScore, TInv, TreasuryTypeOK
    <2>3. CASE SetTreasuryILRM \/ \E c \in CapChoices : UpdateCaps(c)
      BY <2>1, <2>3 DEF SetTreasuryILRM, UpdateCaps, TInv, TreasuryTypeOK
    <2>4. CASE \/ \E n \in Reserves : SetMinReserve(n)
               \/ PauseTreasury(TRUE)
               \/ PauseTreasury(FALSE)
      BY <2>1, <2>4 DEF SetMinReserve, PauseTreasury, TInv, TreasuryTypeOK
    <2> QED
      BY <2>2, <2>3, <2>4 DEF TreasuryOwnerNext
  <1>4. SubsidizedOnce'
    BY DEF TInv, SubsidizedOnce, Exists, subsidyVars, vars, ilrmVars
  <1> QED
    BY <1>1, <1>3, <1>4 DEF TInv

LEMMA TreasuryStep == TInv /\ [TreasuryNext]_allVars => TInv'
  <1> SUFFICES ASSUME TInv, [TreasuryNext]_allVars PROVE TInv'
    OBVIOUS
  <1>1. CASE (Next /\ UNCHANGED treasuryVars) \/ UNCHANGED allVars
    BY <1>1, ContractStepInv DEF allVars
  <1>2. CASE TreasuryFundsNext
    BY <1>2, RequestSubsidyInv, TreasuryFundsInv DEF TreasuryFundsNext
  <1>3. CASE /\ TreasuryOwnerNext
             /\ changes' = changes + 1
             /\ UNCHANGED <<vars, subsidyVars, totalInflows, fund, withdrawn>>
    BY <1>3, TreasuryOwnerInv
  <1> QED
    BY <1>1, <1>2, <1>3 DEF TreasuryNext

THEOREM TreasuryInvariance == TreasurySpec => []TInv
  BY TreasuryInitInv, TreasuryStep, PTL DEF TreasurySpec

----------------------------------------------------------------------------
(* What follows.                                                           *)

\* However caps, reserve and requests meet, the balance and the counters of the
\* treasury never go below zero and scores stay within 0 .. 100.
THEOREM TreasuryTypeCorrect == TreasurySpec => []TreasuryTypeOK
  <1>1. TInv => TreasuryTypeOK
    BY DEF TInv
  <1> QED
    BY <1>1, TreasuryInvariance, PTL

\* A dispute is subsidised at most once, and only its own counterparty is, whatever
\* happens to the dispute and to the treasury's settings in between.
THEOREM SubsidizedOnceHolds == TreasurySpec => []SubsidizedOnce
  <1>1. TInv => SubsidizedOnce
    BY DEF TInv
  <1> QED
    BY <1>1, TreasuryInvariance, PTL

----------------------------------------------------------------------------
(* Totals of grants.                                                       *)

LEMMA AmountType == \A g \in Grant : AmountOf[g] = g.amount /\ g.amount \in Nat
  BY DEF AmountOf, Grant

LEMMA TotalType ==
  ASSUME NEW T \in SUBSET Grant, IsFiniteSet(T)
  PROVE  /\ Total(T) \in Nat
         /\ \A U \in SUBSET T : Total(U) \in Nat /\ Total(U) <= Total(T)
  <1>1. \A g \in T : AmountOf[g] \in Nat
    BY AmountType
  <1>2. Total(T) \in Nat
    BY <1>1, SumNat DEF Total
  <1>3. ASSUME NEW U \in SUBSET T PROVE Total(U) \in Nat /\ Total(U) <= Total(T)
    <2>1. IsFiniteSet(U) /\ \A g \in U : AmountOf[g] \in Nat
      BY <1>1, FS_Subset
    <2>2. SumFunctionOnSet(AmountOf, U) \in Nat
      BY <2>1, SumNat
    <2>3. SumFunctionOnSet(AmountOf, U) <= SumFunctionOnSet(AmountOf, T)
      BY <1>1, SumSubset
    <2> QED
      BY <2>2, <2>3 DEF Total
  <1> QED
    BY <1>2, <1>3

LEMMA TotalEmpty == Total({}) = 0
  BY SumEmpty DEF Total

\* One more grant.
LEMMA TotalAdds ==
  ASSUME NEW T \in SUBSET Grant, IsFiniteSet(T), NEW g \in Grant, g \notin T
  PROVE  /\ IsFiniteSet(T \cup {g})
         /\ Total(T \cup {g}) = Total(T) + g.amount
  <1>1. IsFiniteSet(T \cup {g}) /\ T \cup {g} \in SUBSET Grant
    BY FS_AddElement
  <1>2. IsIntOn(AmountOf, T \cup {g})
    BY <1>1, AmountType DEF IsIntOn
  <1>3. SumFunctionOnSet(AmountOf, T \cup {g})
          = AmountOf[g] + SumFunctionOnSet(AmountOf, (T \cup {g}) \ {g})
    BY <1>1, <1>2, SumRemove
  <1>4. (T \cup {g}) \ {g} = T
    OBVIOUS
  <1>5. Total(T) \in Nat /\ g.amount \in Nat /\ AmountOf[g] = g.amount
    BY TotalType, AmountType
  <1>6. SumFunctionOnSet(AmountOf, T \cup {g}) = g.amount + SumFunctionOnSet(AmountOf, T)
    BY <1>3, <1>4, <1>5
  <1> QED
    BY <1>1, <1>5, <1>6 DEF Total

----------------------------------------------------------------------------
(* The books of the treasury.                                              *)

FiniteGrants == IsFiniteSet(grants)
GrantsBooked == totalSubsidiesDistributed = Total(grants)
InflowsBooked == totalInflows = fund + totalSubsidiesDistributed + withdrawn
AllTokens == Supply + fund
AllTokensKept == AllTokens = InitialTokens * Cardinality(TokenHolders)

TreasuryBooks == FiniteGrants /\ GrantsBooked /\ InflowsBooked /\ AllTokensKept

LEMMA TreasuryBooksInit == Init /\ TreasuryInit => TreasuryBooks
  <1> SUFFICES ASSUME Init, TreasuryInit PROVE TreasuryBooks
    OBVIOUS
  <1>1. SupplyConstant /\ IInv
    BY BooksInit, InitInv DEF BooksInv
  <1>2. Supply \in Int
    BY <1>1, WalletType DEF Supply
  <1>3. FiniteGrants /\ GrantsBooked
    BY FS_EmptySet, TotalEmpty DEF TreasuryInit, FiniteGrants, GrantsBooked
  <1> QED
    BY <1>1, <1>2, <1>3 DEF TreasuryInit, TreasuryBooks, InflowsBooked, AllTokensKept, AllTokens,
                            SupplyConstant

\* What a request that is granted does: p gets amount, recorded as a new grant.
LEMMA RequestGrants ==
  ASSUME TInv, NEW d \in DisputeIds, NEW request \in Requests, RequestSubsidy(d, request)
  PROVE  \E p \in Accounts, used \in Nat, amount \in Nat, g \in Grant :
              /\ g.participant = p /\ g.day = now /\ g.amount = amount
              /\ used = IF WindowOver(p) THEN 0 ELSE participantSubsidyUsed[p]
              /\ amount <= AtLeastZero(caps.perParticipant - used)
              /\ amount <= fund
              /\ participantWindowStart' = [participantWindowStart EXCEPT ![p] = StartOfWindow(p)]
              /\ participantSubsidyUsed' = [participantSubsidyUsed EXCEPT ![p] = used + amount]
              /\ totalSubsidiesDistributed' = totalSubsidiesDistributed + amount
              /\ fund' = fund - amount
              /\ wallet' = Credit(wallet, p, amount)
              /\ grants' = grants \cup {g}
              /\ g \notin grants
              /\ UNCHANGED <<now, held, burned, caps, totalInflows, withdrawn>>
  <1> DEFINE p == disputes[d].counterparty
             used == IF WindowOver(p) THEN 0 ELSE participantSubsidyUsed[p]
             amount == Capped(request, used)
             g == [participant |-> p, disputeId |-> d, day |-> now, amount |-> amount]
  <1>1. /\ p \in Accounts /\ d \notin disputeSubsidized
        /\ request \in Nat /\ now \in Nat
    BY TreasuryAssumption
       DEF RequestSubsidy, Eligible, Open, TInv, IInv, DisputesWellFormed, TreasuryAssumption
  <1>2. used \in Nat
    BY <1>1 DEF TInv, TreasuryTypeOK
  <1>3. amount \in Nat /\ amount <= fund
    BY <1>1, <1>2, CappedBounds DEF TInv
  <1>4. amount <= AtLeastZero(caps.perParticipant - used)
    <2>1. /\ caps.perDispute \in Nat
          /\ caps.perParticipant \in Nat
          /\ fund \in Nat
          /\ minReserve \in Nat
      BY TreasuryAssumption DEF TInv, TreasuryTypeOK, TreasuryAssumption
    <2> HIDE DEF used
    <2> QED
      BY <1>1, <1>2, <2>1 DEF Capped, Smaller, AtLeastZero
  <1>5. g \in Grant
    BY <1>1, <1>3 DEF Grant
  <1>6. g \notin grants
    <2>1. g.disputeId = d
      OBVIOUS
    <2> QED
      BY <1>1, <2>1 DEF TInv, SubsidizedOnce
  <1>7. /\ participantWindowStart' = [participantWindowStart EXCEPT ![p] = StartOfWindow(p)]
        /\ participantSubsidyUsed' = [participantSubsidyUsed EXCEPT ![p] = used + amount]
        /\ totalSubsidiesDistributed' = totalSubsidiesDistributed + amount
        /\ fund' = fund - amount
        /\ wallet' = Credit(wallet, p, amount)
        /\ grants' = grants \cup {g}
        /\ UNCHANGED <<now, held, burned, caps, totalInflows, withdrawn>>
    BY DEF RequestSubsidy, Paid, adminVars
  <1> HIDE DEF p, used, amount, g
  <1>8. used = IF WindowOver(p) THEN 0 ELSE participantSubsidyUsed[p]
    BY DEF used
  <1>9. g.participant = p /\ g.day = now /\ g.amount = amount
    BY DEF g
  <1> QED
    BY <1>1, <1>2, <1>3, <1>4, <1>5, <1>6, <1>7, <1>8, <1>9

\* Wallets give to the treasury, or the treasury to wallets.
LEMMA TokensMove ==
  ASSUME TInv, NEW p \in TokenHolders, NEW n \in Nat,
         \/ wallet' = Credit(wallet, p, n) /\ fund' = fund - n
         \/ wallet' = [wallet EXCEPT ![p] = @ - n] /\ fund' = fund + n,
         UNCHANGED <<held, burned>>
  PROVE  AllTokens' = AllTokens
  <1>1. /\ wallet \in [TokenHolders -> Nat] /\ wallet \in [TokenHolders -> Int]
        /\ SumFunction(wallet) \in Int /\ held \in Int /\ burned \in Int /\ fund \in Int
        /\ n \in Int
    BY WalletType DEF TInv, IInv, ILRMTypeOK, TreasuryTypeOK
  <1>2. CASE wallet' = Credit(wallet, p, n) /\ fund' = fund - n
    <2>1. SumFunction(wallet') = SumFunction(wallet) + n
      BY <1>1, <1>2, Finite, CreditSum
    <2> QED
      BY <1>1, <1>2, <2>1 DEF AllTokens, Supply
  <1>3. CASE wallet' = [wallet EXCEPT ![p] = @ - n] /\ fund' = fund + n
    <2>1. SumFunction(wallet') = SumFunction(wallet) - n
      <3>1. /\ wallet' \in [TokenHolders -> Int]
            /\ wallet'[p] = wallet[p] - n /\ wallet[p] \in Int
            /\ \A q \in TokenHolders \ {p} : wallet'[q] = wallet[q]
        BY <1>1, <1>3
      <3>2. SumFunction(wallet') = SumFunction(wallet) - wallet[p] + wallet'[p]
        BY <1>1, <3>1, Finite, SumChangesOne
      <3> QED
        BY <1>1, <3>1, <3>2
    <2> QED
      BY <1>1, <1>3, <2>1 DEF AllTokens, Supply
  <1> QED
    BY <1>2, <1>3

LEMMA TreasuryBooksStep == TInv /\ TreasuryBooks /\ [TreasuryNext]_allVars => TreasuryBooks'
  <1> SUFFICES ASSUME TInv, TreasuryBooks, [TreasuryNext]_allVars PROVE TreasuryBooks'
    OBVIOUS
  <1>0. /\ fund \in Nat /\ withdrawn \in Nat
        /\ totalSubsidiesDistributed \in Nat /\ totalInflows \in Nat
        /\ totalInflows = fund + totalSubsidiesDistributed + withdrawn
        /\ totalSubsidiesDistributed = Total(grants)
        /\ grants \in SUBSET Grant /\ IsFiniteSet(grants)
    BY DEF TInv, TreasuryTypeOK, TreasuryBooks, InflowsBooked, GrantsBooked, FiniteGrants
  <1>1. ASSUME AllTokens' = AllTokens, UNCHANGED <<grants, totalSubsidiesDistributed>>,
               totalInflows' = fund' + totalSubsidiesDistributed + withdrawn'
        PROVE  TreasuryBooks'
    BY <1>1 DEF TreasuryBooks, FiniteGrants, GrantsBooked, InflowsBooked, AllTokensKept
  <1>2. ASSUME Supply' = Supply, UNCHANGED <<grants, totalSubsidiesDistributed, totalInflows,
                                             fund, withdrawn>>
        PROVE  TreasuryBooks'
    BY <1>0, <1>1, <1>2 DEF AllTokens
  <1>3. CASE (Next /\ UNCHANGED treasuryVars) \/ UNCHANGED allVars
    <2>1. [Next]_vars /\ UNCHANGED treasuryVars
      BY <1>3 DEF allVars
    <2> QED
      BY <1>2, <2>1, SupplyStep DEF TInv, treasuryVars, subsidyVars
  <1>4. ASSUME NEW d \in DisputeIds, NEW request \in Requests, RequestSubsidy(d, request)
        PROVE  TreasuryBooks'
    <2>1. PICK p \in Accounts, amount \in Nat, g \in Grant :
               /\ g \notin grants /\ g.amount = amount
               /\ grants' = grants \cup {g}
               /\ totalSubsidiesDistributed' = totalSubsidiesDistributed + amount
               /\ amount <= fund
               /\ fund' = fund - amount
               /\ wallet' = Credit(wallet, p, amount)
               /\ UNCHANGED <<held, burned, totalInflows, withdrawn>>
      BY <1>4, RequestGrants
    <2>2. IsFiniteSet(grants') /\ Total(grants') = Total(grants) + amount
      BY <1>0, <2>1, TotalAdds
    <2>3. p \in TokenHolders
      BY DEF TokenHolders
    <2>4. AllTokens' = AllTokens
      BY <2>1, <2>3, TokensMove
    <2>5. totalInflows' = fund' + totalSubsidiesDistributed' + withdrawn'
      BY <1>0, <2>1
    <2>6. totalSubsidiesDistributed' = Total(grants')
      BY <1>0, <2>1, <2>2
    <2> QED
      BY <2>2, <2>4, <2>5, <2>6
         DEF TreasuryBooks, FiniteGrants, GrantsBooked, InflowsBooked, AllTokensKept
  <1>5. ASSUME NEW p \in Sponsors, NEW amount \in Deposits,
               DepositToTreasury(p, amount) \/ EmergencyWithdraw(p, amount)
        PROVE  TreasuryBooks'
    <2>1. p \in TokenHolders /\ amount \in Nat
      BY ILRMAssumption DEF TokenHolders, ILRMAssumption
    <2>2. CASE DepositToTreasury(p, amount)
      <3>1. AllTokens' = AllTokens
        BY <2>1, <2>2, TokensMove DEF DepositToTreasury
      <3>2. /\ UNCHANGED <<grants, totalSubsidiesDistributed>>
            /\ totalInflows' = fund' + totalSubsidiesDistributed + withdrawn'
        BY <1>0, <2>1, <2>2 DEF DepositToTreasury, subsidyVars
      <3> QED
        BY <1>1, <3>1, <3>2
    <2>3. CASE EmergencyWithdraw(p, amount)
      <3>1. AllTokens' = AllTokens
        BY <2>1, <2>3, TokensMove DEF EmergencyWithdraw
      <3>2. /\ UNCHANGED <<grants, totalSubsidiesDistributed>>
            /\ totalInflows' = fund' + totalSubsidiesDistributed + withdrawn'
        BY <1>0, <2>1, <2>3 DEF EmergencyWithdraw, subsidyVars
      <3> QED
        BY <1>1, <3>1, <3>2
    <2> QED
      BY <1>5, <2>2, <2>3
  <1>6. CASE UNCHANGED <<vars, subsidyVars, totalInflows, fund, withdrawn>>
    BY <1>2, <1>6, SupplyStep DEF TInv, subsidyVars
  <1> QED
    BY <1>3, <1>4, <1>5, <1>6 DEF TreasuryNext, TreasuryFundsNext

\* Whatever is deposited, granted, withdrawn, staked, paid back or burnt, the
\* treasury's counters explain its balance and no token appears or disappears.
THEOREM TreasuryAccountedHolds == TreasurySpec => []TreasuryAccounted
  <1>1. Init /\ TreasuryInit => TInv /\ TreasuryBooks
    BY TreasuryInitInv, TreasuryBooksInit
  <1>2. TInv /\ TreasuryBooks /\ [TreasuryNext]_allVars => TInv' /\ TreasuryBooks'
    BY TreasuryStep, TreasuryBooksStep
  <1>3. TreasuryBooks => TreasuryAccounted
    BY DEF TreasuryBooks, TreasuryAccounted, GrantsBooked, InflowsBooked, AllTokensKept, AllTokens,
           Supply
  <1> QED
    BY <1>1, <1>2, <1>3, PTL DEF TreasurySpec

----------------------------------------------------------------------------
(* The windows.  A window starts after the one before is over, so no       *)
(* stretch as long as the shortest window meets three of them.  What p was *)
(* granted from just before its current window on is at most a cap for the *)
(* window before and what the current one has used: this is inductive,     *)
(* and bounds every stretch that ends now.                                 *)

LEMMA CapBounds ==
  ASSUME NEW c \in CapChoices
  PROVE  /\ ShortestWindow \in Nat
         /\ LargestCap \in Nat
         /\ \A e \in CapChoices : /\ e \in [perDispute: Nat, perParticipant: Nat, window: Nat]
                                  /\ ShortestWindow <= e.window
                                  /\ e.perParticipant <= LargestCap
  <1> DEFINE windows == [e \in CapChoices |-> e.window]
             most == [e \in CapChoices |-> e.perParticipant]
  <1>1. /\ \A e \in CapChoices : e \in [perDispute: Nat, perParticipant: Nat, window: Nat]
        /\ \A e \in CapChoices : windows[e] = e.window /\ windows[e] \in Nat /\ windows[e] \in Int
        /\ \A e \in CapChoices : most[e] = e.perParticipant /\ most[e] \in Nat /\ most[e] \in Int
        /\ CapChoices # {}
        /\ IsFiniteSet(CapChoices)
    BY TreasuryAssumption DEF TreasuryAssumption
  <1> HIDE DEF windows, most
  <1>2. \E w \in {e.window : e \in CapChoices} : \A e \in CapChoices : w <= e.window
    <2>1. PICK e \in CapChoices : \A f \in CapChoices : windows[e] <= windows[f]
      BY <1>1, Extremes
    <2> QED
      BY <1>1, <2>1
  <1>3. \E m \in {e.perParticipant : e \in CapChoices} :
           \A e \in CapChoices : e.perParticipant <= m
    <2>1. PICK e \in CapChoices : \A f \in CapChoices : most[e] >= most[f]
      BY <1>1, Extremes
    <2> QED
      BY <1>1, <2>1
  <1>4. /\ ShortestWindow \in {e.window : e \in CapChoices}
        /\ \A e \in CapChoices : ShortestWindow <= e.window
    BY <1>2 DEF ShortestWindow
  <1>5. /\ LargestCap \in {e.perParticipant : e \in CapChoices}
        /\ \A e \in CapChoices : e.perParticipant <= LargestCap
    BY <1>3 DEF LargestCap
  <1> QED
    BY <1>1, <1>4, <1>5

\* What a participant was granted from a day on, and between two days.
GrantsSince(p, day) == {g \in grants : g.participant = p /\ g.day >= day}
GrantsIn(p, first, last) == {g \in grants : g.participant = p /\ g.day \in first .. last}

\* Neither grants nor windows are of the future.
ClockNotBehind == /\ \A g \in grants : g.day <= now
                  /\ \A p \in Accounts : participantWindowStart[p] <= now
\* The first grant starts the first window.
NoneBeforeStart == \A p \in Accounts : participantWindowStart[p] = 0 => GrantsTo(p) = {}
\* The counter never exceeds the largest cap the owner may choose.
UsedWithinCap == \A p \in Accounts : participantSubsidyUsed[p] <= LargestCap
\* The counter is what was granted in the window; the day of its start may belong to
\* the window before.
UsedIsTotal ==
  \A p \in Accounts :
    /\ participantSubsidyUsed[p] >= Total(GrantsSince(p, participantWindowStart[p] + 1))
    /\ participantSubsidyUsed[p] <= Total(GrantsSince(p, participantWindowStart[p]))
\* What came within one window before the start is at most one more cap.
OneWindowBefore ==
  \A p \in Accounts : Total(GrantsSince(p, participantWindowStart[p] - ShortestWindow))
                        <= LargestCap + participantSubsidyUsed[p]
\* What WindowsHold says of every stretch.
StretchesBounded ==
  \A g \in grants : Total(GrantsIn(g.participant, g.day, g.day + ShortestWindow))
                      <= 2 * LargestCap

UsageInv == /\ FiniteGrants
            /\ ClockNotBehind
            /\ NoneBeforeStart
            /\ UsedWithinCap
            /\ UsedIsTotal
            /\ OneWindowBefore
            /\ StretchesBounded

LEMMA UsageSuffices == TInv /\ UsageInv => WindowsHold
  <1> SUFFICES ASSUME TInv, UsageInv PROVE WindowsHold
    OBVIOUS
  <1>1. /\ grants \subseteq Grant
        /\ participantWindowStart \in [Accounts -> Nat]
    BY DEF TInv, TreasuryTypeOK
  <1>2. ASSUME NEW p \in Accounts
        PROVE  /\ {g \in GrantsTo(p) : g.day > participantWindowStart[p]}
                    = GrantsSince(p, participantWindowStart[p] + 1)
               /\ {g \in GrantsTo(p) : g.day >= participantWindowStart[p]}
                    = GrantsSince(p, participantWindowStart[p])
    <2>1. \A g \in grants : g.day \in Nat
      BY <1>1 DEF Grant
    <2>2. participantWindowStart[p] \in Nat
      BY <1>1
    <2>3. \A g \in grants : g.day > participantWindowStart[p]
                              <=> g.day >= participantWindowStart[p] + 1
      BY <2>1, <2>2
    <2> QED
      BY <2>3 DEF GrantsTo, GrantsSince
  <1>3. UsageIsWindowed
    BY <1>2 DEF UsageInv, UsedIsTotal, UsageIsWindowed
  <1>4. \A g \in grants : GrantedFrom(g)
                            = Total(GrantsIn(g.participant, g.day, g.day + ShortestWindow))
    <2> SUFFICES ASSUME NEW g \in grants
                 PROVE  GrantedFrom(g)
                          = Total(GrantsIn(g.participant, g.day, g.day + ShortestWindow))
      OBVIOUS
    <2>1. {h \in GrantsTo(g.participant) : h.day \in g.day .. (g.day + ShortestWindow)}
            = GrantsIn(g.participant, g.day, g.day + ShortestWindow)
      BY DEF GrantsTo, GrantsIn
    <2> QED
      BY <2>1 DEF GrantedFrom
  <1>5. TwoWindowsAtMost
    BY <1>4 DEF UsageInv, StretchesBounded, TwoWindowsAtMost
  <1> QED
    BY <1>3, <1>5 DEF WindowsHold

LEMMA ClockAdvances ==
  ASSUME now \in Nat, [TreasuryNext]_allVars
  PROVE  now' = now \/ now' = now + 1
  <1>1. ASSUME NEW d \in DisputeIds, PartyNext(d) PROVE now' = now
    <2>1. ASSUME DepositStake(d) PROVE now' = now
      BY <2>1 DEF DepositStake
    <2>2. ASSUME NEW r \in Roles, AcceptProposal(d, r) PROVE now' = now
      BY <2>2 DEF AcceptProposal
    <2>3. ASSUME NEW value \in MsgValues, CounterPropose(d, value) PROVE now' = now
      BY <2>3 DEF CounterPropose
    <2>4. ASSUME EnforceTimeout(d) PROVE now' = now
      BY <2>4 DEF EnforceTimeout
    <2> QED
      BY <1>1, <2>1, <2>2, <2>3, <2>4 DEF PartyNext
  <1>2. ASSUME Next PROVE now' = now \/ now' = now + 1
    BY <1>1, <1>2 DEF Next, UsersNext, InitiateBreachDispute, SubmitLLMProposal, FundsNext,
       DepositTokenReserves, ReceiveEther, WithdrawTreasury, Pause, Unpause, SetPaused, Tick
  <1>3. ASSUME TreasuryFundsNext PROVE now' = now
    BY <1>3 DEF TreasuryFundsNext, RequestSubsidy, DepositToTreasury, EmergencyWithdraw
  <1> QED
    BY <1>2, <1>3 DEF TreasuryNext, allVars, vars

LEMMA UsageInit == Init /\ TreasuryInit => UsageInv
  <1> SUFFICES ASSUME Init, TreasuryInit PROVE UsageInv
    OBVIOUS
  <1>1. /\ grants = {} /\ now = 1
        /\ \A p \in Accounts : participantWindowStart[p] = 0 /\ participantSubsidyUsed[p] = 0
        /\ caps \in CapChoices
    BY DEF TreasuryInit, Init, BlockInit
  <1>2. ShortestWindow \in Nat /\ LargestCap \in Nat
    BY <1>1, CapBounds
  <1>3. \A p, day : Total(GrantsSince(p, day)) = 0
    <2>1. \A p, day : GrantsSince(p, day) = {}
      BY <1>1 DEF GrantsSince
    <2> QED
      BY <2>1, TotalEmpty
  <1>4. FiniteGrants /\ ClockNotBehind /\ NoneBeforeStart /\ UsedWithinCap /\ StretchesBounded
    BY <1>1, <1>2, FS_EmptySet DEF FiniteGrants, ClockNotBehind, NoneBeforeStart, GrantsTo,
       UsedWithinCap, StretchesBounded
  <1>5. UsedIsTotal /\ OneWindowBefore
    BY <1>1, <1>2, <1>3 DEF UsedIsTotal, OneWindowBefore
  <1> QED
    BY <1>4, <1>5 DEF UsageInv

LEMMA SinceTypes ==
  ASSUME TInv, FiniteGrants, NEW p
  PROVE  /\ \A day : /\ GrantsSince(p, day) \in SUBSET Grant
                     /\ IsFiniteSet(GrantsSince(p, day))
                     /\ Total(GrantsSince(p, day)) \in Nat
         /\ \A first, day \in Int : first <= day =>
               Total(GrantsSince(p, day)) <= Total(GrantsSince(p, first))
  <1>1. grants \in SUBSET Grant /\ IsFiniteSet(grants) /\ \A g \in grants : g.day \in Int
    BY DEF TInv, TreasuryTypeOK, FiniteGrants, Grant
  <1>2. ASSUME NEW day
        PROVE  /\ GrantsSince(p, day) \in SUBSET Grant
               /\ IsFiniteSet(GrantsSince(p, day))
               /\ Total(GrantsSince(p, day)) \in Nat
    <2>1. GrantsSince(p, day) \in SUBSET grants
      BY DEF GrantsSince
    <2>2. GrantsSince(p, day) \in SUBSET Grant /\ IsFiniteSet(GrantsSince(p, day))
      BY <1>1, <2>1, FS_Subset
    <2> QED
      BY <2>2, TotalType
  <1>3. ASSUME NEW first \in Int, NEW day \in Int, first <= day
        PROVE  Total(GrantsSince(p, day)) <= Total(GrantsSince(p, first))
    <2>1. GrantsSince(p, day) \in SUBSET GrantsSince(p, first)
      BY <1>1, <1>3 DEF GrantsSince
    <2> QED
      BY <1>2, <2>1, TotalType
  <1> QED
    BY <1>2, <1>3

\* A new grant g, today.
LEMMA SinceGrows ==
  ASSUME TInv, FiniteGrants, NEW g \in Grant, g \notin grants, grants' = grants \cup {g}
  PROVE  /\ FiniteGrants'
         /\ \A day \in Int :
              Total(GrantsSince(g.participant, day)')
                = Total(GrantsSince(g.participant, day)) + (IF g.day >= day THEN g.amount ELSE 0)
         /\ \A q, day : q # g.participant => GrantsSince(q, day)' = GrantsSince(q, day)
  <1>1. FiniteGrants'
    BY FS_AddElement DEF FiniteGrants
  <1>2. ASSUME NEW day \in Int
        PROVE  Total(GrantsSince(g.participant, day)')
                 = Total(GrantsSince(g.participant, day)) + (IF g.day >= day THEN g.amount ELSE 0)
    <2> DEFINE before == GrantsSince(g.participant, day)
    <2>1. before \in SUBSET Grant /\ IsFiniteSet(before) /\ g \notin before /\ Total(before) \in Nat
      BY SinceTypes DEF GrantsSince
    <2>2. CASE g.day >= day
      <3>1. before' = before \cup {g}
        BY <2>2 DEF GrantsSince
      <3> HIDE DEF before
      <3>2. Total(before \cup {g}) = Total(before) + g.amount
        BY <2>1, TotalAdds
      <3> QED
        BY <2>2, <3>1, <3>2 DEF before
    <2>3. CASE ~(g.day >= day)
      <3>1. before' = before
        BY <2>3 DEF GrantsSince
      <3> QED
        BY <2>1, <2>3, <3>1
    <2> QED
      BY <2>2, <2>3
  <1>3. ASSUME NEW q, NEW day, q # g.participant
        PROVE  GrantsSince(q, day)' = GrantsSince(q, day)
    BY <1>3 DEF GrantsSince
  <1> QED
    BY <1>1, <1>2, <1>3

LEMMA RequestUsage ==
  ASSUME TInv, UsageInv, NEW d \in DisputeIds, NEW request \in Requests,
         RequestSubsidy(d, request)
  PROVE  UsageInv'
  <1>1. PICK p \in Accounts, used \in Nat, amount \in Nat, g \in Grant :
             /\ g.participant = p /\ g.day = now /\ g.amount = amount /\ g \notin grants
             /\ used = IF WindowOver(p) THEN 0 ELSE participantSubsidyUsed[p]
             /\ amount <= AtLeastZero(caps.perParticipant - used)
             /\ participantWindowStart' = [participantWindowStart EXCEPT ![p] = StartOfWindow(p)]
             /\ participantSubsidyUsed' = [participantSubsidyUsed EXCEPT ![p] = used + amount]
             /\ grants' = grants \cup {g}
             /\ now' = now
    BY RequestGrants
  <1> DEFINE W == ShortestWindow
             cap == LargestCap
  <1>a. PICK start \in Nat : start = participantWindowStart[p]
    BY DEF TInv, TreasuryTypeOK
  <1>b. PICK next : next = StartOfWindow(p)
    OBVIOUS
  <1>2. /\ W \in Nat /\ cap \in Nat
        /\ caps.window \in Nat /\ caps.window >= W
        /\ caps.perParticipant \in Nat /\ caps.perParticipant <= cap
    BY CapBounds DEF TInv, TreasuryTypeOK
  <1>3. /\ now \in Nat /\ now # 0 /\ start \in Nat /\ start <= now
        /\ participantWindowStart \in [Accounts -> Nat]
        /\ participantSubsidyUsed \in [Accounts -> Nat]
        /\ participantSubsidyUsed[p] \in Nat /\ participantSubsidyUsed[p] <= cap
        /\ \A h \in grants : h.day \in Nat /\ h.day <= now
    BY <1>a DEF TInv, IInv, TreasuryTypeOK, UsageInv, UsedWithinCap, ClockNotBehind, Grant
  <1>4. \/ used = participantSubsidyUsed[p] /\ next = start /\ start # 0
        \/ used = 0 /\ next = now /\ (start = 0 \/ now > start + W)
    BY <1>1, <1>2, <1>3, <1>a, <1>b DEF StartOfWindow, WindowOver
  <1>5. used + amount \in Nat /\ used + amount <= cap
    BY <1>1, <1>2, <1>3, <1>4 DEF AtLeastZero
  <1>6. /\ participantWindowStart'[p] = next
        /\ participantSubsidyUsed'[p] = used + amount
        /\ \A q \in Accounts \ {p} : /\ participantWindowStart'[q] = participantWindowStart[q]
                                     /\ participantSubsidyUsed'[q] = participantSubsidyUsed[q]
        /\ next \in Nat /\ next <= now /\ next # 0
    BY <1>1, <1>3, <1>4, <1>b
  <1>7. FiniteGrants'
    BY <1>1, SinceGrows DEF UsageInv
  <1>8. \A day \in Int : /\ Total(GrantsSince(p, day)) \in Nat
                         /\ Total(GrantsSince(p, day)')
                              = Total(GrantsSince(p, day)) + (IF now >= day THEN amount ELSE 0)
    BY <1>1, SinceGrows, SinceTypes DEF UsageInv
  <1>9. \A q \in Accounts \ {p} : \A day : GrantsSince(q, day)' = GrantsSince(q, day)
    BY <1>1, SinceGrows DEF UsageInv
  <1> HIDE DEF W, cap
  <1>10. ClockNotBehind'
    BY <1>1, <1>3, <1>6 DEF UsageInv, ClockNotBehind
  <1>11. NoneBeforeStart'
    BY <1>1, <1>6 DEF UsageInv, NoneBeforeStart, GrantsTo
  <1>12. UsedWithinCap'
    BY <1>5, <1>6 DEF UsageInv, UsedWithinCap, cap
  <1>13. UsedIsTotal'
    <2>1. /\ used + amount >= Total(GrantsSince(p, next + 1)')
          /\ used + amount <= Total(GrantsSince(p, next)')
      <3>1. /\ next + 1 \in Int /\ next \in Int /\ start \in Int /\ start + 1 \in Int
            /\ now >= next /\ now + 1 \in Int
        BY <1>3, <1>6
      <3>2. CASE used = participantSubsidyUsed[p] /\ next = start
        <4>1. /\ used >= Total(GrantsSince(p, start + 1))
              /\ used <= Total(GrantsSince(p, start))
          BY <1>a, <3>2 DEF UsageInv, UsedIsTotal
        <4> QED
          BY <1>8, <3>1, <3>2, <4>1
      <3>3. CASE used = 0 /\ next = now
        <4>1. Total(GrantsSince(p, now + 1)) = 0
          <5>1. GrantsSince(p, now + 1) = {}
            BY <1>3 DEF GrantsSince
          <5> QED
            BY <5>1, TotalEmpty
        <4>2. /\ Total(GrantsSince(p, next + 1)') = 0
              /\ Total(GrantsSince(p, next)') >= amount
          BY <1>3, <1>8, <3>1, <3>3, <4>1
        <4> QED
          BY <3>3, <4>2
      <3> QED
        BY <1>4, <3>2, <3>3
    <2>2. ASSUME NEW q \in Accounts
          PROVE  /\ participantSubsidyUsed'[q]
                       >= Total(GrantsSince(q, participantWindowStart[q] + 1)')
                 /\ participantSubsidyUsed'[q]
                       <= Total(GrantsSince(q, participantWindowStart[q])')
      <3>1. CASE q = p
        BY <1>6, <2>1, <3>1
      <3>2. CASE q # p
        BY <1>6, <1>9, <3>2 DEF UsageInv, UsedIsTotal
      <3> QED
        BY <3>1, <3>2
    <2> QED
      BY <2>2 DEF UsedIsTotal
  <1>14. Total(GrantsSince(p, next - W)') <= cap + used + amount
    <2>1. /\ next - W \in Int /\ start - W \in Int /\ start + 1 \in Int
          /\ now >= next - W
          /\ Total(GrantsSince(p, next - W)) \in Nat
          /\ Total(GrantsSince(p, next - W)') = Total(GrantsSince(p, next - W)) + amount
      BY <1>2, <1>3, <1>6, <1>8
    <2>2. Total(GrantsSince(p, next - W)) <= cap + used
      <3>1. CASE used = participantSubsidyUsed[p] /\ next = start
        BY <1>a, <3>1 DEF UsageInv, OneWindowBefore, W, cap
      <3>2. CASE used = 0 /\ next = now /\ start = 0
        <4>1. GrantsSince(p, next - W) = {}
          BY <1>a, <3>2 DEF UsageInv, NoneBeforeStart, GrantsTo, GrantsSince
        <4>2. Total(GrantsSince(p, next - W)) = 0
          BY <4>1, TotalEmpty
        <4> QED
          BY <1>2, <3>2, <4>2
      <3>3. CASE used = 0 /\ next = now /\ now > start + W
        <4>1. start + 1 <= next - W
          BY <1>2, <1>3, <3>3
        <4>2. Total(GrantsSince(p, next - W)) <= Total(GrantsSince(p, start + 1))
          BY <2>1, <4>1, SinceTypes DEF UsageInv
        <4>3. Total(GrantsSince(p, start + 1)) <= participantSubsidyUsed[p]
          BY <1>a DEF UsageInv, UsedIsTotal
        <4>4. Total(GrantsSince(p, start + 1)) \in Nat
          BY <1>8, <2>1
        <4> QED
          BY <1>2, <1>3, <2>1, <3>3, <4>2, <4>3, <4>4
      <3> QED
        BY <1>4, <3>1, <3>2, <3>3
    <2> QED
      BY <1>2, <2>1, <2>2
  <1>15. OneWindowBefore'
    <2> SUFFICES ASSUME NEW q \in Accounts
                 PROVE  Total(GrantsSince(q, participantWindowStart[q] - W)')
                          <= cap + participantSubsidyUsed'[q]
      BY DEF OneWindowBefore, W, cap
    <2>1. CASE q = p
      BY <1>2, <1>5, <1>6, <1>14, <2>1
    <2>2. CASE q # p
      BY <1>6, <1>9, <2>2 DEF UsageInv, OneWindowBefore, W, cap
    <2> QED
      BY <2>1, <2>2
  <1>16. StretchesBounded'
    <2> SUFFICES ASSUME NEW h \in grants'
                 PROVE  Total(GrantsIn(h.participant, h.day, h.day + W)') <= 2 * cap
      BY DEF StretchesBounded, W, cap
    <2>1. h.day \in Nat
      BY <1>1, <1>3
    <2>2. CASE h.participant = p /\ now <= h.day + W
      <3>1. GrantsIn(p, h.day, h.day + W)' \in SUBSET (GrantsSince(p, next - W)')
        <4>1. h.day >= next - W
          BY <1>2, <1>3, <1>6, <2>1, <2>2
        <4>2. \A k \in grants' : k.day \in Nat
          BY <1>1, <1>3
        <4>3. next - W \in Int
          BY <1>2, <1>6
        <4> QED
          BY <1>2, <2>1, <4>1, <4>2, <4>3 DEF GrantsIn, GrantsSince
      <3>2. GrantsSince(p, next - W)' \in SUBSET Grant /\ IsFiniteSet(GrantsSince(p, next - W)')
        <4>1. grants' \in SUBSET Grant /\ IsFiniteSet(grants')
          BY <1>1, <1>7 DEF TInv, TreasuryTypeOK, FiniteGrants
        <4>2. GrantsSince(p, next - W)' \in SUBSET grants'
          BY DEF GrantsSince
        <4> QED
          BY <4>1, <4>2, FS_Subset
      <3>3. /\ Total(GrantsSince(p, next - W)') \in Nat
            /\ Total(GrantsIn(p, h.day, h.day + W)') \in Nat
            /\ Total(GrantsIn(p, h.day, h.day + W)') <= Total(GrantsSince(p, next - W)')
        BY <3>1, <3>2, TotalType
      <3> QED
        BY <1>2, <1>5, <1>14, <2>2, <3>3
    <2>3. CASE ~(h.participant = p /\ now <= h.day + W)
      <3>1. h # g
        BY <1>1, <1>2, <1>3, <2>3
      <3>2. h \in grants
        BY <1>1, <3>1
      <3>3. GrantsIn(h.participant, h.day, h.day + W)' = GrantsIn(h.participant, h.day, h.day + W)
        <4>1. ~(g.participant = h.participant /\ g.day \in h.day .. (h.day + W))
          BY <1>1, <1>2, <2>1, <2>3
        <4> QED
          BY <1>1, <4>1 DEF GrantsIn
      <3> QED
        BY <3>2, <3>3 DEF UsageInv, StretchesBounded, W, cap
    <2> QED
      BY <2>2, <2>3
  <1> QED
    BY <1>7, <1>10, <1>11, <1>12, <1>13, <1>15, <1>16 DEF UsageInv

LEMMA UsageStep == TInv /\ UsageInv /\ [TreasuryNext]_allVars => UsageInv'
  <1> SUFFICES ASSUME TInv, UsageInv, [TreasuryNext]_allVars PROVE UsageInv'
    OBVIOUS
  <1>1. ASSUME UNCHANGED <<grants, participantWindowStart, participantSubsidyUsed>>
        PROVE  UsageInv'
    <2>1. ClockNotBehind'
      <3>1. /\ now \in Nat /\ \A g \in grants : g.day \in Nat
            /\ \A p \in Accounts : participantWindowStart[p] \in Nat
        BY DEF TInv, IInv, TreasuryTypeOK, Grant
      <3> QED
        BY <1>1, <3>1, ClockAdvances DEF UsageInv, ClockNotBehind
    <2>2. /\ FiniteGrants' /\ NoneBeforeStart' /\ UsedWithinCap' /\ UsedIsTotal'
          /\ OneWindowBefore' /\ StretchesBounded'
      BY <1>1 DEF UsageInv, FiniteGrants, NoneBeforeStart, UsedWithinCap, UsedIsTotal,
         OneWindowBefore, StretchesBounded, GrantsTo, GrantsSince, GrantsIn
    <2> QED
      BY <2>1, <2>2 DEF UsageInv
  <1>2. CASE Next /\ UNCHANGED treasuryVars
    BY <1>1, <1>2 DEF treasuryVars, subsidyVars
  <1>3. CASE TreasuryFundsNext
    BY <1>1, <1>3, RequestUsage
       DEF TreasuryFundsNext, DepositToTreasury, EmergencyWithdraw, subsidyVars
  <1>4. CASE UNCHANGED subsidyVars
    BY <1>1, <1>4 DEF subsidyVars
  <1> QED
    BY <1>2, <1>3, <1>4 DEF TreasuryNext, allVars, treasuryVars

\* Whatever caps the owner sets and when, the running counter of a participant is what
\* it was granted in its window, and no stretch of days as long as the shortest window
\* brings it more than twice the largest cap.
THEOREM WindowsHoldAlways == TreasurySpec => []WindowsHold
  <1>1. Init /\ TreasuryInit => TInv /\ UsageInv
    BY TreasuryInitInv, UsageInit
  <1>2. TInv /\ UsageInv /\ [TreasuryNext]_allVars => TInv' /\ UsageInv'
    BY TreasuryStep, UsageStep
  <1> QED
    BY <1>1, <1>2, UsageSuffices, PTL DEF TreasurySpec

\* The quote of calculateSubsidy is what a request on the same day is granted.
THEOREM QuotedIsGrantedHolds == TreasurySpec => QuotedIsGranted
  <1>1. ASSUME TInv, NEW d \in DisputeIds, NEW request \in Requests, RequestSubsidy(d, request)
        PROVE  \E g \in grants' \ grants :
                 g.amount = CalculateSubsidy(d, request, disputes[d].counterparty)
    <2> DEFINE p == disputes[d].counterparty
               amount == Capped(request, UsedInWindow(p))
               g == [participant |-> p, disputeId |-> d, day |-> now, amount |-> amount]
    <2>1. /\ d \notin disputeSubsidized
          /\ harassmentScore[p] < HARASSMENT_THRESHOLD
          /\ grants' = grants \cup {g}
      BY <1>1 DEF RequestSubsidy, Eligible, UsedInWindow
    <2>2. harassmentScore[p] \in Nat /\ HARASSMENT_THRESHOLD \in Nat
      <3>1. p \in Accounts
        BY <1>1 DEF RequestSubsidy, Eligible, Open, TInv, IInv, DisputesWellFormed
      <3> QED
        BY <1>1, <3>1 DEF TInv, TreasuryTypeOK, HARASSMENT_THRESHOLD
    <2>3. CalculateSubsidy(d, request, p) = amount
      BY <2>1, <2>2 DEF CalculateSubsidy
    <2>4. g \notin grants
      <3>1. g.disputeId = d
        OBVIOUS
      <3> QED
        BY <1>1, <2>1, <3>1 DEF TInv, SubsidizedOnce
    <2>5. g.amount = amount
      OBVIOUS
    <2> HIDE DEF amount, g
    <2> QED
      BY <2>1, <2>3, <2>4, <2>5
  <1>2. TInv => [\A d \in DisputeIds, request \in Requests :
                   RequestSubsidy(d, request) =>
                     \E g \in grants' \ grants :
                       g.amount = CalculateSubsidy(d, request, disputes[d].counterparty)]_allVars
    BY <1>1
  <1> QED
    BY <1>2, TreasuryInvariance, PTL DEF TreasurySpec, QuotedIsGranted
=============================================================================

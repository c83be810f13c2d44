------------------------------ MODULE Subgraph ------------------------------
(***************************************************************************)
(* The subgraph beside the contract it indexes.  A transaction of ILRM and *)
(* the handling of the events it emits, in their order, are one step: the  *)
(* handlers read nothing but the event and the store, so the store that a  *)
(* lagging indexer holds is the one this module holds a few steps earlier. *)
(* Indexing begins at the block the manifest names, which may come after   *)
(* the first disputes.  A day of the contract is a day of the metrics.     *)
(***************************************************************************)
EXTENDS ILRM, IlrmIndex

CONSTANTS Voluntary,        \* the id all voluntary requests share, type(uint256).max
          MaxProposals,     \* bound: proposals the oracle submits over time
          MaxRequests       \* bound: voluntary requests while indexing

ASSUME SubgraphAssumption ==
  /\ Voluntary \notin DisputeIds
  /\ MaxProposals \in Nat
  /\ MaxRequests \in Nat

VARIABLES
  listening,    \* whether the start block has been reached
  index,        \* the entity store
  proposed,     \* bound: proposals so far
  heard         \* voluntary requests since indexing began

subgraphVars == <<vars, listening, index, proposed, heard>>

SubgraphInit == /\ Init
                /\ listening \in BOOLEAN
                /\ index = EmptyStore
                /\ proposed = 0
                /\ heard = 0

\* What the handlers make of the store, once they are listening.
Indexes(store) == index' = IF listening THEN store ELSE index

StartBlockReached == /\ ~listening
                     /\ listening' = TRUE
                     /\ UNCHANGED <<vars, index, proposed, heard>>

Quietly == UNCHANGED <<listening, proposed, heard>>

Initiate(p, c, base, t) ==
  /\ InitiateBreachDispute(p, c, base, t)
  /\ Indexes(HandleDisputeInitiated(index, disputeCounter, p, c, now))
  /\ Quietly

\* initiateVoluntaryRequest burns its fee at once and leaves only an event.
RequestVoluntarily(p, c) ==
  /\ heard < MaxRequests                                              \* bound
  /\ heard' = IF listening THEN heard + 1 ELSE heard
  /\ Indexes(HandleDisputeInitiated(index, Voluntary, p, c, now))
  /\ UNCHANGED <<vars, listening, proposed>>

Stake(d) ==
  /\ DepositStake(d)
  /\ Indexes(HandleStakeDeposited(index, d, disputes[d].counterparty,
                                  disputes[d].initiatorStake, now))
  /\ Quietly

Propose(d, text) ==
  /\ proposed < MaxProposals                                           \* bound
  /\ proposed' = proposed + 1
  /\ SubmitLLMProposal(d, text)
  /\ Indexes(HandleProposalSubmitted(index, d, text, now))
  /\ UNCHANGED <<listening, heard>>

\* With the second acceptance DisputeResolved follows in the same transaction.
Accept(d, r) ==
  LET signaled == HandleAcceptanceSignaled(index, d, disputes[d][r])
  IN /\ AcceptProposal(d, r)
     /\ Indexes(IF disputes'[d].resolved
                THEN HandleDisputeResolved(signaled, d, disputes'[d].outcome, now)
                ELSE signaled)
     /\ Quietly

Counter(d, r, value) ==
  /\ CounterPropose(d, value)
  /\ Indexes(HandleCounterProposed(index, d, disputes[d][r], disputes'[d].counterCount, now))
  /\ Quietly

\* The event carries the burnt half without the odd token burnt beside it.
BurnAmount(d) == (StakeOf(d) * BURN_PERCENTAGE) \div 100

TimeOut(d) ==
  LET first == IF Staked(d) THEN HandleStakesBurned(index, d, BurnAmount(d), now)
                            ELSE HandleDefaultLicenseApplied(index, d)
  IN /\ EnforceTimeout(d)
     /\ Indexes(HandleDisputeResolved(first, d, disputes'[d].outcome, now))
     /\ Quietly

\* Steps of the chain that no handler hears of.
Unheard == /\ \/ Tick /\ UNCHANGED <<registryVars, ilrmVars>>
              \/ \E p \in Accounts, a \in Assets, t \in OwnTerms :
                    RegisterAsset(a, p, t) /\ UNCHANGED <<now, ilrmVars>>
           /\ UNCHANGED index
           /\ Quietly

DisputeStep(d) ==
  \/ Stake(d)
  \/ TimeOut(d)
  \/ \E r \in Roles : Accept(d, r)
  \/ \E r \in Roles, value \in MsgValues : Counter(d, r, value)
  \/ \E text \in Proposals : Propose(d, text)

SubgraphNext ==
  \/ StartBlockReached
  \/ Unheard
  \/ \E p, c \in Accounts : RequestVoluntarily(p, c)
  \/ \E p, c \in Accounts, base \in Stakes, t \in FallbackTerms : Initiate(p, c, base, t)
  \/ \E d \in DisputeIds : DisputeStep(d)

SubgraphSpec == SubgraphInit /\ [][SubgraphNext]_subgraphVars
=============================================================================

----------------------------- MODULE ILRMProps -----------------------------
(***************************************************************************)
(* What the two-party protocol must satisfy: the properties that the runs  *)
(* check and the theorems prove of ILRM.                                   *)
(***************************************************************************)
EXTENDS ILRM

Holding(d) == IF Open(d) THEN StakeOf(d) ELSE 0

\* No token is created, lost or promised twice by initiations, deposits, the
\* three resolutions and the reserves, in any order: the contract holds exactly
\* the stakes of the open disputes and the reserves, every token of the initial
\* supply is in a wallet, held or burnt, and the booked ETH is really there.
FundsAccounted ==
  /\ tokenReserves >= 0
  /\ held = SumFunction([d \in DisputeIds |-> Holding(d)]) + tokenReserves
  /\ SumFunction(wallet) + held + burned
       = InitialTokens * Cardinality(TokenHolders)
  /\ treasury <= ethBalance

\* The freeze lists, the assets' own status and the disputes agree, although
\* freezeAssets, unfreezeAssets and transferAsset each touch a part of them: an
\* asset is frozen exactly when it is on the list of one open dispute, and it
\* still belongs to the initiator whose dispute froze it.
FreezeLock ==
  /\ \A d \in DisputeIds : \A a \in frozenAssets[d] :
        /\ Open(d)
        /\ status[a] = "Frozen"
        /\ assetDispute[a] = d
        /\ owner[a] = disputes[d].initiator
  /\ \A a \in Assets : status[a] = "Frozen" => \E d \in DisputeIds : a \in frozenAssets[d]

\* Invariant 2 of the protocol, "silence is always free": an account that never
\* initiated and never staked still has all its tokens, and none of its assets is
\* frozen, whatever disputes the others opened against it.
Silent(p) == \A d \in DisputeIds :
               /\ disputes[d].initiator # p
               /\ disputes[d].counterparty = p => ~Staked(d)
SilenceIsFree ==
  \A p \in Accounts : Silent(p) =>
    /\ wallet[p] >= InitialTokens
    /\ \A a \in Assets : owner[a] = p => status[a] = "Active"

\* A dispute that ends in AcceptedProposal does so because both parties accepted
\* in its last round of negotiation: an acceptance given before a counter-proposal
\* never counts after it.
ConsentIsCurrent ==
  \A d \in DisputeIds : disputes[d].outcome = "AcceptedProposal" =>
    \A r \in Roles : /\ consent[d][r].proposal # NoProposal
                     /\ consent[d][r].round = disputes[d].counterCount

\* What ILRM.sol calls mutual acceptance: both parties accepted the proposal
\* that the dispute is resolved with.
MutualConsent ==
  \A d \in DisputeIds : disputes[d].outcome = "AcceptedProposal" =>
    \A r \in Roles : consent[d][r].proposal = disputes[d].llmProposal

\* The resolution deadline, from the day of initiation: one day more for each
\* counter-proposal, never more than MAX_TIME_EXTENSION.
DeadlineOf(d) ==
  LET rounds == disputes[d].counterCount
  IN createdAt[d] + RESOLUTION_TIMEOUT
       + (IF rounds <= MAX_TIME_EXTENSION THEN rounds ELSE MAX_TIME_EXTENSION)

Settles(d) == Open(d) /\ disputes'[d].resolved

\* Acceptance and timeout never compete for the same day and no extension is
\* granted twice: agreement is reached no later than the deadline counted from the
\* initiation, the burn happens only after it, and a default only when the
\* counterparty let the staking window pass.
SettledOnTime(d) ==
  LET outcome == disputes'[d].outcome
  IN /\ outcome # "Pending"
     /\ outcome = "AcceptedProposal" => now <= DeadlineOf(d)
     /\ outcome = "TimeoutWithBurn" => Staked(d) /\ now > DeadlineOf(d)
     /\ outcome = "DefaultLicenseApplied" => ~Staked(d) /\ now > createdAt[d] + STAKE_WINDOW
SettledInTime == [][\A d \in DisputeIds : Settles(d) => SettledOnTime(d)]_vars

\* Settling releases every asset the dispute froze, and exits without agreement
\* put exactly those under the fallback licence: "Fallback License: Always applied
\* on timeout".
ReleasedOnTerms(d) ==
  LET fellBack == disputes'[d].outcome # "AcceptedProposal"
  IN \A a \in Assets :
       /\ a \in frozenAssets[d] => status'[a] = "Active" /\ assetDispute'[a] = 0
       /\ terms'[a] = IF a \in frozenAssets[d] /\ fellBack THEN disputes[d].fallback ELSE terms[a]
FallbackOnExit == [][\A d \in DisputeIds : Settles(d) => ReleasedOnTerms(d)]_vars

----------------------------------------------------------------------------
(* The contract implements Escrow: its stage is read off the dispute, the  *)
(* pot is what the contract holds beyond the reserves.                     *)

StageOf(d) == IF ~Exists(d) THEN "absent"
              ELSE IF disputes[d].resolved THEN "settled"
              ELSE IF Staked(d) THEN "matched"
              ELSE "open"

EscalatedStakes == Stakes \cup {(s * ESCALATION_MULTIPLIER) \div 100 : s \in Stakes}

AbstractEscrow ==
  INSTANCE Escrow WITH Ids <- DisputeIds,
                       Amounts <- EscalatedStakes,
                       stage <- [d \in DisputeIds |-> StageOf(d)],
                       paidIn <- [d \in DisputeIds |-> StakeOf(d)],
                       pot <- held - tokenReserves,
                       ash <- burned

\* Every behaviour of the contract is a behaviour of the escrow: no dispute is paid
\* out twice, in part or before it settles, and burns take only matched stakes.
ImplementsEscrow == AbstractEscrow!Spec

----------------------------------------------------------------------------
(* Liveness.                                                               *)

\* "The system is mathematically guaranteed to resolve all disputes", as long as
\* the registry's owner keeps the contract authorised.
EveryDisputeResolves ==
  <>[](ThisILRM \in authorizedILRM) =>
    \A d \in DisputeIds : Open(d) ~> disputes[d].resolved

\* The part of it that the code delivers: a dispute that froze something resolves,
\* whatever the parties, the oracle, the sponsors and the pausing owner do.
DisputesWithAssetsResolve ==
  <>[](ThisILRM \in authorizedILRM) =>
    \A d \in DisputeIds : Open(d) /\ frozenAssets[d] # {} ~> disputes[d].resolved
=============================================================================

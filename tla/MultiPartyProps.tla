-------------------------- MODULE MultiPartyProps --------------------------
(***************************************************************************)
(* What the multi-party protocol must satisfy.                             *)
(***************************************************************************)
EXTENDS MultiPartyILRM

Holding(d) == IF Open(d) THEN Cardinality(mp[d].staked) * mp[d].baseStake ELSE 0

\* The contract holds exactly one base stake for every party that staked in an open
\* dispute, its running total says the same, and no token is created or lost when
\* shares do not divide evenly among the parties.  And every variable keeps its type.
StakesAccounted ==
  /\ MPTypeOK
  /\ held = SumFunction([d \in DisputeIds |-> Holding(d)])
  /\ \A d \in DisputeIds : mp[d].totalStaked = Cardinality(mp[d].staked) * mp[d].baseStake
  /\ SumFunction(wallet) + held + burned
       = InitialTokens * Cardinality(Accounts)
  /\ treasury <= ethBalance

\* The vote counters and the per-party flags, reset in two places and changed in
\* two others, always agree, nobody votes both ways, only staked parties vote: the
\* subtraction in rejectProposal never underflows.
VotesAgree ==
  \A d \in DisputeIds :
     /\ mp[d].acceptanceCount = Cardinality(mp[d].accepted)
     /\ mp[d].rejectionCount = Cardinality(mp[d].rejected)
     /\ mp[d].accepted \cap mp[d].rejected = {}
     /\ mp[d].accepted \cup mp[d].rejected \subseteq mp[d].staked
     /\ mp[d].staked \subseteq mp[d].parties

\* A dispute resolved by quorum is resolved with a text that enough of the parties
\* it has, late joiners counted, accepted: this very text, in this very round,
\* whatever was proposed, accepted or countered before.
QuorumConsents ==
  \A d \in DisputeIds : mp[d].outcome = "QuorumAccepted" =>
    LET agreed == {p \in mp[d].parties :
                     consent[d][p] = [round |-> mp[d].counterCount,
                                      proposal |-> mp[d].llmProposal]}
    IN Cardinality(agreed) >= QuorumRequirement(mp[d]) /\ agreed # {}

\* Only those who staked are bound: a frozen asset belongs to a party that staked in
\* the open dispute that froze it, so naming others as parties costs them nothing.
FreezeBindsStakers ==
  /\ \A d \in DisputeIds : \A a \in frozenAssets[d] :
        /\ Open(d)
        /\ status[a] = "Frozen"
        /\ owner[a] \in mp[d].staked
  /\ \A a \in Assets : status[a] = "Frozen" => \E d \in DisputeIds : a \in frozenAssets[d]

Settles(d) == Open(d) /\ mp'[d].resolved

\* "Fallback License: Always applied on timeout", and both exits announce "Apply
\* fallback license": every asset that a dispute without quorum releases carries the
\* fallback terms afterwards.
FallbackOnExit ==
  [][\A d \in DisputeIds : Settles(d) /\ mp'[d].outcome # "QuorumAccepted" =>
       \A a \in frozenAssets[d] : terms'[a] = mp[d].fallback]_vars
=============================================================================

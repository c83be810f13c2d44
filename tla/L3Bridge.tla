------------------------------ MODULE L3Bridge ------------------------------
(***************************************************************************)
(* The bridge to the dispute rollup: the sequencer commits state roots,    *)
(* each on top of the last; challengers refute them by a bonded            *)
(* commit-and-reveal while the challenge period lasts; what nobody refuted *)
(* becomes final, and disputes settle against final roots.                 *)
(*                                                                         *)
(* Time counts reveal delays instead of days.  Signatures are left out     *)
(* (the sequencer signs what it submits), and so are block numbers, the    *)
(* sums in settlement messages, which nothing reads, and change of owner.  *)
(*                                                                         *)
(* An operator that nothing refers to is a mistake the code could contain, *)
(* kept above the definition whose place it would take.                    *)
(***************************************************************************)
EXTENDS Block, Integers, FiniteSets

CONSTANTS Roots,                \* roots that some data hashes to
          NoRoot,               \* bytes32(0): "none", and a root that no data hashes to
          Challengers, Nobody,
          Salts,                \* a commit hash is a proof against a root and a salt
          L2Ids,                \* bound: disputes bridged
          Periods,              \* challenge periods the owner asks for
          DEFAULT_CHALLENGE_PERIOD,
          MinPeriod,            \* one day, the shortest that is accepted
          MIN_REVEAL_DELAY, MAX_REVEAL_WINDOW,
          Bond,                 \* what challengers send, MIN_CHALLENGER_BOND
          Sums,                 \* ETH that is sent to the bridge or withdrawn
          MaxCommits,           \* bound: fraud proof commitments
          MaxCalls              \* bound: calls of others than sequencer and challengers

\* (Dispute ids are 256-bit numbers: there are finitely many.)
ASSUME BridgeAssumption ==
  /\ NoRoot \notin Roots
  /\ IsFiniteSet(L2Ids)
  /\ Nobody \notin Challengers
  /\ Periods \subseteq Nat
  /\ MinPeriod \in Nat \ {0}
  /\ MIN_REVEAL_DELAY \in Nat
  /\ MAX_REVEAL_WINDOW \in Nat
  /\ Bond \in Nat \ {0}
  /\ Sums \subseteq Nat
  /\ MaxCommits \in Nat
  /\ MaxCalls \in Nat
  /\ DEFAULT_CHALLENGE_PERIOD \in Nat
  /\ DEFAULT_CHALLENGE_PERIOD >= MinPeriod

FRAUD_REWARD_BPS == 5000

VARIABLES
  bridgeStatus,
  bridgePaused,
  commitRevealEnabled,
  challengePeriod,
  l3Of,                     \* _l2ToL3DisputeId, 0 for not bridged
  l3Counter,
  settled,                  \* _settledDisputes
  totalSettlements,
  pendingSettlementsCount,
  parent,                   \* previousRoot of each commitment
  committedAt,              \* _commitmentTimestamps, 0 for never
  latestCommittedRoot,
  finalized,                \* _finalizedStates
  latestFinalizedRoot,
  challenger,               \* _activeChallenges
  fraudCommits,             \* _fraudProofCommitments
  commitOn,                 \* _stateRootCommitments
  balance,                  \* ETH the bridge holds
  withdrawn,                \* history: ETH the owner took
  calls                     \* bound: what others than sequencer and challengers did so far

configVars == <<bridgeStatus, bridgePaused, commitRevealEnabled, challengePeriod>>
disputeVars == <<l3Of, l3Counter, settled, totalSettlements, pendingSettlementsCount>>
chainVars == <<parent, committedAt, latestCommittedRoot, finalized, latestFinalizedRoot>>
fraudVars == <<challenger, fraudCommits, commitOn>>
moneyVars == <<balance, withdrawn>>
bridgeVars == <<configVars, disputeVars, chainVars, fraudVars, moneyVars, calls>>

\* The sequencer may commit bytes32(0) too; nothing refuses it.
StateRoots == Roots \cup {NoRoot}

\* A proof is data that leads to its root.
Proofs == [root: Roots, salt: Salts]
NoProof == [root |-> NoRoot, salt |-> 0]

\* (The period in force is kept as history.)
FraudCommit == [challenger: Challengers \cup {Nobody}, commitTime: Nat, revealed: BOOLEAN,
                period: Nat]
NoCommit == [challenger |-> Nobody, commitTime |-> 0, revealed |-> FALSE, period |-> 0]

BridgeInit ==
  /\ BlockInit
  /\ bridgeStatus = "Active"
  /\ bridgePaused = FALSE
  /\ commitRevealEnabled = TRUE
  /\ challengePeriod = DEFAULT_CHALLENGE_PERIOD
  /\ l3Of = [d \in L2Ids |-> 0]
  /\ l3Counter = 0
  /\ settled = {}
  /\ totalSettlements = 0
  /\ pendingSettlementsCount = 0
  /\ parent = [r \in StateRoots |-> NoRoot]
  /\ committedAt = [r \in StateRoots |-> 0]
  /\ latestCommittedRoot = NoRoot
  /\ finalized = {}
  /\ latestFinalizedRoot = NoRoot
  /\ challenger = [r \in StateRoots |-> Nobody]
  /\ fraudCommits = [p \in Proofs |-> NoCommit]
  /\ commitOn = [r \in StateRoots |-> NoProof]
  /\ balance = 0
  /\ withdrawn = 0
  /\ calls = 0

----------------------------------------------------------------------------
(* Disputes cross the bridge and come back settled.                        *)

\* The address set as ILRM calls this.
BridgeDisputeToL3(d) ==
  /\ bridgeStatus = "Active"
  /\ l3Of[d] = 0
  /\ l3Counter' = l3Counter + 1
  /\ l3Of' = [l3Of EXCEPT ![d] = l3Counter + 1]
  /\ pendingSettlementsCount' = pendingSettlementsCount + 1
  /\ UNCHANGED <<now, settled, totalSettlements, configVars, chainVars, fraudVars, moneyVars>>

SettleableTwice(d, root) == l3Of[d] # 0 /\ root \in finalized \cup {NoRoot}
Settleable(d, root) ==
  /\ l3Of[d] # 0
  /\ d \notin settled
  /\ root \in finalized \cup {NoRoot}      \* NoRoot: an immediate settlement

\* The sequencer settles one dispute or a batch, all of it or nothing.
ProcessSettlements(ds, root) ==
  /\ bridgeStatus = "Active"
  /\ \A d \in ds : Settleable(d, root)
  /\ settled' = settled \cup ds
  /\ totalSettlements' = totalSettlements + Cardinality(ds)
  /\ pendingSettlementsCount' = pendingSettlementsCount - Cardinality(ds)
  /\ UNCHANGED <<now, l3Of, l3Counter, configVars, chainVars, fraudVars, moneyVars>>

----------------------------------------------------------------------------
(* State commitments.                                                      *)

\* A commitment stands on the last one committed.  What the first stands on is not
\* checked, nor what stands on bytes32(0), which reads as no commitment at all.
StandsOnFinal(prev) == latestFinalizedRoot # NoRoot => prev = latestFinalizedRoot
StandsOnLast(prev) ==
  IF latestCommittedRoot # NoRoot THEN prev = latestCommittedRoot ELSE StandsOnFinal(prev)

SubmitStateCommitment(r, prev) ==
  /\ bridgeStatus = "Active"
  /\ committedAt[r] = 0
  /\ StandsOnLast(prev)
  /\ parent' = [parent EXCEPT ![r] = prev]
  /\ committedAt' = [committedAt EXCEPT ![r] = now]
  /\ latestCommittedRoot' = r
  /\ UNCHANGED <<now, finalized, latestFinalizedRoot, configVars, disputeVars, fraudVars, moneyVars>>

UnchallengedOrOld(r) == challenger[r] = Nobody \/ now > committedAt[r] + challengePeriod
Unchallenged(r) == challenger[r] = Nobody

\* Anyone may call it, whatever the status of the bridge.
FinalizeStateCommitment(r) ==
  /\ committedAt[r] # 0
  /\ now - committedAt[r] >= challengePeriod
  /\ r \notin finalized
  /\ Unchallenged(r)
  /\ finalized' = finalized \cup {r}
  /\ latestFinalizedRoot' = r
  /\ UNCHANGED <<now, parent, committedAt, latestCommittedRoot, configVars, disputeVars, fraudVars,
                 moneyVars>>

----------------------------------------------------------------------------
(* Fraud proofs.  The contract accepts any data that leads to the claimed  *)
(* root as proof against it, so every root but bytes32(0) can be refuted.  *)

Lower(a, b) == IF a <= b THEN a ELSE b

\* Half of the bond, as far as the bridge holds more than the bond.
Reward(held) == Lower((Bond * FRAUD_REWARD_BPS) \div 10000, IF held > Bond THEN held - Bond ELSE 0)

CommitsSoFar == {p \in Proofs : fraudCommits[p] # NoCommit}

InTimeToChallenge(r) == now - committedAt[r] < challengePeriod
InTimeToReveal(r) == now - committedAt[r] < challengePeriod - MIN_REVEAL_DELAY - MAX_REVEAL_WINDOW

\* The hash says nothing of the root it is registered on: p.root may differ from r.
CommitFraudProof(c, p, r) ==
  /\ ~bridgePaused
  /\ commitRevealEnabled
  /\ committedAt[r] # 0
  /\ r \notin finalized
  /\ Unchallenged(r)
  /\ InTimeToReveal(r)
  /\ commitOn[r] = NoProof
  /\ fraudCommits[p] = NoCommit
  /\ Cardinality(CommitsSoFar) < MaxCommits                          \* bound
  /\ fraudCommits' = [fraudCommits EXCEPT ![p] =
       [challenger |-> c, commitTime |-> now, revealed |-> FALSE, period |-> challengePeriod]]
  /\ commitOn' = [commitOn EXCEPT ![r] = p]
  /\ balance' = balance + Bond
  /\ UNCHANGED <<now, challenger, withdrawn, configVars, disputeVars, chainVars>>

\* A refuted root gives way to its parent, if nothing was built on it.
RefutedToFinal(r, c) ==
  /\ challenger' = [challenger EXCEPT ![r] = c]
  /\ latestCommittedRoot' = IF latestCommittedRoot = r THEN latestFinalizedRoot
                            ELSE latestCommittedRoot
  /\ UNCHANGED <<parent, committedAt, finalized, latestFinalizedRoot>>
Refuted(r, c) ==
  /\ challenger' = [challenger EXCEPT ![r] = c]
  /\ latestCommittedRoot' = IF latestCommittedRoot = r THEN parent[r] ELSE latestCommittedRoot
  /\ UNCHANGED <<parent, committedAt, finalized, latestFinalizedRoot>>

RevealWindowOpen(k) ==
  now \in (k.commitTime + MIN_REVEAL_DELAY) .. (k.commitTime + MIN_REVEAL_DELAY + MAX_REVEAL_WINDOW)

StillOpenBefore(r) == Unchallenged(r)
StillOpen(r) == r \notin finalized /\ Unchallenged(r)

\* By the one who committed, who gets bond and reward or is refused.
RevealFraudProof(p) ==
  LET k == fraudCommits[p]
      r == p.root
  IN /\ ~bridgePaused
     /\ k.challenger # Nobody
     /\ ~k.revealed
     /\ RevealWindowOpen(k)
     /\ StillOpen(r)
     /\ fraudCommits' = [fraudCommits EXCEPT ![p].revealed = TRUE]
     /\ Refuted(r, k.challenger)
     /\ balance >= Bond + Reward(balance)
     /\ balance' = balance - (Bond + Reward(balance))
     /\ UNCHANGED <<now, commitOn, withdrawn, configVars, disputeVars>>

\* The old way, while commit and reveal is switched off: the bond comes and goes.
SubmitFraudProof(c, r) ==
  LET reward == Reward(balance + Bond)
  IN /\ ~bridgePaused
     /\ ~commitRevealEnabled
     /\ committedAt[r] # 0
     /\ StillOpen(r)
     /\ InTimeToChallenge(r)
     /\ Refuted(r, c)
     /\ balance' = balance - reward
     /\ UNCHANGED <<now, fraudCommits, commitOn, withdrawn, configVars, disputeVars>>

----------------------------------------------------------------------------
(* The owner, and ETH from anywhere.                                       *)

LongEnough(p) == p >= MinPeriod

UpdateSequencerConfig(p) ==
  /\ LongEnough(p)
  /\ challengePeriod' = p
  /\ UNCHANGED <<bridgeStatus, bridgePaused, commitRevealEnabled>>

SetBridgeStatus(s) ==
  /\ bridgeStatus' = s
  /\ UNCHANGED <<bridgePaused, commitRevealEnabled, challengePeriod>>

PauseBridge(flag) ==
  /\ bridgePaused # flag
  /\ bridgePaused' = flag
  /\ UNCHANGED <<bridgeStatus, commitRevealEnabled, challengePeriod>>

SetCommitRevealEnabled(flag) ==
  /\ commitRevealEnabled' = flag
  /\ UNCHANGED <<bridgeStatus, bridgePaused, challengePeriod>>

Deprecate ==
  /\ ~bridgePaused
  /\ bridgePaused' = TRUE
  /\ bridgeStatus' = "Deprecated"
  /\ UNCHANGED <<commitRevealEnabled, challengePeriod>>

WithdrawFees(amount) ==
  /\ amount <= balance
  /\ balance' = balance - amount
  /\ withdrawn' = withdrawn + amount
  /\ UNCHANGED <<now, configVars, disputeVars, chainVars, fraudVars>>

ReceiveEth(amount) ==
  /\ balance' = balance + amount
  /\ UNCHANGED <<now, withdrawn, configVars, disputeVars, chainVars, fraudVars>>

BridgeOwnerNext ==
  \/ /\ \/ \E p \in Periods : UpdateSequencerConfig(p)
        \/ \E s \in {"Active", "Paused", "Deprecated"} : SetBridgeStatus(s)
        \/ \E flag \in BOOLEAN : PauseBridge(flag) \/ SetCommitRevealEnabled(flag)
        \/ Deprecate
     /\ UNCHANGED <<now, disputeVars, chainVars, fraudVars, moneyVars>>
  \/ \E amount \in Sums : WithdrawFees(amount)

SequencerNext ==
  \/ \E ds \in SUBSET L2Ids \ {{}}, root \in StateRoots : ProcessSettlements(ds, root)
  \/ \E r, prev \in StateRoots : SubmitStateCommitment(r, prev)

ChallengerNext ==
  \/ \E c \in Challengers, p \in Proofs, r \in StateRoots : CommitFraudProof(c, p, r)
  \/ \E p \in Proofs : RevealFraudProof(p)
  \/ \E c \in Challengers, r \in Roots : SubmitFraudProof(c, r)

OthersNext == \/ \E d \in L2Ids : BridgeDisputeToL3(d)
              \/ BridgeOwnerNext
              \/ \E amount \in Sums : ReceiveEth(amount)

BridgeNext ==
  \/ /\ \/ SequencerNext
        \/ \E r \in StateRoots : FinalizeStateCommitment(r)
        \/ ChallengerNext
     /\ UNCHANGED calls
  \/ /\ OthersNext
     /\ calls < MaxCalls                                               \* bound
     /\ calls' = calls + 1
  \/ Tick /\ UNCHANGED bridgeVars

BridgeSpec == BridgeInit /\ [][BridgeNext]_<<now, bridgeVars>>
=============================================================================

--------------------------- MODULE L3BridgeProps ---------------------------
(***************************************************************************)
(* What the bridge must satisfy, and the rollup it implements.             *)
(***************************************************************************)
EXTENDS L3Bridge

\* The type invariant of the bridge; the challenge period never drops below a day,
\* so that the deadline of a commitment never underflows.
BridgeTypeOK ==
  /\ bridgeStatus \in {"Active", "Paused", "Deprecated"}
  /\ bridgePaused \in BOOLEAN
  /\ commitRevealEnabled \in BOOLEAN
  /\ challengePeriod \in Nat
  /\ challengePeriod >= MinPeriod
  /\ l3Of \in [L2Ids -> Nat]
  /\ l3Counter \in Nat
  /\ settled \subseteq L2Ids
  /\ totalSettlements \in Nat
  /\ pendingSettlementsCount \in Nat
  /\ parent \in [StateRoots -> StateRoots]
  /\ committedAt \in [StateRoots -> Nat]
  /\ latestCommittedRoot \in StateRoots
  /\ finalized \subseteq StateRoots
  /\ latestFinalizedRoot \in StateRoots
  /\ challenger \in [StateRoots -> Challengers \cup {Nobody}]
  /\ fraudCommits \in [Proofs -> FraudCommit]
  /\ commitOn \in [StateRoots -> Proofs \cup {NoProof}]
  /\ balance \in Nat
  /\ withdrawn \in Nat

Refutations == {r \in StateRoots : ~Unchallenged(r)}
Since == [r \in StateRoots |-> IF Unchallenged(r) THEN committedAt[r] ELSE 0]

Optimistic == INSTANCE Rollup WITH
  Window <- MinPeriod,
  since <- Since,
  final <- finalized,
  refuted <- Refutations,
  clock <- now

\* The bridge is an optimistic rollup: through pauses, changes of the period and both
\* ways to challenge, a root becomes final only after a day unrefuted, is refuted only
\* while it is not final, and neither is ever taken back.
ImplementsRollup == Optimistic!Spec

----------------------------------------------------------------------------
(* The chain of roots.  A commitment of bytes32(0) breaks it for good: the *)
(* contract takes the latest root for none, and the next may stand on any, *)
(* so that what follows is stated of bridges whose sequencer never did.    *)

ZeroCommitted == committedAt[NoRoot] # 0

\* With each root of S, what it stands on is in S.
Closed(S) == \A z \in S : parent[z] \in S \cup {NoRoot}

\* x and what it stands on, down to what was never committed.
Behind(x) == {y \in Roots : \A S \in SUBSET Roots :
                              Closed(S) /\ x \in S \cup {NoRoot} => y \in S}

\* "This prevents forks where multiple commitments point to the same previousRoot":
\* of the roots nobody refuted, no two stand on the same one, as long as bytes32(0) is
\* not committed as a root.  (The first commitment may name as its parent a root that
\* is committed later, which closes a loop.)
NoForks ==
  ~ZeroCommitted =>
    \A r, s \in Roots :
      /\ r # s
      /\ {committedAt[r], committedAt[s]} \cap {0} = {}
      /\ Unchallenged(r) /\ Unchallenged(s)
      /\ parent[r] = parent[s]
      => /\ parent[r] # NoRoot
         /\ parent[r] \in Behind(parent[parent[r]])

\* Refutations fall back and finalisations come in any order, and still the chain that
\* the next commitment extends holds every final root: none is ever orphaned, as long
\* as bytes32(0) is not committed as a root.
FinalIsInChain == ~ZeroCommitted => finalized \subseteq Behind(latestCommittedRoot)

----------------------------------------------------------------------------
(* Challenges.                                                             *)

\* The root has a commitment whose proof is against it and may still be revealed.
RevealPending(r) ==
  /\ commitOn[r] # NoProof
  /\ commitOn[r].root = r
  /\ LET k == fraudCommits[commitOn[r]]
     IN /\ ~k.revealed
        /\ now <= k.commitTime + MIN_REVEAL_DELAY + MAX_REVEAL_WINDOW
        /\ challengePeriod >= k.period

\* "Verify still in challenge period (with buffer for reveal window)": whoever commits
\* in time is not overtaken by the finalisation of the root before the reveal is due,
\* unless the owner shortens the period in between.
RevealNotOvertaken ==
  [][\A r \in finalized' \ finalized : ~RevealPending(r)]_<<now, bridgeVars>>

----------------------------------------------------------------------------
(* Counters and money.                                                     *)

Bridged == {d \in L2Ids : l3Of[d] # 0}

\* Whatever is settled was bridged, once; the counters count it, and the two ids of a
\* dispute find each other.  And every variable keeps its type.
SettlementsCounted ==
  /\ BridgeTypeOK
  /\ settled \subseteq Bridged
  /\ totalSettlements = Cardinality(settled)
  /\ l3Counter = Cardinality(Bridged)
  /\ pendingSettlementsCount = l3Counter - totalSettlements
  /\ {l3Of[d] : d \in Bridged} = 1 .. l3Counter

\* "The reward pool comes from failed fraud proof bonds that were forfeited": apart from
\* what the owner withdraws, the bridge holds the bond of everyone who may still reveal.
RevealDue(p) ==
  LET k == fraudCommits[p]
  IN /\ k.challenger # Nobody
     /\ ~k.revealed
     /\ now <= k.commitTime + MIN_REVEAL_DELAY + MAX_REVEAL_WINDOW
     /\ StillOpen(p.root)

BondsBacked == balance + withdrawn >= Bond * Cardinality({p \in Proofs : RevealDue(p)})
=============================================================================

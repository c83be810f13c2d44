--------------------------- MODULE L3Bridge_proofs ---------------------------
(***************************************************************************)
(* Proofs about the bridge, for every set of roots and every choice of     *)
(* periods, delays and bonds: it implements the abstract rollup, who       *)
(* commits a fraud proof in time is not overtaken by finalisation, the     *)
(* roots nobody refuted form one chain, and the counters of disputes count *)
(* what was bridged and settled.                                           *)
(***************************************************************************)
EXTENDS L3BridgeProps, FiniteSetTheorems, TLAPS

RootsTyped ==
  /\ now \in Nat \ {0}
  /\ challengePeriod \in Nat
  /\ challengePeriod >= MinPeriod
  /\ committedAt \in [StateRoots -> Nat]
  /\ finalized \subseteq StateRoots
  /\ challenger \in [StateRoots -> Challengers \cup {Nobody}]
  /\ fraudCommits \in [Proofs -> FraudCommit]
  /\ commitOn \in [StateRoots -> Proofs \cup {NoProof}]

\* What is final was committed, and is not refuted.
FinalUnrefuted == \A r \in finalized : committedAt[r] # 0 /\ challenger[r] = Nobody

\* Each fraud proof registered on a root was committed early enough to be revealed
\* within the challenge period of that day.
CommittedInTime ==
  \A r \in StateRoots : commitOn[r] # NoProof =>
    LET k == fraudCommits[commitOn[r]]
    IN /\ committedAt[r] # 0
       /\ k.challenger # Nobody
       /\ k.commitTime + MIN_REVEAL_DELAY + MAX_REVEAL_WINDOW < committedAt[r] + k.period

BInv == RootsTyped /\ FinalUnrefuted /\ CommittedInTime

LEMMA NoProofIsNone == NoProof \notin Proofs
  BY BridgeAssumption DEF BridgeAssumption, NoProof, Proofs

LEMMA BridgeInitInv == BridgeInit => BInv
  <1> SUFFICES ASSUME BridgeInit PROVE BInv
    OBVIOUS
  <1>1. NoCommit \in FraudCommit
    BY DEF NoCommit, FraudCommit
  <1>2. RootsTyped
    BY <1>1, BridgeAssumption DEF BridgeAssumption, BridgeInit, BlockInit, RootsTyped
  <1>3. FinalUnrefuted /\ CommittedInTime
    BY DEF BridgeInit, FinalUnrefuted, CommittedInTime
  <1> QED
    BY <1>2, <1>3 DEF BInv

----------------------------------------------------------------------------
(* The invariant, step by step.                                            *)

LEMMA SubmitInv ==
  ASSUME BInv, NEW r \in StateRoots, NEW prev, SubmitStateCommitment(r, prev)
  PROVE  BInv'
  <1>1. /\ committedAt[r] = 0
        /\ committedAt' = [committedAt EXCEPT ![r] = now]
        /\ UNCHANGED <<now, challengePeriod, finalized, challenger, fraudCommits, commitOn>>
    BY DEF SubmitStateCommitment, configVars, fraudVars
  <1>2. RootsTyped'
    BY <1>1 DEF BInv, RootsTyped
  <1>3. FinalUnrefuted'
    BY <1>1 DEF BInv, RootsTyped, FinalUnrefuted
  <1>4. CommittedInTime'
    BY <1>1 DEF BInv, RootsTyped, CommittedInTime
  <1> QED
    BY <1>2, <1>3, <1>4 DEF BInv

LEMMA FinalizeInv ==
  ASSUME BInv, NEW r \in StateRoots, FinalizeStateCommitment(r)
  PROVE  BInv'
  <1>1. /\ committedAt[r] # 0
        /\ challenger[r] = Nobody
        /\ finalized' = finalized \cup {r}
        /\ UNCHANGED <<now, challengePeriod, committedAt, challenger, fraudCommits, commitOn>>
    BY DEF FinalizeStateCommitment, Unchallenged, configVars, fraudVars
  <1>2. RootsTyped'
    BY <1>1 DEF BInv, RootsTyped
  <1>3. FinalUnrefuted'
    BY <1>1 DEF BInv, FinalUnrefuted
  <1>4. CommittedInTime'
    BY <1>1 DEF BInv, CommittedInTime
  <1> QED
    BY <1>2, <1>3, <1>4 DEF BInv

LEMMA CommitInv ==
  ASSUME BInv, NEW c \in Challengers, NEW p \in Proofs, NEW r \in StateRoots,
         CommitFraudProof(c, p, r)
  PROVE  BInv'
  <1> DEFINE k == [challenger |-> c, commitTime |-> now, revealed |-> FALSE,
                   period |-> challengePeriod]
  <1>1. /\ committedAt[r] # 0
        /\ InTimeToReveal(r)
        /\ fraudCommits[p] = NoCommit
        /\ fraudCommits' = [fraudCommits EXCEPT ![p] = k]
        /\ commitOn' = [commitOn EXCEPT ![r] = p]
        /\ UNCHANGED <<now, challengePeriod, committedAt, finalized, challenger>>
    BY DEF CommitFraudProof, configVars, chainVars
  <1>2. k \in FraudCommit
    BY DEF FraudCommit, BInv, RootsTyped
  <1>3. RootsTyped'
    <2>1. fraudCommits' \in [Proofs -> FraudCommit] /\ commitOn' \in [StateRoots -> Proofs \cup {NoProof}]
      BY <1>1, <1>2 DEF BInv, RootsTyped
    <2> QED
      BY <1>1, <2>1 DEF BInv, RootsTyped
  <1>4. FinalUnrefuted'
    BY <1>1 DEF BInv, FinalUnrefuted
  <1>5. CommittedInTime'
    <2> SUFFICES ASSUME NEW s \in StateRoots, commitOn'[s] # NoProof
                 PROVE  LET j == fraudCommits'[commitOn'[s]]
                        IN /\ committedAt[s] # 0
                           /\ j.challenger # Nobody
                           /\ j.commitTime + MIN_REVEAL_DELAY + MAX_REVEAL_WINDOW
                                < committedAt[s] + j.period
      BY <1>1 DEF CommittedInTime
    <2>1. CASE s = r
      <3>1. commitOn'[s] = p /\ fraudCommits'[p] = k
        BY <1>1, <2>1 DEF BInv, RootsTyped
      <3>2. k.challenger = c /\ k.commitTime = now /\ k.period = challengePeriod
        OBVIOUS
      <3>3. now + MIN_REVEAL_DELAY + MAX_REVEAL_WINDOW < committedAt[r] + challengePeriod
        BY <1>1, BridgeAssumption DEF BridgeAssumption, InTimeToReveal, BInv, RootsTyped
      <3>4. c # Nobody
        BY BridgeAssumption DEF BridgeAssumption
      <3> HIDE DEF k
      <3> QED
        BY <1>1, <2>1, <3>1, <3>2, <3>3, <3>4
    <2>2. CASE s # r
      <3>1. commitOn'[s] = commitOn[s]
        BY <1>1, <2>2 DEF BInv, RootsTyped
      <3>2. fraudCommits[commitOn[s]].challenger # Nobody
        BY <3>1 DEF BInv, CommittedInTime
      <3>3. commitOn[s] # p
        BY <1>1, <3>2 DEF NoCommit
      <3>4. fraudCommits'[commitOn[s]] = fraudCommits[commitOn[s]]
        BY <1>1, <3>1, <3>3 DEF BInv, RootsTyped
      <3> QED
        BY <3>1, <3>4 DEF BInv, CommittedInTime
    <2> QED
      BY <2>1, <2>2
  <1> QED
    BY <1>3, <1>4, <1>5 DEF BInv

LEMMA RevealInv ==
  ASSUME BInv, NEW p \in Proofs, RevealFraudProof(p)
  PROVE  BInv'
  <1> DEFINE k == fraudCommits[p]
  <1>1. /\ k.challenger # Nobody
        /\ p.root \notin finalized
        /\ fraudCommits' = [fraudCommits EXCEPT ![p].revealed = TRUE]
        /\ challenger' = [challenger EXCEPT ![p.root] = k.challenger]
        /\ UNCHANGED <<now, challengePeriod, committedAt, finalized, commitOn>>
    BY DEF RevealFraudProof, StillOpen, Refuted, configVars
  <1>2. k \in FraudCommit
    BY DEF BInv, RootsTyped
  <1>3. RootsTyped'
    <2>1. fraudCommits' \in [Proofs -> FraudCommit]
      BY <1>1 DEF BInv, RootsTyped, FraudCommit
    <2>2. challenger' \in [StateRoots -> Challengers \cup {Nobody}]
      BY <1>1, <1>2 DEF BInv, RootsTyped, FraudCommit
    <2> QED
      BY <1>1, <2>1, <2>2 DEF BInv, RootsTyped
  <1>4. FinalUnrefuted'
    BY <1>1 DEF BInv, RootsTyped, FinalUnrefuted
  <1>5. CommittedInTime'
    <2> SUFFICES ASSUME NEW q \in Proofs
                 PROVE  /\ fraudCommits'[q].challenger = fraudCommits[q].challenger
                        /\ fraudCommits'[q].commitTime = fraudCommits[q].commitTime
                        /\ fraudCommits'[q].period = fraudCommits[q].period
      BY <1>1, NoProofIsNone DEF BInv, RootsTyped, CommittedInTime
    <2>1. fraudCommits[q] \in FraudCommit
      BY DEF BInv, RootsTyped
    <2> QED
      BY <1>1, <2>1 DEF BInv, RootsTyped, FraudCommit
  <1> QED
    BY <1>3, <1>4, <1>5 DEF BInv

LEMMA SubmitFraudInv ==
  ASSUME BInv, NEW c \in Challengers, NEW r \in StateRoots, SubmitFraudProof(c, r)
  PROVE  BInv'
  <1>1. /\ r \notin finalized
        /\ challenger' = [challenger EXCEPT ![r] = c]
        /\ UNCHANGED <<now, challengePeriod, committedAt, finalized, fraudCommits, commitOn>>
    BY DEF SubmitFraudProof, StillOpen, Refuted, configVars
  <1>2. RootsTyped'
    BY <1>1 DEF BInv, RootsTyped
  <1>3. FinalUnrefuted'
    BY <1>1 DEF BInv, RootsTyped, FinalUnrefuted
  <1>4. CommittedInTime'
    BY <1>1 DEF BInv, CommittedInTime
  <1> QED
    BY <1>2, <1>3, <1>4 DEF BInv

\* Steps that touch no root.
RootsStay == UNCHANGED <<committedAt, finalized, challenger, fraudCommits, commitOn>>

LEMMA RestStay ==
  ASSUME \/ OthersNext
         \/ \E ds \in SUBSET L2Ids \ {{}}, root \in StateRoots :
               ProcessSettlements(ds, root)
  PROVE  RootsStay /\ UNCHANGED now
  <1>1. CASE OthersNext
    BY <1>1 DEF OthersNext, BridgeDisputeToL3, BridgeOwnerNext, WithdrawFees, ReceiveEth,
                RootsStay, chainVars, fraudVars
  <1>2. CASE \E ds \in SUBSET L2Ids \ {{}}, root \in StateRoots :
                ProcessSettlements(ds, root)
    BY <1>2 DEF ProcessSettlements, RootsStay, chainVars, fraudVars
  <1> QED
    BY <1>1, <1>2

LEMMA OthersPeriod ==
  ASSUME OthersNext
  PROVE  challengePeriod' = challengePeriod \/
         (challengePeriod' \in Nat /\ challengePeriod' >= MinPeriod)
  BY BridgeAssumption DEF BridgeAssumption, OthersNext, BridgeDisputeToL3, BridgeOwnerNext,
     WithdrawFees, ReceiveEth, UpdateSequencerConfig, LongEnough, SetBridgeStatus, PauseBridge,
     SetCommitRevealEnabled, Deprecate, configVars

LEMMA StayInv ==
  ASSUME BInv, RootsStay, now' \in Nat \ {0},
         challengePeriod' = challengePeriod \/
           (challengePeriod' \in Nat /\ challengePeriod' >= MinPeriod)
  PROVE  BInv'
  <1>1. RootsTyped'
    BY DEF BInv, RootsTyped, RootsStay
  <1>2. FinalUnrefuted' /\ CommittedInTime'
    BY DEF BInv, FinalUnrefuted, CommittedInTime, RootsStay
  <1> QED
    BY <1>1, <1>2 DEF BInv

LEMMA TickStay ==
  ASSUME BInv, Tick, UNCHANGED bridgeVars
  PROVE  RootsStay /\ now' = now + 1 /\ now' \in Nat \ {0} /\ challengePeriod' = challengePeriod
  BY DEF Tick, RootsStay, BInv, RootsTyped, bridgeVars, chainVars, fraudVars, configVars

LEMMA BridgeNextInv == BInv /\ [BridgeNext]_<<now, bridgeVars>> => BInv'
  <1> SUFFICES ASSUME BInv, [BridgeNext]_<<now, bridgeVars>> PROVE BInv'
    OBVIOUS
  <1>0. now \in Nat \ {0}
    BY DEF BInv, RootsTyped
  <1>1. CASE SequencerNext
    <2>1. CASE \E ds \in SUBSET L2Ids \ {{}}, root \in StateRoots :
                  ProcessSettlements(ds, root)
      <3>1. challengePeriod' = challengePeriod
        BY <2>1 DEF ProcessSettlements, configVars
      <3> QED
        BY <1>0, <2>1, <3>1, RestStay, StayInv
    <2>2. CASE \E r, prev \in StateRoots : SubmitStateCommitment(r, prev)
      BY <2>2, SubmitInv
    <2> QED
      BY <1>1, <2>1, <2>2 DEF SequencerNext
  <1>2. CASE \E r \in StateRoots : FinalizeStateCommitment(r)
    BY <1>2, FinalizeInv
  <1>3. CASE ChallengerNext
    BY <1>3, CommitInv, RevealInv, SubmitFraudInv DEF ChallengerNext, StateRoots
  <1>4. CASE OthersNext
    BY <1>0, <1>4, RestStay, OthersPeriod, StayInv
  <1>5. CASE Tick /\ UNCHANGED bridgeVars
    BY <1>5, TickStay, StayInv
  <1>6. CASE UNCHANGED <<now, bridgeVars>>
    BY <1>0, <1>6, StayInv DEF RootsStay, bridgeVars, chainVars, fraudVars, configVars
  <1> QED
    BY <1>1, <1>2, <1>3, <1>4, <1>5, <1>6 DEF BridgeNext

THEOREM BridgeInvariance == BridgeSpec => []BInv
  <1> QED
    BY BridgeInitInv, BridgeNextInv, PTL DEF BridgeSpec

----------------------------------------------------------------------------
(* The abstract rollup.                                                    *)

RollupStep == [Optimistic!Next]_(Optimistic!rollupVars)

LEMMA NoneChanges ==
  ASSUME UNCHANGED <<committedAt, challenger>>
  PROVE  Refutations' = Refutations /\ Since' = Since
  BY DEF Refutations, Since, Unchallenged

LEMMA SubmitRefines ==
  ASSUME BInv, NEW r \in StateRoots, NEW prev, SubmitStateCommitment(r, prev)
  PROVE  RollupStep
  <1>1. /\ committedAt[r] = 0
        /\ committedAt' = [committedAt EXCEPT ![r] = now]
        /\ committedAt \in [StateRoots -> Nat]
        /\ UNCHANGED <<now, finalized, challenger>>
    BY DEF SubmitStateCommitment, fraudVars, BInv, RootsTyped
  <1>2. Refutations' = Refutations
    BY <1>1 DEF Refutations, Unchallenged
  <1>3. CASE Unchallenged(r)
    <2>1. Since[r] = 0 /\ r \notin finalized \cup Refutations
      BY <1>1, <1>3 DEF Since, Refutations, BInv, FinalUnrefuted
    <2>2. Since' = [Since EXCEPT ![r] = now]
      BY <1>1, <1>3 DEF Since, Unchallenged
    <2>3. Optimistic!Propose(r)
      BY <1>1, <1>2, <2>1, <2>2 DEF Optimistic!Propose
    <2> QED
      BY <2>3 DEF RollupStep, Optimistic!Next
  <1>4. CASE ~Unchallenged(r)
    <2>1. Since' = Since
      BY <1>1, <1>4 DEF Since, Unchallenged
    <2> QED
      BY <1>1, <1>2, <2>1 DEF RollupStep, Optimistic!rollupVars
  <1> QED
    BY <1>3, <1>4

LEMMA FinalizeRefines ==
  ASSUME BInv, NEW r \in StateRoots, FinalizeStateCommitment(r)
  PROVE  RollupStep
  <1>1. /\ committedAt[r] # 0 /\ Unchallenged(r) /\ r \notin finalized
        /\ now - committedAt[r] >= challengePeriod
        /\ finalized' = finalized \cup {r}
        /\ UNCHANGED <<now, committedAt, challenger>>
    BY DEF FinalizeStateCommitment, fraudVars
  <1>2. Refutations' = Refutations /\ Since' = Since
    BY <1>1, NoneChanges
  <1>3. Since[r] = committedAt[r] /\ r \notin Refutations
    BY <1>1 DEF Since, Refutations
  <1>4. now >= Since[r] + MinPeriod
    BY <1>1, <1>3, BridgeAssumption DEF BridgeAssumption, BInv, RootsTyped
  <1>5. Optimistic!Finalize(r)
    BY <1>1, <1>2, <1>3, <1>4 DEF Optimistic!Finalize
  <1> QED
    BY <1>5 DEF RollupStep, Optimistic!Next

LEMMA RefutedRefines ==
  ASSUME NEW r \in StateRoots, NEW c, c # Nobody, StillOpen(r), BInv, Refuted(r, c), now' = now
  PROVE  RollupStep
  <1>1. /\ r \notin finalized /\ Unchallenged(r)
        /\ challenger' = [challenger EXCEPT ![r] = c]
        /\ challenger \in [StateRoots -> Challengers \cup {Nobody}]
        /\ UNCHANGED <<committedAt, finalized>>
    BY DEF StillOpen, Refuted, BInv, RootsTyped
  <1>2. challenger'[r] = c /\ \A s \in StateRoots \ {r} : challenger'[s] = challenger[s]
    BY <1>1
  <1>3. r \notin Refutations /\ Refutations' = Refutations \cup {r}
    BY <1>1, <1>2 DEF Refutations, Unchallenged
  <1>4. Since' = [Since EXCEPT ![r] = 0]
    BY <1>1, <1>2 DEF Since, Unchallenged
  <1>5. Optimistic!Refute(r)
    BY <1>1, <1>3, <1>4 DEF Optimistic!Refute
  <1> QED
    BY <1>5 DEF RollupStep, Optimistic!Next

LEMMA BridgeStep == BInv /\ [BridgeNext]_<<now, bridgeVars>> => RollupStep
  <1> SUFFICES ASSUME BInv, [BridgeNext]_<<now, bridgeVars>> PROVE RollupStep
    OBVIOUS
  <1>1. ASSUME UNCHANGED <<now, committedAt, finalized, challenger>> PROVE RollupStep
    BY <1>1, NoneChanges DEF RollupStep, Optimistic!rollupVars
  <1>2. CASE SequencerNext
    <2>1. CASE \E ds \in SUBSET L2Ids \ {{}}, root \in StateRoots :
                  ProcessSettlements(ds, root)
      BY <1>1, <2>1, RestStay DEF RootsStay
    <2>2. CASE \E r, prev \in StateRoots : SubmitStateCommitment(r, prev)
      BY <2>2, SubmitRefines
    <2> QED
      BY <1>2, <2>1, <2>2 DEF SequencerNext
  <1>3. CASE \E r \in StateRoots : FinalizeStateCommitment(r)
    BY <1>3, FinalizeRefines
  <1>4. CASE ChallengerNext
    <2>1. ASSUME NEW c \in Challengers, NEW p \in Proofs, NEW r \in StateRoots,
                 CommitFraudProof(c, p, r)
          PROVE  RollupStep
      BY <1>1, <2>1 DEF CommitFraudProof, chainVars
    <2>2. ASSUME NEW p \in Proofs, RevealFraudProof(p) PROVE RollupStep
      <3>1. p.root \in StateRoots
        BY DEF Proofs, StateRoots
      <3> QED
        BY <2>2, <3>1, RefutedRefines DEF RevealFraudProof
    <2>3. ASSUME NEW c \in Challengers, NEW r \in Roots, SubmitFraudProof(c, r)
          PROVE  RollupStep
      <3>1. c # Nobody
        BY BridgeAssumption DEF BridgeAssumption
      <3> QED
        BY <2>3, <3>1, RefutedRefines DEF SubmitFraudProof, StateRoots
    <2> QED
      BY <1>4, <2>1, <2>2, <2>3 DEF ChallengerNext
  <1>5. CASE OthersNext
    BY <1>1, <1>5, RestStay DEF RootsStay
  <1>6. CASE Tick /\ UNCHANGED bridgeVars
    <2>1. Refutations' = Refutations /\ Since' = Since /\ finalized' = finalized /\ now' = now + 1
      BY <1>6, TickStay, NoneChanges DEF RootsStay
    <2> QED
      BY <2>1 DEF RollupStep, Optimistic!Next, Optimistic!Pass
  <1>7. CASE UNCHANGED <<now, bridgeVars>>
    BY <1>1, <1>7 DEF bridgeVars, chainVars, fraudVars
  <1> QED
    BY <1>2, <1>3, <1>4, <1>5, <1>6, <1>7 DEF BridgeNext

\* The bridge is an optimistic rollup: a root becomes final only after it stood a day
\* unrefuted, whatever the owner sets, and what is final or refuted remains so.
THEOREM RollupImplemented == BridgeSpec => ImplementsRollup
  <1>1. BridgeInit => Optimistic!Init
    BY DEF BridgeInit, BlockInit, Optimistic!Init, Refutations, Since, Unchallenged
  <1>2. BInv /\ [BridgeNext]_<<now, bridgeVars>>
          => [Optimistic!Next]_(Optimistic!rollupVars)
    BY BridgeStep DEF RollupStep
  <1> QED
    BY <1>1, <1>2, BridgeInvariance, PTL DEF BridgeSpec, ImplementsRollup, Optimistic!Spec

----------------------------------------------------------------------------
(* Challengers in time.                                                    *)

LEMMA FinalizeOnTime ==
  ASSUME BInv, NEW r \in StateRoots, FinalizeStateCommitment(r), RevealPending(r)
  PROVE  FALSE
  <1> DEFINE k == fraudCommits[commitOn[r]]
  <1>1. /\ now - committedAt[r] >= challengePeriod
        /\ challengePeriod >= k.period
        /\ now <= k.commitTime + MIN_REVEAL_DELAY + MAX_REVEAL_WINDOW
        /\ commitOn[r] # NoProof
    BY DEF FinalizeStateCommitment, RevealPending
  <1>2. k.commitTime + MIN_REVEAL_DELAY + MAX_REVEAL_WINDOW < committedAt[r] + k.period
    BY <1>1 DEF BInv, CommittedInTime
  <1>3. k.commitTime \in Nat /\ k.period \in Nat
    BY <1>1 DEF BInv, RootsTyped, FraudCommit
  <1>4. committedAt[r] \in Nat /\ now \in Nat /\ challengePeriod \in Nat
    BY DEF BInv, RootsTyped
  <1> HIDE DEF k
  <1> QED
    BY <1>1, <1>2, <1>3, <1>4, BridgeAssumption DEF BridgeAssumption

LEMMA OnlyFinalizeFinalizes ==
  ASSUME [BridgeNext]_<<now, bridgeVars>>, NEW r \in finalized' \ finalized
  PROVE  r \in StateRoots /\ FinalizeStateCommitment(r)
  <1>1. CASE \E s \in StateRoots : FinalizeStateCommitment(s)
    BY <1>1 DEF FinalizeStateCommitment
  <1>2. CASE SequencerNext \/ OthersNext
    <2>1. CASE \E s, prev \in StateRoots : SubmitStateCommitment(s, prev)
      BY <2>1 DEF SubmitStateCommitment
    <2> QED
      BY <1>2, <2>1, RestStay DEF SequencerNext, RootsStay
  <1>3. CASE ChallengerNext
    BY <1>3 DEF ChallengerNext, CommitFraudProof, RevealFraudProof, SubmitFraudProof, Refuted,
                chainVars
  <1>4. CASE UNCHANGED bridgeVars
    BY <1>4 DEF bridgeVars, chainVars
  <1> QED
    BY <1>1, <1>2, <1>3, <1>4 DEF BridgeNext

\* For any delays and periods, a challenger who commits in time may reveal: no
\* finalisation overtakes him unless the owner shortens the period meanwhile.
THEOREM RevealNotOvertakenHolds == BridgeSpec => RevealNotOvertaken
  <1>1. BInv /\ [BridgeNext]_<<now, bridgeVars>>
          => [\A r \in finalized' \ finalized : ~RevealPending(r)]_<<now, bridgeVars>>
    BY OnlyFinalizeFinalizes, FinalizeOnTime
  <1> QED
    BY <1>1, BridgeInvariance, PTL DEF BridgeSpec, RevealNotOvertaken

----------------------------------------------------------------------------
(* Chains.                                                                 *)

ChainTyped == /\ parent \in [StateRoots -> StateRoots]
              /\ latestCommittedRoot \in StateRoots

\* What was not committed stands on nothing.
UncommittedApart == \A r \in Roots : committedAt[r] = 0 => parent[r] = NoRoot

\* The chain that the next commitment extends holds every committed root that
\* nobody refuted.
UnrefutedInChain == \A r \in Roots : committedAt[r] # 0 /\ challenger[r] = Nobody
                                        => r \in Behind(latestCommittedRoot)

ChainInv == ChainTyped /\ UncommittedApart /\ (~ZeroCommitted => UnrefutedInChain)

LEMMA BehindStarts == \A x \in Roots : x \in Behind(x)
  BY BridgeAssumption DEF BridgeAssumption, Behind

LEMMA BehindNone == \A y : y \notin Behind(NoRoot)
  <1>1. Closed({}) /\ {} \in SUBSET Roots
    BY DEF Closed
  <1> QED
    BY <1>1 DEF Behind

LEMMA BehindClosed ==
  ASSUME ChainTyped, NEW x, NEW z \in Behind(x), parent[z] # NoRoot
  PROVE  parent[z] \in Behind(x)
  <1>1. ASSUME NEW S \in SUBSET Roots, Closed(S), x \in S \cup {NoRoot}
        PROVE  parent[z] \in S
    BY <1>1 DEF Behind, Closed
  <1>2. parent[z] \in Roots
    BY DEF ChainTyped, Behind, StateRoots
  <1> QED
    BY <1>1, <1>2 DEF Behind

\* The chain from x is x and the chain from what it stands on.
LEMMA BehindNext ==
  ASSUME ChainTyped, NEW x \in Roots, NEW y \in Behind(x), y # x
  PROVE  y \in Behind(parent[x])
  <1>1. ASSUME NEW S \in SUBSET Roots, Closed(S), parent[x] \in S \cup {NoRoot}
        PROVE  y \in S
    <2>1. Closed(S \cup {x})
      BY <1>1 DEF Closed
    <2>2. S \cup {x} \in SUBSET Roots /\ x \in (S \cup {x}) \cup {NoRoot}
      OBVIOUS
    <2>3. y \in S \cup {x}
      BY <2>1, <2>2 DEF Behind
    <2> QED
      BY <2>3
  <1> QED
    BY <1>1 DEF Behind

\* Of two roots on a chain, one is behind the other.
LEMMA OnOneChain ==
  ASSUME ChainTyped, NEW x \in StateRoots, NEW r \in Behind(x), NEW s \in Behind(x)
  PROVE  r \in Behind(s) \/ s \in Behind(r)
  <1> DEFINE T == {z \in Roots : r \in Behind(z) \/ z \in Behind(r)}
  <1>1. Closed(T)
    <2> SUFFICES ASSUME NEW z \in T, parent[z] # NoRoot PROVE parent[z] \in T
      BY DEF Closed
    <2>1. parent[z] \in Roots /\ r \in Roots
      BY DEF ChainTyped, Behind, StateRoots
    <2>2. CASE z \in Behind(r)
      BY <2>1, <2>2, BehindClosed
    <2>3. CASE r \in Behind(z) /\ z # r
      BY <2>1, <2>3, BehindNext
    <2>4. CASE z = r
      BY <2>1, <2>4, BehindStarts, BehindClosed
    <2> QED
      BY <2>2, <2>3, <2>4
  <1>2. x \in T \cup {NoRoot}
    BY DEF StateRoots
  <1>3. s \in T
    <2>1. T \in SUBSET Roots
      OBVIOUS
    <2> HIDE DEF T
    <2> QED
      BY <1>1, <1>2, <2>1 DEF Behind
  <1> QED
    BY <1>3

LEMMA ChainInit == BridgeInit => ChainInv
  <1> SUFFICES ASSUME BridgeInit PROVE ChainInv
    OBVIOUS
  <1>1. ChainTyped /\ UncommittedApart /\ UnrefutedInChain
    BY DEF BridgeInit, ChainTyped, UncommittedApart, UnrefutedInChain, StateRoots
  <1> QED
    BY <1>1 DEF ChainInv

LEMMA SubmitChain ==
  ASSUME BInv, ChainInv, NEW r \in StateRoots, NEW prev \in StateRoots,
         SubmitStateCommitment(r, prev)
  PROVE  ChainInv'
  <1>1. /\ committedAt[r] = 0
        /\ latestCommittedRoot # NoRoot => prev = latestCommittedRoot
        /\ parent' = [parent EXCEPT ![r] = prev]
        /\ committedAt' = [committedAt EXCEPT ![r] = now]
        /\ latestCommittedRoot' = r
        /\ challenger' = challenger
        /\ now # 0
    BY DEF SubmitStateCommitment, StandsOnLast, fraudVars, BInv, RootsTyped
  <1>2. /\ ChainTyped /\ committedAt \in [StateRoots -> Nat]
        /\ r \in Roots => parent[r] = NoRoot
    BY <1>1 DEF ChainInv, UncommittedApart, BInv, RootsTyped
  <1>3. ChainTyped'
    BY <1>1, <1>2 DEF ChainTyped
  <1>4. UncommittedApart'
    BY <1>1, <1>2 DEF ChainInv, ChainTyped, UncommittedApart, StateRoots
  <1>5. ASSUME ~ZeroCommitted' PROVE r \in Roots /\ UnrefutedInChain
    <2>1. r # NoRoot
      BY <1>1, <1>2, <1>5 DEF ZeroCommitted
    <2>2. ~ZeroCommitted
      BY <1>1, <1>2, <1>5, <2>1 DEF ZeroCommitted, StateRoots
    <2> QED
      BY <2>1, <2>2 DEF StateRoots, ChainInv
  <1>6. ASSUME ~ZeroCommitted', NEW y \in Roots, y # r, committedAt'[y] # 0,
               challenger'[y] = Nobody, NEW S \in SUBSET Roots, Closed(S)', r \in S
        PROVE  y \in S
    <2>1. y \in Behind(latestCommittedRoot)
      BY <1>1, <1>2, <1>5, <1>6 DEF UnrefutedInChain, StateRoots
    <2>2. latestCommittedRoot # NoRoot
      BY <2>1, BehindNone
    <2>3. parent'[r] = latestCommittedRoot
      BY <1>1, <1>2, <2>2 DEF ChainTyped
    <2>4. latestCommittedRoot \in S
      BY <1>6, <2>2, <2>3 DEF Closed
    <2>5. Closed(S)
      BY <1>1, <1>2, <1>5, <1>6 DEF Closed, ChainTyped, StateRoots
    <2> QED
      BY <2>1, <2>4, <2>5 DEF Behind
  <1>7. ASSUME ~ZeroCommitted' PROVE UnrefutedInChain'
    <2> SUFFICES ASSUME NEW y \in Roots, committedAt'[y] # 0, challenger'[y] = Nobody,
                        NEW S \in SUBSET Roots, Closed(S)', latestCommittedRoot' \in S \cup {NoRoot}
                 PROVE  y \in S
      BY DEF UnrefutedInChain, Behind
    <2>1. r \in S
      BY <1>1, <1>5, <1>7, BridgeAssumption DEF BridgeAssumption
    <2> QED
      BY <1>6, <1>7, <2>1
  <1> QED
    BY <1>3, <1>4, <1>7 DEF ChainInv

LEMMA RefutedChain ==
  ASSUME BInv, ChainInv, NEW r \in Roots, NEW c, c # Nobody, Refuted(r, c)
  PROVE  ChainInv'
  <1>1. /\ challenger' = [challenger EXCEPT ![r] = c]
        /\ latestCommittedRoot' = IF latestCommittedRoot = r THEN parent[r] ELSE latestCommittedRoot
        /\ UNCHANGED <<parent, committedAt>>
        /\ challenger \in [StateRoots -> Challengers \cup {Nobody}]
        /\ r \in StateRoots
    BY DEF Refuted, BInv, RootsTyped, StateRoots
  <1>2. ChainTyped' /\ UncommittedApart'
    BY <1>1 DEF ChainInv, ChainTyped, UncommittedApart
  <1>3. ASSUME ~ZeroCommitted' PROVE UnrefutedInChain'
    <2>a. UnrefutedInChain
      BY <1>1, <1>3 DEF ChainInv, ZeroCommitted
    <2> SUFFICES ASSUME NEW y \in Roots, committedAt'[y] # 0, challenger'[y] = Nobody
                 PROVE  y \in Behind(latestCommittedRoot)'
      BY DEF UnrefutedInChain
    <2>1. y # r /\ y \in Behind(latestCommittedRoot)
      BY <1>1, <2>a DEF UnrefutedInChain, StateRoots
    <2>2. CASE latestCommittedRoot = r
      <3>1. y \in Behind(parent[r])
        BY <2>1, <2>2, BehindNext DEF ChainInv
      <3> QED
        BY <1>1, <2>2, <3>1 DEF Behind, Closed
    <2>3. CASE latestCommittedRoot # r
      BY <1>1, <2>1, <2>3 DEF Behind, Closed
    <2> QED
      BY <2>2, <2>3
  <1> QED
    BY <1>2, <1>3 DEF ChainInv

LEMMA ChainKept ==
  ASSUME ChainInv, UNCHANGED <<parent, committedAt, latestCommittedRoot, challenger>>
  PROVE  ChainInv'
  BY DEF ChainInv, ChainTyped, UncommittedApart, UnrefutedInChain, Behind, Closed,
     ZeroCommitted

LEMMA ChainStep == BInv /\ ChainInv /\ [BridgeNext]_<<now, bridgeVars>> => ChainInv'
  <1> SUFFICES ASSUME BInv, ChainInv, [BridgeNext]_<<now, bridgeVars>> PROVE ChainInv'
    OBVIOUS
  <1>1. ASSUME UNCHANGED chainVars, UNCHANGED challenger PROVE ChainInv'
    BY <1>1, ChainKept DEF chainVars
  <1>2. CASE SequencerNext
    <2>1. CASE \E r, prev \in StateRoots : SubmitStateCommitment(r, prev)
      BY <2>1, SubmitChain
    <2>2. CASE \E ds \in SUBSET L2Ids \ {{}}, root \in StateRoots :
                  ProcessSettlements(ds, root)
      BY <1>1, <2>2 DEF ProcessSettlements, fraudVars
    <2> QED
      BY <1>2, <2>1, <2>2 DEF SequencerNext
  <1>3. CASE \E r \in StateRoots : FinalizeStateCommitment(r)
    BY <1>3, ChainKept DEF FinalizeStateCommitment, fraudVars
  <1>4. CASE ChallengerNext
    <2>1. ASSUME NEW c \in Challengers, NEW p \in Proofs, NEW r \in StateRoots,
                 CommitFraudProof(c, p, r)
          PROVE  ChainInv'
      BY <1>1, <2>1 DEF CommitFraudProof
    <2>2. ASSUME NEW p \in Proofs, RevealFraudProof(p) PROVE ChainInv'
      <3>1. p.root \in Roots
        BY DEF Proofs
      <3> QED
        BY <2>2, <3>1, RefutedChain DEF RevealFraudProof
    <2>3. ASSUME NEW c \in Challengers, NEW r \in Roots, SubmitFraudProof(c, r)
          PROVE  ChainInv'
      <3>1. c # Nobody
        BY BridgeAssumption DEF BridgeAssumption
      <3> QED
        BY <2>3, <3>1, RefutedChain DEF SubmitFraudProof
    <2> QED
      BY <1>4, <2>1, <2>2, <2>3 DEF ChallengerNext
  <1>5. CASE OthersNext
    BY <1>1, <1>5 DEF OthersNext, BridgeDisputeToL3, BridgeOwnerNext, WithdrawFees, ReceiveEth,
                      fraudVars
  <1>6. CASE UNCHANGED bridgeVars
    BY <1>1, <1>6 DEF bridgeVars, fraudVars
  <1> QED
    BY <1>2, <1>3, <1>4, <1>5, <1>6 DEF BridgeNext

THEOREM ChainInvariance == BridgeSpec => [](BInv /\ ChainInv)
  <1>1. BridgeInit => BInv /\ ChainInv
    BY BridgeInitInv, ChainInit
  <1>2. BInv /\ ChainInv /\ [BridgeNext]_<<now, bridgeVars>> => BInv' /\ ChainInv'
    BY BridgeNextInv, ChainStep
  <1> QED
    BY <1>1, <1>2, PTL DEF BridgeSpec

\* However many roots are committed, refuted and finalised in whatever order, none
\* that is final leaves the chain the next commitment extends, until bytes32(0) is
\* committed as a root.
THEOREM FinalIsInChainHolds == BridgeSpec => []FinalIsInChain
  <1>1. BInv /\ ChainInv => FinalIsInChain
    <2> SUFFICES ASSUME BInv, UnrefutedInChain, ~ZeroCommitted, NEW r \in finalized
                 PROVE  r \in Behind(latestCommittedRoot)
      BY DEF ChainInv, FinalIsInChain
    <2>1. committedAt[r] # 0 /\ challenger[r] = Nobody /\ r \in StateRoots
      BY DEF BInv, RootsTyped, FinalUnrefuted
    <2>2. r \in Roots
      BY <2>1 DEF ZeroCommitted, StateRoots
    <2> QED
      BY <2>1, <2>2 DEF UnrefutedInChain
  <1> QED
    BY <1>1, ChainInvariance, PTL

\* Until bytes32(0) is committed as a root, unrefuted roots are all on one chain, so two
\* of them stand on the same one only if the first commitment closed a loop.
THEOREM NoForksHolds == BridgeSpec => []NoForks
  <1>1. ASSUME ChainTyped, NEW r \in Roots, NEW s \in Behind(r), r # s, parent[r] = parent[s]
        PROVE  parent[r] # NoRoot /\ parent[r] \in Behind(parent[parent[r]])
    <2> DEFINE p == parent[r]
    <2>1. s \in Behind(p)
      BY <1>1, BehindNext
    <2>2. p # NoRoot
      BY <2>1, BehindNone
    <2>3. p \in Roots
      BY <1>1, <2>2 DEF ChainTyped, StateRoots
    <2>4. CASE s = p
      <3>1. parent[p] = p
        BY <1>1, <2>4
      <3>2. p \in Behind(p)
        BY <2>3, BehindStarts
      <3> QED
        BY <2>2, <3>1, <3>2
    <2>5. CASE s # p
      <3>1. s \in Behind(parent[p])
        BY <1>1, <2>1, <2>3, <2>5, BehindNext
      <3> QED
        BY <1>1, <2>2, <3>1, BehindClosed
    <2> QED
      BY <2>2, <2>4, <2>5
  <1>2. BInv /\ ChainInv => NoForks
    <2> SUFFICES ASSUME ChainInv, NEW r \in Roots, NEW s \in Roots, r # s,
                        committedAt[r] # 0, committedAt[s] # 0,
                        Unchallenged(r), Unchallenged(s), parent[r] = parent[s], ~ZeroCommitted
                 PROVE  parent[r] # NoRoot /\ parent[r] \in Behind(parent[parent[r]])
      BY DEF NoForks
    <2>1. r \in Behind(latestCommittedRoot) /\ s \in Behind(latestCommittedRoot)
      BY DEF ChainInv, UnrefutedInChain, Unchallenged, StateRoots
    <2>2. r \in Behind(s) \/ s \in Behind(r)
      BY <2>1, OnOneChain DEF ChainInv, ChainTyped
    <2>3. CASE s \in Behind(r)
      BY <1>1, <2>3 DEF ChainInv
    <2>4. CASE r \in Behind(s)
      <3>1. parent[s] # NoRoot /\ parent[s] \in Behind(parent[parent[s]])
        BY <1>1, <2>4 DEF ChainInv
      <3> QED
        BY <3>1
    <2> QED
      BY <2>2, <2>3, <2>4
  <1> QED
    BY <1>2, ChainInvariance, PTL

----------------------------------------------------------------------------
(* Types.                                                                  *)

\* What has to do with neither roots nor disputes.
RestTyped ==
  /\ bridgeStatus \in {"Active", "Paused", "Deprecated"}
  /\ bridgePaused \in BOOLEAN
  /\ commitRevealEnabled \in BOOLEAN
  /\ latestFinalizedRoot \in StateRoots
  /\ balance \in Nat
  /\ withdrawn \in Nat

LEMMA RewardBounds ==
  ASSUME NEW held \in Nat
  PROVE  /\ Reward(held) \in Nat
         /\ Reward(held) <= (IF held > Bond THEN held - Bond ELSE 0)
  <1>1. (Bond * FRAUD_REWARD_BPS) \div 10000 \in Nat
    BY BridgeAssumption DEF BridgeAssumption, FRAUD_REWARD_BPS
  <1> QED
    BY <1>1, BridgeAssumption DEF BridgeAssumption, Reward, Lower

LEMMA RestTypedInit == BridgeInit => RestTyped
  <1> SUFFICES ASSUME BridgeInit PROVE RestTyped
    OBVIOUS
  <1>1. bridgePaused \in BOOLEAN /\ commitRevealEnabled \in BOOLEAN
    BY DEF BridgeInit
  <1>2. /\ bridgeStatus \in {"Active", "Paused", "Deprecated"}
        /\ latestFinalizedRoot \in StateRoots
        /\ balance \in Nat
        /\ withdrawn \in Nat
    BY DEF BridgeInit, StateRoots
  <1> QED
    BY <1>1, <1>2, Zenon DEF RestTyped

LEMMA RestTypedStep == RestTyped /\ [BridgeNext]_<<now, bridgeVars>> => RestTyped'
  <1> SUFFICES ASSUME RestTyped, [BridgeNext]_<<now, bridgeVars>> PROVE RestTyped'
    OBVIOUS
  <1>1. ASSUME UNCHANGED <<bridgeStatus, bridgePaused, commitRevealEnabled>>,
               latestFinalizedRoot' \in StateRoots, balance' \in Nat, withdrawn' \in Nat
        PROVE  RestTyped'
    BY <1>1 DEF RestTyped
  <1>2. ASSUME UNCHANGED <<configVars, moneyVars, latestFinalizedRoot>> PROVE RestTyped'
    BY <1>2 DEF RestTyped, configVars, moneyVars
  <1>3. balance \in Nat /\ withdrawn \in Nat /\ Bond \in Nat /\ Sums \subseteq Nat
    BY BridgeAssumption DEF BridgeAssumption, RestTyped
  <1>4. CASE SequencerNext
    BY <1>2, <1>4 DEF SequencerNext, ProcessSettlements, SubmitStateCommitment, chainVars
  <1>5. ASSUME NEW r \in StateRoots, FinalizeStateCommitment(r) PROVE RestTyped'
    BY <1>5 DEF FinalizeStateCommitment, RestTyped, configVars, moneyVars
  <1>6. ASSUME NEW c \in Challengers, NEW p \in Proofs, NEW r \in StateRoots, CommitFraudProof(c, p, r)
        PROVE  RestTyped'
    BY <1>3, <1>6 DEF CommitFraudProof, RestTyped, configVars, chainVars
  <1>7. ASSUME NEW p \in Proofs, RevealFraudProof(p) PROVE RestTyped'
    <2>1. /\ balance >= Bond + Reward(balance)
          /\ balance' = balance - (Bond + Reward(balance))
      BY <1>7 DEF RevealFraudProof
    <2>2. balance' \in Nat
      BY <1>3, <2>1, RewardBounds
    <2> QED
      BY <1>7, <2>2 DEF RevealFraudProof, Refuted, RestTyped, configVars
  <1>8. ASSUME NEW c \in Challengers, NEW r \in Roots, SubmitFraudProof(c, r) PROVE RestTyped'
    <2>1. balance' = balance - Reward(balance + Bond)
      BY <1>8 DEF SubmitFraudProof
    <2>2. balance' \in Nat
      <3>1. balance + Bond \in Nat
        BY <1>3
      <3>2. Reward(balance + Bond) \in Nat /\ Reward(balance + Bond) <= balance
        BY <1>3, <3>1, RewardBounds
      <3> QED
        BY <1>3, <2>1, <3>2
    <2> QED
      BY <1>8, <2>2 DEF SubmitFraudProof, Refuted, RestTyped, configVars
  <1>9. CASE OthersNext
    <2>1. ASSUME NEW d \in L2Ids, BridgeDisputeToL3(d) PROVE RestTyped'
      BY <1>2, <2>1 DEF BridgeDisputeToL3, chainVars
    <2>2. ASSUME NEW amount \in Sums, ReceiveEth(amount) \/ WithdrawFees(amount)
          PROVE  RestTyped'
      BY <1>3, <2>2 DEF ReceiveEth, WithdrawFees, RestTyped, configVars, chainVars
    <2>3. CASE /\ \/ \E p \in Periods : UpdateSequencerConfig(p)
                  \/ \E s \in {"Active", "Paused", "Deprecated"} : SetBridgeStatus(s)
                  \/ \E flag \in BOOLEAN : PauseBridge(flag) \/ SetCommitRevealEnabled(flag)
                  \/ Deprecate
               /\ UNCHANGED <<now, disputeVars, chainVars, fraudVars, moneyVars>>
      BY <2>3 DEF UpdateSequencerConfig, SetBridgeStatus, PauseBridge, SetCommitRevealEnabled,
         Deprecate, RestTyped, chainVars, moneyVars
    <2> QED
      BY <1>9, <2>1, <2>2, <2>3 DEF OthersNext, BridgeOwnerNext
  <1>10. CASE UNCHANGED bridgeVars
    BY <1>2, <1>10 DEF bridgeVars, chainVars
  <1> QED
    BY <1>4, <1>5, <1>6, <1>7, <1>8, <1>9, <1>10 DEF BridgeNext, ChallengerNext

----------------------------------------------------------------------------
(* Disputes across the bridge.                                             *)

BridgedIds == {l3Of[d] : d \in Bridged}

DisputesTyped == /\ l3Of \in [L2Ids -> Nat]
                 /\ l3Counter \in Nat
                 /\ settled \subseteq L2Ids

CountsInv ==
  /\ DisputesTyped
  /\ settled \subseteq Bridged
  /\ totalSettlements = Cardinality(settled)
  /\ l3Counter = Cardinality(Bridged)
  /\ pendingSettlementsCount = l3Counter - totalSettlements
  /\ BridgedIds = 1 .. l3Counter

LEMMA CountsInit == BridgeInit => CountsInv
  <1> SUFFICES ASSUME BridgeInit PROVE CountsInv
    OBVIOUS
  <1>1. Bridged = {} /\ settled = {} /\ l3Counter = 0 /\ totalSettlements = 0
        /\ pendingSettlementsCount = 0
    BY DEF BridgeInit, Bridged
  <1>2. BridgedIds = 1 .. l3Counter
    BY <1>1 DEF BridgedIds
  <1>3. DisputesTyped
    BY DEF BridgeInit, DisputesTyped
  <1> QED
    BY <1>1, <1>2, <1>3, FS_EmptySet DEF CountsInv

LEMMA BridgeDisputeCounts ==
  ASSUME CountsInv, NEW d \in L2Ids, BridgeDisputeToL3(d)
  PROVE  CountsInv'
  <1>1. /\ l3Of[d] = 0
        /\ l3Counter' = l3Counter + 1
        /\ l3Of' = [l3Of EXCEPT ![d] = l3Counter + 1]
        /\ pendingSettlementsCount' = pendingSettlementsCount + 1
        /\ UNCHANGED <<settled, totalSettlements>>
    BY DEF BridgeDisputeToL3
  <1>2. /\ l3Of \in [L2Ids -> Nat] /\ l3Counter \in Nat /\ settled \subseteq Bridged
        /\ l3Counter = Cardinality(Bridged) /\ totalSettlements = Cardinality(settled)
        /\ IsFiniteSet(Bridged) /\ d \notin Bridged
    <2>1. Bridged \in SUBSET L2Ids /\ d \notin Bridged
      BY <1>1 DEF Bridged
    <2> QED
      BY <2>1, FS_Subset, BridgeAssumption DEF BridgeAssumption, CountsInv, DisputesTyped
  <1>3. /\ l3Of'[d] = l3Counter + 1
        /\ \A e \in L2Ids \ {d} : l3Of'[e] = l3Of[e]
    BY <1>1, <1>2
  <1>4. Bridged' = Bridged \cup {d}
    BY <1>2, <1>3 DEF Bridged
  <1>5. Cardinality(Bridged') = l3Counter + 1
    BY <1>2, <1>4, FS_AddElement
  <1>6. BridgedIds' = BridgedIds \cup {l3Counter + 1}
    <2>1. BridgedIds' = {l3Of'[e] : e \in Bridged \cup {d}}
      BY <1>4 DEF BridgedIds
    <2>2. \A e \in Bridged : l3Of'[e] = l3Of[e]
      BY <1>2, <1>3 DEF Bridged
    <2> QED
      BY <1>3, <2>1, <2>2 DEF BridgedIds
  <1>7. BridgedIds' = 1 .. l3Counter'
    <2>1. 1 .. (l3Counter + 1) = (1 .. l3Counter) \cup {l3Counter + 1}
      BY <1>2
    <2> QED
      BY <1>1, <1>6, <2>1 DEF CountsInv
  <1>8. DisputesTyped' /\ (settled \subseteq Bridged)'
    BY <1>1, <1>2, <1>4 DEF CountsInv, DisputesTyped
  <1>9. pendingSettlementsCount' = l3Counter' - totalSettlements'
    <2>1. totalSettlements \in Nat
      BY <1>2, FS_Subset, FS_CardinalityType
    <2> QED
      BY <1>1, <1>2, <2>1 DEF CountsInv
  <1> QED
    BY <1>1, <1>2, <1>5, <1>7, <1>8, <1>9 DEF CountsInv

LEMMA SettleCounts ==
  ASSUME CountsInv, NEW ds \in SUBSET L2Ids, NEW root, ProcessSettlements(ds, root)
  PROVE  CountsInv'
  <1>1. /\ \A d \in ds : l3Of[d] # 0 /\ d \notin settled
        /\ settled' = settled \cup ds
        /\ totalSettlements' = totalSettlements + Cardinality(ds)
        /\ pendingSettlementsCount' = pendingSettlementsCount - Cardinality(ds)
        /\ UNCHANGED <<l3Of, l3Counter>>
    BY DEF ProcessSettlements, Settleable
  <1>2. /\ IsFiniteSet(settled) /\ IsFiniteSet(ds)
        /\ Cardinality(settled) \in Nat /\ Cardinality(ds) \in Nat
        /\ l3Counter \in Nat
    BY FS_Subset, FS_CardinalityType, BridgeAssumption
       DEF BridgeAssumption, CountsInv, DisputesTyped
  <1>3. Cardinality(settled \cup ds) = Cardinality(settled) + Cardinality(ds)
    <2>1. settled \cap ds = {}
      BY <1>1
    <2>2. Cardinality(settled \cap ds) = 0
      BY <2>1, FS_EmptySet
    <2>3. Cardinality(settled \cup ds)
            = Cardinality(settled) + Cardinality(ds) - Cardinality(settled \cap ds)
      BY <1>2, FS_Union
    <2> QED
      BY <1>2, <2>2, <2>3
  <1>4. /\ Bridged' = Bridged /\ BridgedIds' = BridgedIds
        /\ settled' \subseteq Bridged
    BY <1>1 DEF Bridged, BridgedIds, CountsInv
  <1>5. pendingSettlementsCount' = l3Counter' - totalSettlements'
    BY <1>1, <1>2, SMTT(30) DEF CountsInv
  <1> QED
    BY <1>1, <1>2, <1>3, <1>4, <1>5 DEF CountsInv, DisputesTyped

LEMMA CountsStep == CountsInv /\ [BridgeNext]_<<now, bridgeVars>> => CountsInv'
  <1> SUFFICES ASSUME CountsInv, [BridgeNext]_<<now, bridgeVars>> PROVE CountsInv'
    OBVIOUS
  <1>1. ASSUME UNCHANGED disputeVars PROVE CountsInv'
    BY <1>1 DEF disputeVars, CountsInv, DisputesTyped, Bridged, BridgedIds
  <1>2. CASE SequencerNext
    BY <1>1, <1>2, SettleCounts DEF SequencerNext, SubmitStateCommitment
  <1>3. CASE \E r \in StateRoots : FinalizeStateCommitment(r)
    BY <1>1, <1>3 DEF FinalizeStateCommitment
  <1>4. CASE ChallengerNext
    BY <1>1, <1>4 DEF ChallengerNext, CommitFraudProof, RevealFraudProof, SubmitFraudProof
  <1>5. CASE OthersNext
    BY <1>1, <1>5, BridgeDisputeCounts DEF OthersNext, BridgeOwnerNext, WithdrawFees, ReceiveEth
  <1>6. CASE UNCHANGED bridgeVars
    BY <1>1, <1>6 DEF bridgeVars
  <1> QED
    BY <1>2, <1>3, <1>4, <1>5, <1>6 DEF BridgeNext

\* Any number of disputes bridged one by one and settled singly or in batches: none is
\* settled twice, the counters count them, and no two share an id on the rollup.
THEOREM SettlementsCountedHolds == BridgeSpec => []SettlementsCounted
  <1>1. BridgeInit => RestTyped /\ CountsInv
    BY RestTypedInit, CountsInit
  <1>2. RestTyped /\ CountsInv /\ [BridgeNext]_<<now, bridgeVars>> => RestTyped' /\ CountsInv'
    BY RestTypedStep, CountsStep
  <1>3. BInv /\ ChainInv /\ RestTyped /\ CountsInv => SettlementsCounted
    <2> SUFFICES ASSUME BInv, ChainInv, RestTyped, CountsInv PROVE SettlementsCounted
      OBVIOUS
    <2>1. /\ totalSettlements \in Nat /\ pendingSettlementsCount \in Nat
      <3>1. /\ IsFiniteSet(Bridged) /\ settled \in SUBSET Bridged
            /\ l3Counter = Cardinality(Bridged) /\ totalSettlements = Cardinality(settled)
            /\ pendingSettlementsCount = l3Counter - totalSettlements
        <4>1. Bridged \in SUBSET L2Ids
          BY DEF Bridged
        <4> QED
          BY <4>1, FS_Subset, BridgeAssumption DEF BridgeAssumption, CountsInv
      <3>2. /\ Cardinality(settled) <= Cardinality(Bridged)
            /\ Cardinality(settled) \in Nat /\ Cardinality(Bridged) \in Nat
        BY <3>1, FS_Subset, FS_CardinalityType
      <3> QED
        BY <3>1, <3>2
    <2>2. BridgeTypeOK
      BY <2>1 DEF BInv, RootsTyped, ChainInv, ChainTyped, RestTyped, CountsInv, DisputesTyped,
                  BridgeTypeOK
    <2> QED
      BY <2>2 DEF CountsInv, BridgedIds, SettlementsCounted
  <1> QED
    BY <1>1, <1>2, <1>3, ChainInvariance, PTL DEF BridgeSpec
=============================================================================

---------------------------- MODULE SubgraphProps ----------------------------
(* What a reader of the subgraph may rely on.                              *)
EXTENDS Subgraph

\* Disputes of the contract that the subgraph knows of.
Indexed == DOMAIN index.disputes \ {Voluntary}

ShownAs(e, x) ==
  /\ e.initiator = x.initiator
  /\ e.counterparty = x.counterparty
  /\ e.stake["counterparty"] = x.counterpartyStake
  /\ e.counterCount = x.counterCount
  /\ e.accepted \subseteq x.accepted
  /\ x.resolved => e.state = "RESOLVED" /\ e.outcome = OutcomeName(x.outcome)
  /\ ~x.resolved => e.state = (IF x.counterpartyStake > 0 THEN "ACTIVE" ELSE "INITIATED")
  /\ ~x.resolved => e.outcome = ""

\* Whatever block indexing starts at, a dispute the subgraph shows is the
\* contract's: the same parties, matched stake, round, state and outcome, and
\* no acceptance that the contract does not hold.
DisputesMirrored == \A d \in Indexed : ShownAs(index.disputes[d], disputes[d])

Sum(table, f) == SumFunction([k \in DOMAIN table |-> table[k][f]])
InvolvedIn(p) == {d \in Indexed : p \in {disputes[d].initiator, disputes[d].counterparty}}
With(ds, outcome) == Cardinality({d \in ds : disputes[d].outcome = outcome})

\* The totals, the days and the parties tell the same story: every dispute is
\* counted once by the totals and once by each side; every voluntary request
\* leaves one active dispute behind for good; each party's tallies are those of
\* its own disputes, and a burn is shared out but for an odd token.
MetricsAddUp ==
  LET total == index.protocol
      open  == {d \in Indexed : ~disputes[d].resolved}
  IN /\ total.totalDisputes = Cardinality(Indexed) + heard
     /\ total.activeDisputes = Cardinality(open) + heard
     /\ total.activeDisputes + total.resolvedDisputes = total.totalDisputes
     /\ Sum(index.parties, "totalDisputes") = 2 * total.totalDisputes
     /\ \A p \in DOMAIN index.parties :
           /\ index.parties[p].disputesResolved = With(InvolvedIn(p), "AcceptedProposal")
           /\ index.parties[p].disputesTimedOut = With(InvolvedIn(p), "TimeoutWithBurn")
     /\ Sum(index.daily, "disputesInitiated") = total.totalDisputes
     /\ Sum(index.daily, "disputesResolved") = total.resolvedDisputes
     /\ Sum(index.daily, "disputesTimedOut") = total.timedOutDisputes
     /\ Sum(index.daily, "counterProposals") = total.totalCounterProposals
     /\ Sum(index.daily, "totalBurned") = total.totalValueBurned
     /\ total.totalValueBurned - Sum(index.parties, "totalBurned")
           \in 0 .. total.timedOutDisputes
     /\ total.totalValueBurned <= burned
=============================================================================

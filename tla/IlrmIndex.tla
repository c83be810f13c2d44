------------------------------ MODULE IlrmIndex ------------------------------
(***************************************************************************)
(* The subgraph's handlers of ILRM's events: each takes the entity store   *)
(* and an event to the store after it.  An entity exists when its id is in *)
(* the domain of its table, so Entity.load(id) == null is id \notin DOMAIN.*)
(*                                                                         *)
(* Left out of the entities: addresses, hashes and texts that are copied   *)
(* from the event and never read again, and the timestamps beside them.    *)
(***************************************************************************)
EXTENDS Naturals, FiniteSets, Sequences

IndexRoles == {"initiator", "counterparty"}

NewParty == [totalDisputes |-> 0, disputesResolved |-> 0, disputesTimedOut |-> 0,
             totalStaked |-> 0, totalBurned |-> 0]

NewDaily == [disputesInitiated |-> 0, disputesResolved |-> 0, disputesTimedOut |-> 0,
             totalStaked |-> 0, totalBurned |-> 0, counterProposals |-> 0, proposals |-> 0]

NewProtocol == [totalDisputes |-> 0, activeDisputes |-> 0, resolvedDisputes |-> 0,
                timedOutDisputes |-> 0, totalValueStaked |-> 0, totalValueBurned |-> 0,
                totalCounterProposals |-> 0]

NewDispute(p, c) ==
  [initiator |-> p, counterparty |-> c,
   stake |-> [r \in IndexRoles |-> 0],
   state |-> "INITIATED",
   outcome |-> "",                      \* null until an outcome is known
   accepted |-> {},                     \* the roles whose flag is set
   counterCount |-> 0, burnAmount |-> 0]

EmptyStore == [disputes |-> << >>, parties |-> << >>, proposals |-> << >>,
               counters |-> << >>, daily |-> << >>, protocol |-> NewProtocol]

Known(s, d) == d \in DOMAIN s.disputes

Save(table, id, entity) ==
  [x \in DOMAIN table \cup {id} |-> IF x = id THEN entity ELSE table[x]]

GetOrCreate(table, id, fresh) == IF id \in DOMAIN table THEN table[id] ELSE fresh

RoleOf(e, p) == IF p = e.initiator THEN {"initiator"}
                ELSE IF p = e.counterparty THEN {"counterparty"} ELSE {}

\* Add the given amounts to counters of a record.
Plus(counters, amounts) ==
  [f \in DOMAIN counters |->
     counters[f] + IF f \in DOMAIN amounts THEN amounts[f] ELSE 0]

OnDay(s, day, amounts) ==
  [s EXCEPT !.daily = Save(@, day, Plus(GetOrCreate(@, day, NewDaily), amounts))]
InTotal(s, amounts) == [s EXCEPT !.protocol = Plus(@, amounts)]

\* Counters of a party that may not be known: one that is not is left alone.
ForParty(parties, p, amounts) ==
  IF p \in DOMAIN parties THEN Save(parties, p, Plus(parties[p], amounts)) ELSE parties

Joins(parties, p) ==
  Save(parties, p, Plus(GetOrCreate(parties, p, NewParty), [totalDisputes |-> 1]))

----------------------------------------------------------------------------
HandleDisputeInitiated(s, d, p, c, day) ==
  LET t == [s EXCEPT !.parties = Joins(Joins(@, p), c),
                     !.disputes = Save(@, d, NewDispute(p, c))]
  IN InTotal(OnDay(t, day, [disputesInitiated |-> 1]),
             [totalDisputes |-> 1, activeDisputes |-> 1])

HandleStakeDeposited(s, d, p, amount, day) ==
  LET e     == s.disputes[d]
      roles == RoleOf(e, p)
      after == [e EXCEPT !.stake = [r \in IndexRoles |-> IF r \in roles THEN amount ELSE @[r]],
                         !.state = IF "counterparty" \in roles THEN "ACTIVE" ELSE @]
      t     == [s EXCEPT !.disputes = Save(@, d, after),
                         !.parties = ForParty(@, p, [totalStaked |-> amount])]
  IN IF ~Known(s, d) THEN s
     ELSE InTotal(OnDay(t, day, [totalStaked |-> amount]), [totalValueStaked |-> amount])

\* The first free index of a dispute's proposals is their number.
HandleProposalSubmitted(s, d, text, day) ==
  LET t == [s EXCEPT !.proposals = Save(@, d, Append(GetOrCreate(@, d, << >>), text)),
                     !.disputes[d].accepted = {}]
  IN IF ~Known(s, d) THEN s ELSE OnDay(t, day, [proposals |-> 1])

HandleAcceptanceSignaled(s, d, p) ==
  IF ~Known(s, d) THEN s
  ELSE [s EXCEPT !.disputes[d].accepted = @ \cup RoleOf(s.disputes[d], p)]

\* Without the reset of the flags.
CounterProposedKeeping(s, d, p, number, day) ==
  LET t == [s EXCEPT !.counters = Save(@, <<d, number>>, p),
                     !.disputes[d].counterCount = number]
  IN IF ~Known(s, d) THEN s
     ELSE InTotal(OnDay(t, day, [counterProposals |-> 1]), [totalCounterProposals |-> 1])
HandleCounterProposed(s, d, p, number, day) ==
  LET t == [s EXCEPT !.counters = Save(@, <<d, number>>, p),
                     !.disputes[d].counterCount = number,
                     !.disputes[d].accepted = {}]
  IN IF ~Known(s, d) THEN s
     ELSE InTotal(OnDay(t, day, [counterProposals |-> 1]), [totalCounterProposals |-> 1])

HandleStakesBurned(s, d, burnt, day) ==
  LET e    == s.disputes[d]
      half == [totalBurned |-> burnt \div 2]
      t    == [s EXCEPT !.disputes[d].burnAmount = burnt,
                        !.parties = ForParty(ForParty(@, e.initiator, half), e.counterparty, half)]
  IN IF ~Known(s, d) THEN s
     ELSE InTotal(OnDay(t, day, [totalBurned |-> burnt]), [totalValueBurned |-> burnt])

HandleDefaultLicenseApplied(s, d) ==
  IF ~Known(s, d) THEN s ELSE [s EXCEPT !.disputes[d].outcome = "DEFAULT_LICENSE_APPLIED"]

OutcomeName(outcome) ==
  IF outcome = "AcceptedProposal" THEN "ACCEPTED_PROPOSAL"
  ELSE IF outcome = "TimeoutWithBurn" THEN "TIMEOUT_WITH_BURN"
  ELSE IF outcome = "DefaultLicenseApplied" THEN "DEFAULT_LICENSE_APPLIED" ELSE "PENDING"

One(condition) == IF condition THEN 1 ELSE 0

\* The count of active disputes is left where it was.
DisputeResolvedStillActive(s, d, outcome, day) ==
  LET e        == s.disputes[d]
      timedOut == One(outcome = "TimeoutWithBurn")
      credit   == [disputesResolved |-> One(outcome = "AcceptedProposal"),
                   disputesTimedOut |-> timedOut]
      t        == [s EXCEPT !.disputes[d].state = "RESOLVED",
                            !.disputes[d].outcome = OutcomeName(outcome),
                            !.parties = ForParty(ForParty(@, e.initiator, credit),
                                                 e.counterparty, credit)]
      u        == OnDay(t, day, [disputesResolved |-> 1, disputesTimedOut |-> timedOut])
  IN IF ~Known(s, d) THEN s
     ELSE InTotal(u, [resolvedDisputes |-> 1, timedOutDisputes |-> timedOut])
HandleDisputeResolved(s, d, outcome, day) ==
  LET t == DisputeResolvedStillActive(s, d, outcome, day)
  IN IF ~Known(s, d) THEN s ELSE [t EXCEPT !.protocol.activeDisputes = @ - 1]
=============================================================================

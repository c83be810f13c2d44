--------------------------- MODULE Subgraph_proofs ---------------------------
(***************************************************************************)
(* Proofs about the subgraph: whatever block indexing starts at, what it   *)
(* shows of a dispute is what the contract holds, and its totals, days and *)
(* parties agree with the disputes and with one another.                   *)
(*                                                                         *)
(* Each handler is summed up by what it books for two parties, the day and *)
(* the protocol, and by the entity it saves; a step of the contract keeps  *)
(* the metrics when what is booked is what it does to the disputes.        *)
(***************************************************************************)
EXTENDS SubgraphProps, ILRM_proofs

----------------------------------------------------------------------------
(* Tables of counters.                                                     *)

\* The counters of a party, a day and the protocol.
PartyCounters == {"totalDisputes", "disputesResolved", "disputesTimedOut",
                  "totalStaked", "totalBurned"}
DailyCounters == {"disputesInitiated", "disputesResolved", "disputesTimedOut",
                  "totalStaked", "totalBurned", "counterProposals", "proposals"}
ProtocolCounters == {"totalDisputes", "activeDisputes", "resolvedDisputes",
                     "timedOutDisputes", "totalValueStaked", "totalValueBurned",
                     "totalCounterProposals"}

\* What a set of amounts adds to a counter.
Amount(amounts, f) == IF f \in DOMAIN amounts THEN amounts[f] ELSE 0

\* A counter of an entity, which is 0 as long as the entity is not there.
At(table, id, f) == IF id \in DOMAIN table THEN table[id][f] ELSE 0

\* Finitely many entities, each with these counters.
IsTable(table, counters) ==
  /\ IsFiniteSet(DOMAIN table)
  /\ \A id \in DOMAIN table : table[id] \in [counters -> Int]

\* What is added to counters: integers.
Amounts(amounts) == \A f \in DOMAIN amounts : amounts[f] \in Int

\* What a handler does to an entity that it reads or creates, and saves.
Add(table, id, fresh, amounts) == Save(table, id, Plus(GetOrCreate(table, id, fresh), amounts))

\* Only the entity id of the table changes.
Saved(after, table, id, entity) ==
  /\ DOMAIN after = DOMAIN table \cup {id}
  /\ after[id] = entity
  /\ \A x \in DOMAIN table : x # id => after[x] = table[x]

\* What Save does to a table.
LEMMA SaveIs ==
  ASSUME NEW table, NEW id, NEW entity
  PROVE  Saved(Save(table, id, entity), table, id, entity)
  BY DEF Save, Saved

\* Plus adds to each counter the amount given for it.
LEMMA PlusIs ==
  ASSUME NEW C, NEW counters \in [C -> Int], NEW amounts, Amounts(amounts)
  PROVE  /\ Plus(counters, amounts) \in [C -> Int]
         /\ \A f \in C : Plus(counters, amounts)[f] = counters[f] + Amount(amounts, f)
  BY DEF Plus, Amount, Amounts

Added(after, table, id, amounts, C) ==
  /\ IsTable(after, C)
  /\ DOMAIN after = DOMAIN table \cup {id}
  /\ \A x, f : f \in C =>
        At(after, x, f) = At(table, x, f) + IF x = id THEN Amount(amounts, f) ELSE 0
  /\ \A f \in C : Sum(after, f) = Sum(table, f) + Amount(amounts, f)

\* What a new entity of a table starts with.
Zeros(fresh, C) == fresh \in [C -> Int] /\ \A f \in C : fresh[f] = 0

\* Adding to the counters of one entity, new or not, adds to their sums.
LEMMA AddIs ==
  ASSUME NEW C, NEW table, IsTable(table, C), NEW id, NEW fresh, Zeros(fresh, C),
         NEW amounts, Amounts(amounts)
  PROVE  Added(Add(table, id, fresh, amounts), table, id, amounts, C)
  <1> DEFINE old == GetOrCreate(table, id, fresh)
             new == Plus(old, amounts)
             after == Save(table, id, new)
  <1>1. old \in [C -> Int] /\ \A f \in C : old[f] = At(table, id, f)
    BY DEF GetOrCreate, IsTable, At, Zeros
  <1>2. new \in [C -> Int] /\ \A f \in C : new[f] = old[f] + Amount(amounts, f)
    BY <1>1, PlusIs
  <1> HIDE DEF new, old
  <1>3. /\ DOMAIN after = DOMAIN table \cup {id}
        /\ after[id] = new
        /\ \A x \in DOMAIN table : x # id => after[x] = table[x]
    <2>1. Saved(after, table, id, new)
      BY SaveIs
    <2> QED
      BY <2>1 DEF Saved
  <1>0. Add(table, id, fresh, amounts) = after
    BY DEF Add, new, old
  <1> HIDE DEF after
  <1>4. IsFiniteSet(DOMAIN after)
    BY <1>3, FS_AddElement DEF IsTable
  <1>5. IsTable(after, C)
    BY <1>2, <1>3, <1>4 DEF IsTable
  <1>6. ASSUME NEW x, NEW f \in C
        PROVE  At(after, x, f) = At(table, x, f) + IF x = id THEN Amount(amounts, f) ELSE 0
    <2>1. CASE x = id
      BY <1>1, <1>2, <1>3, <2>1 DEF At
    <2>2. CASE x # id /\ x \in DOMAIN table
      <3>1. table[x][f] \in Int
        BY <2>2 DEF IsTable
      <3> QED
        BY <1>3, <2>2, <3>1 DEF At
    <2>3. CASE x # id /\ x \notin DOMAIN table
      BY <1>3, <2>3 DEF At
    <2> QED
      BY <2>1, <2>2, <2>3
  <1>7. ASSUME NEW f \in C
        PROVE  Sum(after, f) = Sum(table, f) + Amount(amounts, f)
    <2> DEFINE S == DOMAIN table
               g == [k \in DOMAIN table |-> table[k][f]]
               h == [k \in DOMAIN after |-> after[k][f]]
               all == S \cup {id}
    <2>1. Sum(table, f) = SumFunctionOnSet(g, S) /\ Sum(after, f) = SumFunctionOnSet(h, all)
      BY <1>3 DEF Sum, SumFunction
    <2>2. IsFiniteSet(S) /\ IsFiniteSet(all)
      BY <1>3, <1>4 DEF IsTable
    <2>3. IsIntOn(g, S) /\ IsIntOn(h, all)
      BY <1>3, <1>5 DEF IsTable, IsIntOn
    <2>4. SumFunctionOnSet(h, all) = h[id] + SumFunctionOnSet(h, all \ {id})
      BY <2>2, <2>3, SumRemove
    <2>5. h[id] = At(table, id, f) + Amount(amounts, f)
      BY <1>1, <1>2, <1>3
    <2>6. \A x \in S \ {id} : g[x] = h[x]
      BY <1>3
    <2>7. IsFiniteSet(S \ {id}) /\ IsIntOn(g, S \ {id})
      BY <2>2, <2>3, FS_RemoveElement DEF IsIntOn
    <2>8. SumFunctionOnSet(g, S \ {id}) = SumFunctionOnSet(h, S \ {id})
      BY <2>6, <2>7, SumCongruence
    <2>9. SumFunctionOnSet(g, S) = At(table, id, f) + SumFunctionOnSet(g, S \ {id})
      <3>1. CASE id \in S
        <4>1. SumFunctionOnSet(g, S) = g[id] + SumFunctionOnSet(g, S \ {id})
          BY <2>2, <2>3, <3>1, SumRemove
        <4>2. g[id] = At(table, id, f)
          BY <3>1 DEF At
        <4> QED
          BY <4>1, <4>2
      <3>2. CASE id \notin S
        <4> DEFINE rest == S \ {id}
        <4>1. rest = S /\ At(table, id, f) = 0
          BY <3>2 DEF At
        <4>2. SumFunctionOnSet(g, S) \in Int
          BY <2>2, <2>3, SumRemove
        <4> HIDE DEF g, S, rest
        <4>3. SumFunctionOnSet(g, S) = At(table, id, f) + SumFunctionOnSet(g, rest)
          BY <4>1, <4>2
        <4> QED
          BY <4>3 DEF rest
      <3> QED
        BY <3>1, <3>2
    <2>10. SumFunctionOnSet(g, S \ {id}) \in Int
      BY <2>7, SumRemove
    <2>11. all \ {id} = S \ {id}
      OBVIOUS
    <2>12. At(table, id, f) \in Int /\ Amount(amounts, f) \in Int
      BY <1>1 DEF Amount, Amounts
    <2>13. SumFunctionOnSet(h, all)
             = (At(table, id, f) + Amount(amounts, f)) + SumFunctionOnSet(g, S \ {id})
      BY <2>4, <2>5, <2>8, <2>11
    <2> HIDE DEF g, h, S, all
    <2> QED
      BY <2>1, <2>9, <2>10, <2>12, <2>13
  <1> QED
    BY <1>0, <1>3, <1>5, <1>6, <1>7 DEF Added

\* The counters of a table and their sums are numbers.
LEMMA CounterSum ==
  ASSUME NEW C, NEW table, IsTable(table, C), NEW f \in C
  PROVE  Sum(table, f) \in Int /\ \A x : At(table, x, f) \in Int
  <1> DEFINE g == [k \in DOMAIN table |-> table[k][f]]
  <1>1. IsFiniteSet(DOMAIN table) /\ IsIntOn(g, DOMAIN table)
    BY DEF IsTable, IsIntOn
  <1>2. SumFunctionOnSet(g, DOMAIN table) \in Int
    BY <1>1, SumRemove
  <1>3. Sum(table, f) = SumFunctionOnSet(g, DOMAIN table)
    BY DEF Sum, SumFunction
  <1>4. \A x : At(table, x, f) \in Int
    BY DEF At, IsTable
  <1> HIDE DEF g
  <1> QED
    BY <1>2, <1>3, <1>4

----------------------------------------------------------------------------
(* The store.                                                              *)

\* The tables and counters of a store, and what is kept of a dispute.
StoreFields == {"disputes", "parties", "proposals", "counters", "daily", "protocol"}
EntityFields == {"initiator", "counterparty", "stake", "state", "outcome", "accepted",
                 "counterCount", "burnAmount"}

\* Each table holds what its entities keep.
IsStore(s) ==
  /\ StoreFields \subseteq DOMAIN s
  /\ \A d \in DOMAIN s.disputes : EntityFields \subseteq DOMAIN s.disputes[d]
  /\ IsTable(s.parties, PartyCounters) /\ DOMAIN s.parties \subseteq Accounts
  /\ IsTable(s.daily, DailyCounters)
  /\ s.protocol \in [ProtocolCounters -> Int]

\* The counters of a party that MetricsAddUp speaks of.
Tallies == PartyCounters \ {"totalStaked"}

\* Those among them that it speaks of for each party by itself.
PartyTallies == Tallies \ {"totalDisputes"}

\* The parties in who are each added some amounts; none is, and who is empty, or two.
\* (A voluntary request to oneself books both halves on one party.)
PartiesBooked(before, after, who, each) ==
  /\ IsTable(after, PartyCounters)
  /\ DOMAIN after = DOMAIN before \cup who
  /\ \A p, f : f \in PartyTallies =>
        At(after, p, f) = At(before, p, f) + IF p \in who THEN Amount(each, f) ELSE 0
  /\ \A f \in Tallies : Sum(after, f) = Sum(before, f) + 2 * Amount(each, f)

\* The days together gain these amounts, whichever of them gets them.
DaysBooked(before, after, amounts) ==
  /\ IsTable(after, DailyCounters)
  /\ \A f \in DailyCounters : Sum(after, f) = Sum(before, f) + Amount(amounts, f)

\* So does the protocol.
TotalBooked(before, after, amounts) ==
  /\ after \in [ProtocolCounters -> Int]
  /\ \A f \in ProtocolCounters : after[f] = before[f] + Amount(amounts, f)

\* From store s to store t, whatever becomes of the disputes.
Booked(s, t, who, each, ofDay, inTotal) ==
  /\ IsStore(t)
  /\ PartiesBooked(s.parties, t.parties, who, each)
  /\ DaysBooked(s.daily, t.daily, ofDay)
  /\ TotalBooked(s.protocol, t.protocol, inTotal)

\* No amounts at all.
Nothing == [f \in {} |-> 0]

\* New entities start with every counter at 0.
LEMMA NewCounters == /\ Zeros(NewParty, PartyCounters)
                     /\ Zeros(NewDaily, DailyCounters)
                     /\ Zeros(NewProtocol, ProtocolCounters)
  BY DEF Zeros, NewParty, NewDaily, NewProtocol, PartyCounters, DailyCounters, ProtocolCounters

\* Tables that stay as they are.
LEMMA NothingBooked ==
  ASSUME NEW s, IsStore(s)
  PROVE  /\ PartiesBooked(s.parties, s.parties, {}, Nothing)
         /\ DaysBooked(s.daily, s.daily, Nothing)
         /\ TotalBooked(s.protocol, s.protocol, Nothing)
  <1>1. \A f : Amount(Nothing, f) = 0
    BY DEF Amount, Nothing
  <1>2. IsTable(s.parties, PartyCounters) /\ IsTable(s.daily, DailyCounters)
        /\ s.protocol \in [ProtocolCounters -> Int]
    BY DEF IsStore
  <1>3. \A f \in PartyCounters : Sum(s.parties, f) \in Int /\ \A p : At(s.parties, p, f) \in Int
    BY <1>2, CounterSum
  <1>4. \A f \in DailyCounters : Sum(s.daily, f) \in Int
    BY <1>2, CounterSum
  <1>5. PartiesBooked(s.parties, s.parties, {}, Nothing)
    BY <1>1, <1>2, <1>3 DEF PartiesBooked, PartyTallies, Tallies
  <1>6. DaysBooked(s.daily, s.daily, Nothing)
    BY <1>1, <1>2, <1>4 DEF DaysBooked
  <1>7. TotalBooked(s.protocol, s.protocol, Nothing)
    BY <1>1, <1>2 DEF TotalBooked
  <1> QED
    BY <1>5, <1>6, <1>7

\* Two parties are added the same amounts.
LEMMA BothAdded ==
  ASSUME NEW parties, IsTable(parties, PartyCounters), NEW p, NEW c,
         NEW each, Amounts(each), p # c \/ \A f \in PartyTallies : Amount(each, f) = 0
  PROVE  PartiesBooked(parties, Add(Add(parties, p, NewParty, each), c, NewParty, each),
                       {p, c}, each)
  <1> DEFINE first == Add(parties, p, NewParty, each)
             second == Add(first, c, NewParty, each)
  <1>1. Added(first, parties, p, each, PartyCounters)
    BY NewCounters, AddIs
  <1> HIDE DEF first
  <1>2. IsTable(first, PartyCounters)
    BY <1>1 DEF Added
  <1>3. Added(second, first, c, each, PartyCounters)
    BY <1>2, NewCounters, AddIs
  <1> HIDE DEF second
  <1>4. \A f \in PartyCounters : /\ Sum(parties, f) \in Int
                                 /\ Amount(each, f) \in Int
                                 /\ \A x : At(parties, x, f) \in Int
    BY CounterSum DEF Amount, Amounts
  <1>5. \A x, f : f \in PartyTallies => At(second, x, f) =
             At(parties, x, f) + IF x \in {p, c} THEN Amount(each, f) ELSE 0
    BY <1>1, <1>3, <1>4 DEF Added, Tallies, PartyTallies
  <1>6. \A f \in Tallies : Sum(second, f) = Sum(parties, f) + 2 * Amount(each, f)
    BY <1>1, <1>3, <1>4 DEF Added, Tallies
  <1>7. DOMAIN second = DOMAIN parties \cup {p, c} /\ IsTable(second, PartyCounters)
    BY <1>1, <1>3 DEF Added
  <1>8. PartiesBooked(parties, second, {p, c}, each)
    BY <1>5, <1>6, <1>7 DEF PartiesBooked
  <1> QED
    BY <1>8 DEF second, first

\* The same for parties that are known.
LEMMA ForPartyAdds ==
  ASSUME NEW parties, NEW p \in DOMAIN parties, NEW each
  PROVE  ForParty(parties, p, each) = Add(parties, p, NewParty, each)
  BY Zenon DEF ForParty, Add, GetOrCreate

\* ForParty, twice, for two parties that are known.
LEMMA ForBoth ==
  ASSUME NEW parties, IsTable(parties, PartyCounters), NEW p \in DOMAIN parties,
         NEW c \in DOMAIN parties, p # c, NEW each, Amounts(each)
  PROVE  PartiesBooked(parties, ForParty(ForParty(parties, p, each), c, each), {p, c}, each)
  <1> DEFINE first == Add(parties, p, NewParty, each)
  <1>1. ForParty(parties, p, each) = first
    BY ForPartyAdds
  <1>2. DOMAIN first = DOMAIN parties \cup {p}
    <2>1. Added(first, parties, p, each, PartyCounters)
      BY NewCounters, AddIs
    <2> QED
      BY <2>1 DEF Added
  <1>3. ForParty(first, c, each) = Add(first, c, NewParty, each)
    BY <1>2, ForPartyAdds
  <1> QED
    BY <1>1, <1>3, BothAdded

\* OnDay changes the daily table only.
LEMMA DayIs ==
  ASSUME NEW s, StoreFields \subseteq DOMAIN s, IsTable(s.daily, DailyCounters),
         NEW day, NEW amounts, Amounts(amounts), NEW t, t = OnDay(s, day, amounts)
  PROVE  /\ DOMAIN t = DOMAIN s
         /\ t.disputes = s.disputes /\ t.parties = s.parties /\ t.protocol = s.protocol
         /\ DaysBooked(s.daily, t.daily, amounts)
  <1> DEFINE daily == Add(s.daily, day, NewDaily, amounts)
  <1>1. Added(daily, s.daily, day, amounts, DailyCounters)
    BY NewCounters, AddIs
  <1>2. t = [s EXCEPT !.daily = daily]
    BY DEF OnDay, Add
  <1> HIDE DEF daily
  <1>3. /\ t.disputes = s.disputes /\ t.parties = s.parties /\ t.protocol = s.protocol
        /\ t.daily = daily /\ DOMAIN t = DOMAIN s
    BY <1>2 DEF StoreFields
  <1> QED
    BY <1>1, <1>3 DEF Added, DaysBooked

\* InTotal changes the protocol's counters only.
LEMMA TotalIs ==
  ASSUME NEW s, StoreFields \subseteq DOMAIN s, s.protocol \in [ProtocolCounters -> Int],
         NEW amounts, Amounts(amounts), NEW t, t = InTotal(s, amounts)
  PROVE  /\ DOMAIN t = DOMAIN s
         /\ t.disputes = s.disputes /\ t.parties = s.parties /\ t.daily = s.daily
         /\ TotalBooked(s.protocol, t.protocol, amounts)
  <1> DEFINE protocol == Plus(s.protocol, amounts)
  <1>1. TotalBooked(s.protocol, protocol, amounts)
    BY PlusIs DEF TotalBooked
  <1>2. t = [s EXCEPT !.protocol = protocol]
    BY DEF InTotal
  <1> HIDE DEF protocol
  <1>3. /\ t.disputes = s.disputes /\ t.parties = s.parties /\ t.daily = s.daily
        /\ t.protocol = protocol /\ DOMAIN t = DOMAIN s
    BY <1>2 DEF StoreFields
  <1> QED
    BY <1>1, <1>3

\* A store is booked when its parties, its days and its totals are.
LEMMA Assembled ==
  ASSUME NEW s, IsStore(s), NEW t, StoreFields \subseteq DOMAIN t,
         NEW d, NEW e, EntityFields \subseteq DOMAIN e, Saved(t.disputes, s.disputes, d, e),
         NEW who, who \subseteq Accounts, NEW each, NEW ofDay, NEW inTotal,
         PartiesBooked(s.parties, t.parties, who, each),
         DaysBooked(s.daily, t.daily, ofDay), TotalBooked(s.protocol, t.protocol, inTotal)
  PROVE  Booked(s, t, who, each, ofDay, inTotal)
  <1>1. \A x \in DOMAIN t.disputes : EntityFields \subseteq DOMAIN t.disputes[x]
    BY DEF Saved, IsStore
  <1>2. IsTable(t.parties, PartyCounters) /\ DOMAIN t.parties \subseteq Accounts
    BY DEF PartiesBooked, IsStore
  <1>3. IsTable(t.daily, DailyCounters) /\ t.protocol \in [ProtocolCounters -> Int]
    BY DEF DaysBooked, TotalBooked
  <1> QED
    BY <1>1, <1>2, <1>3 DEF IsStore, Booked

\* A handler changes one dispute and some parties, and then books the day and the total.
LEMMA BooksAre ==
  ASSUME NEW s, IsStore(s), NEW u, StoreFields \subseteq DOMAIN u,
         u.daily = s.daily, u.protocol = s.protocol,
         NEW d, NEW e, EntityFields \subseteq DOMAIN e, Saved(u.disputes, s.disputes, d, e),
         NEW who, NEW each, PartiesBooked(s.parties, u.parties, who, each),
         who \subseteq Accounts,
         NEW day, NEW ofDay, Amounts(ofDay), NEW inTotal, Amounts(inTotal)
  PROVE  LET t == InTotal(OnDay(u, day, ofDay), inTotal)
         IN Booked(s, t, who, each, ofDay, inTotal) /\ Saved(t.disputes, s.disputes, d, e)
  <1> DEFINE v == OnDay(u, day, ofDay)
             t == InTotal(v, inTotal)
  <1>1. /\ DOMAIN v = DOMAIN u
        /\ v.disputes = u.disputes /\ v.parties = u.parties /\ v.protocol = u.protocol
        /\ DaysBooked(u.daily, v.daily, ofDay)
    BY DayIs DEF IsStore
  <1> HIDE DEF v
  <1>2. /\ DOMAIN t = DOMAIN v
        /\ t.disputes = v.disputes /\ t.parties = v.parties /\ t.daily = v.daily
        /\ TotalBooked(v.protocol, t.protocol, inTotal)
    BY <1>1, TotalIs DEF IsStore
  <1> HIDE DEF t
  <1>3. StoreFields \subseteq DOMAIN t
    BY <1>1, <1>2
  <1>4. Booked(s, t, who, each, ofDay, inTotal)
    BY <1>1, <1>2, <1>3, Assembled
  <1>5. Saved(t.disputes, s.disputes, d, e)
    BY <1>1, <1>2
  <1> QED
    BY <1>4, <1>5 DEF t, v

----------------------------------------------------------------------------
(* What each handler books, and the entity it leaves of the dispute.       *)

\* Replacing an entity that is there saves it.
LEMMA SavedExcept ==
  ASSUME NEW table, NEW d \in DOMAIN table, NEW e
  PROVE  Saved([table EXCEPT ![d] = e], table, d, e)
  BY DEF Saved

\* DisputeInitiated counts one dispute, for both parties, the day and the protocol.
LEMMA InitiatedIs ==
  ASSUME NEW s, IsStore(s), NEW d, NEW p \in Accounts, NEW c \in Accounts, NEW day,
         NEW t, t = HandleDisputeInitiated(s, d, p, c, day)
  PROVE  /\ Booked(s, t, {p, c}, [totalDisputes |-> 1], [disputesInitiated |-> 1],
                   [totalDisputes |-> 1, activeDisputes |-> 1])
         /\ Saved(t.disputes, s.disputes, d, NewDispute(p, c))
  <1> DEFINE each == [totalDisputes |-> 1]
             ofDay == [disputesInitiated |-> 1]
             inTotal == [totalDisputes |-> 1, activeDisputes |-> 1]
             parties == Add(Add(s.parties, p, NewParty, each), c, NewParty, each)
             all == Save(s.disputes, d, NewDispute(p, c))
             u == [s EXCEPT !.parties = parties, !.disputes = all]
  <1>1. Amounts(each) /\ Amounts(ofDay) /\ Amounts(inTotal)
    BY DEF Amounts
  <1>2. PartiesBooked(s.parties, parties, {p, c}, each)
    <2>1. \A f \in PartyTallies : Amount(each, f) = 0
      BY DEF Amount, PartyTallies
    <2> QED
      BY <1>1, <2>1, BothAdded DEF IsStore
  <1>3. Saved(all, s.disputes, d, NewDispute(p, c))
    BY SaveIs
  <1>4. EntityFields \subseteq DOMAIN NewDispute(p, c)
    BY DEF NewDispute, EntityFields
  <1>5. t = InTotal(OnDay(u, day, ofDay), inTotal)
    BY DEF HandleDisputeInitiated, Joins, Add
  <1> HIDE DEF each, ofDay, inTotal, parties, all
  <1>6. /\ u.daily = s.daily /\ u.protocol = s.protocol
        /\ u.parties = parties /\ u.disputes = all /\ DOMAIN u = DOMAIN s
    BY DEF IsStore, StoreFields
  <1>7. StoreFields \subseteq DOMAIN u
    BY <1>6 DEF IsStore
  <1> HIDE DEF u
  <1>8. /\ Booked(s, t, {p, c}, each, ofDay, inTotal)
        /\ Saved(t.disputes, s.disputes, d, NewDispute(p, c))
    BY <1>1, <1>2, <1>3, <1>4, <1>5, <1>6, <1>7, BooksAre
  <1> QED
    BY <1>8 DEF each, ofDay, inTotal

\* A deposit leaves the tallies of MetricsAddUp alone.
StakeShown(e, amount) ==
  [e EXCEPT !.stake = [r \in IndexRoles |-> IF r = "counterparty" THEN amount ELSE e.stake[r]],
            !.state = "ACTIVE"]

\* StakeDeposited makes the dispute active and books the stake.
LEMMA DepositedIs ==
  ASSUME NEW s, IsStore(s), NEW d, Known(s, d), NEW amount \in Int, NEW day,
         s.disputes[d].initiator # s.disputes[d].counterparty,
         NEW t, t = HandleStakeDeposited(s, d, s.disputes[d].counterparty, amount, day)
  PROVE  /\ Booked(s, t, {}, Nothing, [totalStaked |-> amount], [totalValueStaked |-> amount])
         /\ Saved(t.disputes, s.disputes, d, StakeShown(s.disputes[d], amount))
  <1> DEFINE e == s.disputes[d]
             p == e.counterparty
             each == [totalStaked |-> amount]
             ofDay == [totalStaked |-> amount]
             inTotal == [totalValueStaked |-> amount]
             parties == ForParty(s.parties, p, each)
             after == StakeShown(e, amount)
             all == Save(s.disputes, d, after)
             u == [s EXCEPT !.disputes = all, !.parties = parties]
  <1>1. Amounts(each) /\ Amounts(ofDay) /\ Amounts(inTotal)
    BY DEF Amounts
  <1>2. PartiesBooked(s.parties, parties, {}, Nothing)
    <2>1. CASE p \in DOMAIN s.parties
      <3>1. Added(parties, s.parties, p, each, PartyCounters)
        <4>1. parties = Add(s.parties, p, NewParty, each)
          BY <2>1, ForPartyAdds
        <4>2. Added(Add(s.parties, p, NewParty, each), s.parties, p, each, PartyCounters)
          BY <1>1, NewCounters, AddIs DEF IsStore
        <4> QED
          BY <4>1, <4>2
      <3>2. \A f \in Tallies : Amount(each, f) = 0 /\ Amount(Nothing, f) = 0
        BY DEF Amount, Nothing, Tallies
      <3>3. DOMAIN s.parties \cup {p} = DOMAIN s.parties \cup {}
        BY <2>1
      <3>4. \A f \in PartyCounters : Sum(s.parties, f) \in Int /\ \A x : At(s.parties, x, f) \in Int
        BY CounterSum DEF IsStore
      <3> HIDE DEF p, each, parties
      <3> QED
        BY <3>1, <3>2, <3>3, <3>4 DEF Added, PartiesBooked, PartyTallies, Tallies
    <2>2. CASE p \notin DOMAIN s.parties
      BY <2>2, NothingBooked DEF ForParty
    <2> QED
      BY <2>1, <2>2
  <1>3. Saved(all, s.disputes, d, after)
    BY SaveIs
  <1>4. EntityFields \subseteq DOMAIN after
    BY DEF StakeShown, IsStore, Known
  <1>5. t = InTotal(OnDay(u, day, ofDay), inTotal)
    <2>1. RoleOf(e, p) = {"counterparty"}
      BY DEF RoleOf
    <2>2. [e EXCEPT !.stake = [r \in IndexRoles |-> IF r \in RoleOf(e, p) THEN amount ELSE @[r]],
                    !.state = IF "counterparty" \in RoleOf(e, p) THEN "ACTIVE" ELSE @] = after
      BY <2>1 DEF StakeShown
    <2> QED
      BY <2>2 DEF HandleStakeDeposited
  <1> HIDE DEF each, ofDay, inTotal, parties, all, after, p, e
  <1>6. /\ u.daily = s.daily /\ u.protocol = s.protocol
        /\ u.parties = parties /\ u.disputes = all /\ DOMAIN u = DOMAIN s
    BY DEF IsStore, StoreFields
  <1>7. StoreFields \subseteq DOMAIN u
    BY <1>6 DEF IsStore
  <1> HIDE DEF u
  <1>8. Booked(s, t, {}, Nothing, ofDay, inTotal) /\ Saved(t.disputes, s.disputes, d, after)
    BY <1>1, <1>2, <1>3, <1>4, <1>5, <1>6, <1>7, BooksAre
  <1> QED
    BY <1>8 DEF ofDay, inTotal, after, e

\* ProposalSubmitted clears the flags and counts a proposal.
LEMMA ProposedIs ==
  ASSUME NEW s, IsStore(s), NEW d, Known(s, d), NEW text, NEW day,
         NEW t, t = HandleProposalSubmitted(s, d, text, day)
  PROVE  /\ Booked(s, t, {}, Nothing, [proposals |-> 1], Nothing)
         /\ Saved(t.disputes, s.disputes, d, [s.disputes[d] EXCEPT !.accepted = {}])
  <1> DEFINE ofDay == [proposals |-> 1]
             after == [s.disputes[d] EXCEPT !.accepted = {}]
             all == [s.disputes EXCEPT ![d] = after]
             texts == Save(s.proposals, d, Append(GetOrCreate(s.proposals, d, << >>), text))
             u == [s EXCEPT !.proposals = texts, !.disputes = all]
  <1>1. Amounts(ofDay)
    BY DEF Amounts
  <1>2. Saved(all, s.disputes, d, after)
    BY SavedExcept DEF Known
  <1>3. EntityFields \subseteq DOMAIN after
    BY DEF IsStore, Known
  <1>4. t = OnDay(u, day, ofDay)
    BY DEF HandleProposalSubmitted
  <1> HIDE DEF ofDay, after, all, texts
  <1>5. /\ u.daily = s.daily /\ u.protocol = s.protocol
        /\ u.parties = s.parties /\ u.disputes = all /\ DOMAIN u = DOMAIN s
    BY DEF IsStore, StoreFields
  <1> HIDE DEF u
  <1>6. /\ DOMAIN t = DOMAIN u
        /\ t.disputes = all /\ t.parties = s.parties /\ t.protocol = s.protocol
        /\ DaysBooked(s.daily, t.daily, ofDay)
    BY <1>1, <1>4, <1>5, DayIs DEF IsStore
  <1>7. StoreFields \subseteq DOMAIN t
    BY <1>5, <1>6 DEF IsStore
  <1>8. /\ PartiesBooked(s.parties, t.parties, {}, Nothing)
        /\ TotalBooked(s.protocol, t.protocol, Nothing)
    BY <1>6, NothingBooked
  <1>9. Saved(t.disputes, s.disputes, d, after)
    BY <1>2, <1>6
  <1>10. Booked(s, t, {}, Nothing, ofDay, Nothing)
    BY <1>3, <1>6, <1>7, <1>8, <1>9, Assembled
  <1> QED
    BY <1>9, <1>10 DEF ofDay, after

\* Handlers that change the dispute and nothing else.
LEMMA OnlyDispute ==
  ASSUME NEW s, IsStore(s), NEW d, Known(s, d), NEW e, EntityFields \subseteq DOMAIN e,
         NEW t, t = [s EXCEPT !.disputes = [s.disputes EXCEPT ![d] = e]]
  PROVE  Booked(s, t, {}, Nothing, Nothing, Nothing) /\ Saved(t.disputes, s.disputes, d, e)
  <1> DEFINE all == [s.disputes EXCEPT ![d] = e]
  <1>1. Saved(all, s.disputes, d, e)
    BY SavedExcept DEF Known
  <1> HIDE DEF all
  <1>2. /\ t.daily = s.daily /\ t.protocol = s.protocol
        /\ t.parties = s.parties /\ t.disputes = all /\ DOMAIN t = DOMAIN s
    BY DEF IsStore, StoreFields, all
  <1>3. StoreFields \subseteq DOMAIN t
    BY <1>2 DEF IsStore
  <1>4. Saved(t.disputes, s.disputes, d, e)
    BY <1>1, <1>2
  <1>5. /\ PartiesBooked(s.parties, t.parties, {}, Nothing)
        /\ DaysBooked(s.daily, t.daily, Nothing)
        /\ TotalBooked(s.protocol, t.protocol, Nothing)
    BY <1>2, NothingBooked
  <1> QED
    BY <1>3, <1>4, <1>5, Assembled

\* AcceptanceSignaled sets a flag and books nothing.
LEMMA SignaledIs ==
  ASSUME NEW s, IsStore(s), NEW d, Known(s, d), NEW p,
         NEW t, t = HandleAcceptanceSignaled(s, d, p)
  PROVE  /\ Booked(s, t, {}, Nothing, Nothing, Nothing)
         /\ Saved(t.disputes, s.disputes, d,
                  [s.disputes[d] EXCEPT !.accepted = @ \cup RoleOf(s.disputes[d], p)])
  <1> DEFINE e == [s.disputes[d] EXCEPT !.accepted = @ \cup RoleOf(s.disputes[d], p)]
  <1>1. t = [s EXCEPT !.disputes = [s.disputes EXCEPT ![d] = e]]
    BY DEF HandleAcceptanceSignaled
  <1>2. EntityFields \subseteq DOMAIN e
    BY DEF IsStore, Known
  <1> HIDE DEF e
  <1>3. Booked(s, t, {}, Nothing, Nothing, Nothing) /\ Saved(t.disputes, s.disputes, d, e)
    BY <1>1, <1>2, OnlyDispute
  <1> QED
    BY <1>3 DEF e

\* DefaultLicenseApplied sets the outcome and books nothing.
LEMMA DefaultAppliedIs ==
  ASSUME NEW s, IsStore(s), NEW d, Known(s, d),
         NEW t, t = HandleDefaultLicenseApplied(s, d)
  PROVE  /\ Booked(s, t, {}, Nothing, Nothing, Nothing)
         /\ Saved(t.disputes, s.disputes, d,
                  [s.disputes[d] EXCEPT !.outcome = "DEFAULT_LICENSE_APPLIED"])
  <1> DEFINE e == [s.disputes[d] EXCEPT !.outcome = "DEFAULT_LICENSE_APPLIED"]
  <1>1. t = [s EXCEPT !.disputes = [s.disputes EXCEPT ![d] = e]]
    BY DEF HandleDefaultLicenseApplied
  <1>2. EntityFields \subseteq DOMAIN e
    BY DEF IsStore, Known
  <1> HIDE DEF e
  <1>3. Booked(s, t, {}, Nothing, Nothing, Nothing) /\ Saved(t.disputes, s.disputes, d, e)
    BY <1>1, <1>2, OnlyDispute
  <1> QED
    BY <1>3 DEF e

\* CounterProposed clears the flags and counts a counter-proposal.
LEMMA CounteredIs ==
  ASSUME NEW s, IsStore(s), NEW d, Known(s, d), NEW p, NEW number, NEW day,
         NEW t, t = HandleCounterProposed(s, d, p, number, day)
  PROVE  /\ Booked(s, t, {}, Nothing, [counterProposals |-> 1], [totalCounterProposals |-> 1])
         /\ Saved(t.disputes, s.disputes, d,
                  [s.disputes[d] EXCEPT !.counterCount = number, !.accepted = {}])
  <1> DEFINE ofDay == [counterProposals |-> 1]
             inTotal == [totalCounterProposals |-> 1]
             after == [s.disputes[d] EXCEPT !.counterCount = number, !.accepted = {}]
             all == [s.disputes EXCEPT ![d] = after]
             numbers == Save(s.counters, <<d, number>>, p)
             u == [s EXCEPT !.counters = numbers, !.disputes = all]
  <1>1. Amounts(ofDay) /\ Amounts(inTotal)
    BY DEF Amounts
  <1>2. Saved(all, s.disputes, d, after)
    BY SavedExcept DEF Known
  <1>3. EntityFields \subseteq DOMAIN after
    BY DEF IsStore, Known
  <1>4. [s EXCEPT !.counters = Save(@, <<d, number>>, p), !.disputes[d].counterCount = number,
                  !.disputes[d].accepted = {}] = u
    <2>1. /\ d \in DOMAIN s.disputes
          /\ "counters" \in DOMAIN s /\ "disputes" \in DOMAIN s
          /\ "counterCount" \in DOMAIN s.disputes[d] /\ "accepted" \in DOMAIN s.disputes[d]
      BY DEF IsStore, StoreFields, EntityFields, Known
    <2> QED
      BY <2>1
  <1>5. t = InTotal(OnDay(u, day, ofDay), inTotal)
    BY <1>4 DEF HandleCounterProposed
  <1> HIDE DEF ofDay, inTotal, after, all, numbers
  <1>6. /\ u.daily = s.daily /\ u.protocol = s.protocol
        /\ u.parties = s.parties /\ u.disputes = all /\ DOMAIN u = DOMAIN s
    BY DEF IsStore, StoreFields
  <1>7. StoreFields \subseteq DOMAIN u
    BY <1>6 DEF IsStore
  <1> HIDE DEF u
  <1>8. PartiesBooked(s.parties, u.parties, {}, Nothing) /\ {} \subseteq Accounts
    BY <1>6, NothingBooked
  <1>9. Booked(s, t, {}, Nothing, ofDay, inTotal) /\ Saved(t.disputes, s.disputes, d, after)
    BY <1>1, <1>2, <1>3, <1>5, <1>6, <1>7, <1>8, BooksAre
  <1> QED
    BY <1>9 DEF ofDay, inTotal, after

\* StakesBurned books half the burn for each party.
LEMMA BurnedIs ==
  ASSUME NEW s, IsStore(s), NEW d, Known(s, d), NEW burnt \in Nat, NEW day,
         NEW p, NEW c, p # c, p = s.disputes[d].initiator, c = s.disputes[d].counterparty,
         p \in DOMAIN s.parties, c \in DOMAIN s.parties,
         NEW t, t = HandleStakesBurned(s, d, burnt, day)
  PROVE  /\ Booked(s, t, {p, c}, [totalBurned |-> burnt \div 2],
                   [totalBurned |-> burnt], [totalValueBurned |-> burnt])
         /\ Saved(t.disputes, s.disputes, d, [s.disputes[d] EXCEPT !.burnAmount = burnt])
  <1> DEFINE each == [totalBurned |-> burnt \div 2]
             ofDay == [totalBurned |-> burnt]
             inTotal == [totalValueBurned |-> burnt]
             parties == ForParty(ForParty(s.parties, p, each), c, each)
             after == [s.disputes[d] EXCEPT !.burnAmount = burnt]
             all == [s.disputes EXCEPT ![d] = after]
             u == [s EXCEPT !.disputes = all, !.parties = parties]
  <1>1. Amounts(each) /\ Amounts(ofDay) /\ Amounts(inTotal)
    BY DEF Amounts
  <1>2. PartiesBooked(s.parties, parties, {p, c}, each)
    BY <1>1, ForBoth DEF IsStore
  <1>3. Saved(all, s.disputes, d, after)
    BY SavedExcept DEF Known
  <1>4. EntityFields \subseteq DOMAIN after
    BY DEF IsStore, Known
  <1>5. t = InTotal(OnDay(u, day, ofDay), inTotal)
    BY DEF HandleStakesBurned
  <1> HIDE DEF each, ofDay, inTotal, parties, after, all
  <1>6. /\ u.daily = s.daily /\ u.protocol = s.protocol
        /\ u.parties = parties /\ u.disputes = all /\ DOMAIN u = DOMAIN s
    BY DEF IsStore, StoreFields
  <1>7. StoreFields \subseteq DOMAIN u
    BY <1>6 DEF IsStore
  <1> HIDE DEF u
  <1>8. PartiesBooked(s.parties, u.parties, {p, c}, each) /\ {p, c} \subseteq Accounts
    BY <1>2, <1>6 DEF IsStore
  <1>9. Booked(s, t, {p, c}, each, ofDay, inTotal) /\ Saved(t.disputes, s.disputes, d, after)
    BY <1>1, <1>3, <1>4, <1>5, <1>6, <1>7, <1>8, BooksAre
  <1> QED
    BY <1>9 DEF each, ofDay, inTotal, after

\* What the resolution of a dispute is booked as.
Credited(outcome) == [disputesResolved |-> One(outcome = "AcceptedProposal"),
                      disputesTimedOut |-> One(outcome = "TimeoutWithBurn")]
ResolvedToday(outcome) == [disputesResolved |-> 1,
                           disputesTimedOut |-> One(outcome = "TimeoutWithBurn")]
ResolvedTotal(outcome) == [activeDisputes |-> -1, resolvedDisputes |-> 1,
                           timedOutDisputes |-> One(outcome = "TimeoutWithBurn")]

\* DisputeResolved closes the dispute and books how it ended.
LEMMA ResolvedIs ==
  ASSUME NEW s, IsStore(s), NEW d, Known(s, d), NEW outcome, NEW day,
         NEW p, NEW c, p # c, p = s.disputes[d].initiator, c = s.disputes[d].counterparty,
         p \in DOMAIN s.parties, c \in DOMAIN s.parties,
         NEW t, t = HandleDisputeResolved(s, d, outcome, day)
  PROVE  /\ Booked(s, t, {p, c}, Credited(outcome), ResolvedToday(outcome), ResolvedTotal(outcome))
         /\ Saved(t.disputes, s.disputes, d,
                  [s.disputes[d] EXCEPT !.state = "RESOLVED", !.outcome = OutcomeName(outcome)])
  <1> DEFINE each == Credited(outcome)
             ofDay == ResolvedToday(outcome)
             some == [resolvedDisputes |-> 1, timedOutDisputes |-> One(outcome = "TimeoutWithBurn")]
             inTotal == ResolvedTotal(outcome)
             parties == ForParty(ForParty(s.parties, p, each), c, each)
             after == [s.disputes[d] EXCEPT !.state = "RESOLVED", !.outcome = OutcomeName(outcome)]
             all == [s.disputes EXCEPT ![d] = after]
             u == [s EXCEPT !.disputes = all, !.parties = parties]
             v == InTotal(OnDay(u, day, ofDay), some)
  <1>1. Amounts(each) /\ Amounts(ofDay) /\ Amounts(some)
    BY DEF Amounts, Credited, ResolvedToday, One
  <1>2. PartiesBooked(s.parties, parties, {p, c}, each)
    BY <1>1, ForBoth DEF IsStore
  <1>3. Saved(all, s.disputes, d, after)
    BY SavedExcept DEF Known
  <1>4. EntityFields \subseteq DOMAIN after
    BY DEF IsStore, Known
  <1>5. DisputeResolvedStillActive(s, d, outcome, day) = v
    <2>1. /\ d \in DOMAIN s.disputes
          /\ "parties" \in DOMAIN s /\ "disputes" \in DOMAIN s
          /\ "state" \in DOMAIN s.disputes[d] /\ "outcome" \in DOMAIN s.disputes[d]
      BY DEF IsStore, StoreFields, EntityFields, Known
    <2>2. [s EXCEPT !.disputes[d].state = "RESOLVED", !.disputes[d].outcome = OutcomeName(outcome),
                    !.parties = parties] = u
      BY <2>1
    <2> QED
      BY <2>2 DEF DisputeResolvedStillActive, Credited, ResolvedToday
  <1> HIDE DEF each, ofDay, some, parties, after, all
  <1>6. /\ u.daily = s.daily /\ u.protocol = s.protocol
        /\ u.parties = parties /\ u.disputes = all /\ DOMAIN u = DOMAIN s
    BY DEF IsStore, StoreFields
  <1>7. StoreFields \subseteq DOMAIN u
    BY <1>6 DEF IsStore
  <1> HIDE DEF u
  <1>8. PartiesBooked(s.parties, u.parties, {p, c}, each) /\ {p, c} \subseteq Accounts
    BY <1>2, <1>6 DEF IsStore
  <1>9. Booked(s, v, {p, c}, each, ofDay, some) /\ Saved(v.disputes, s.disputes, d, after)
    BY <1>1, <1>3, <1>4, <1>6, <1>7, <1>8, BooksAre
  <1>10. t = [v EXCEPT !.protocol =
                 [v.protocol EXCEPT !.activeDisputes = v.protocol.activeDisputes - 1]]
    BY <1>5 DEF HandleDisputeResolved
  <1> HIDE DEF v
  <1> DEFINE protocol == [v.protocol EXCEPT !.activeDisputes = v.protocol.activeDisputes - 1]
  <1>11. TotalBooked(s.protocol, protocol, inTotal)
    <2>1. v.protocol \in [ProtocolCounters -> Int] /\ s.protocol \in [ProtocolCounters -> Int]
      BY <1>9 DEF Booked, IsStore
    <2>2. \A f \in ProtocolCounters : v.protocol[f] = s.protocol[f] + Amount(some, f)
      BY <1>9 DEF Booked, TotalBooked
    <2>3. protocol \in [ProtocolCounters -> Int]
      BY <2>1 DEF ProtocolCounters
    <2>4. \A f \in ProtocolCounters : protocol[f] =
            IF f = "activeDisputes" THEN v.protocol[f] - 1 ELSE v.protocol[f]
      BY <2>1 DEF ProtocolCounters
    <2> HIDE DEF protocol
    <2>5. \A f \in ProtocolCounters :
             Amount(inTotal, f) = Amount(some, f) + IF f = "activeDisputes" THEN -1 ELSE 0
      BY DEF Amount, ResolvedTotal, ProtocolCounters, some, One
    <2>6. \A f \in ProtocolCounters : Amount(some, f) \in Int
      BY <1>1 DEF Amount, Amounts
    <2> QED
      BY <2>1, <2>2, <2>3, <2>4, <2>5, <2>6 DEF TotalBooked
  <1> HIDE DEF protocol
  <1>12. /\ t.daily = v.daily /\ t.protocol = protocol
         /\ t.parties = v.parties /\ t.disputes = v.disputes /\ DOMAIN t = DOMAIN v
    BY <1>9, <1>10 DEF Booked, IsStore, StoreFields, protocol
  <1>13. StoreFields \subseteq DOMAIN t /\ Saved(t.disputes, s.disputes, d, after)
    BY <1>9, <1>12 DEF Booked, IsStore
  <1>14. /\ PartiesBooked(s.parties, t.parties, {p, c}, each)
         /\ DaysBooked(s.daily, t.daily, ofDay)
         /\ TotalBooked(s.protocol, t.protocol, inTotal)
    BY <1>9, <1>11, <1>12 DEF Booked
  <1>15. Booked(s, t, {p, c}, each, ofDay, inTotal)
    BY <1>4, <1>8, <1>13, <1>14, Assembled
  <1> QED
    BY <1>13, <1>15 DEF each, ofDay, after

\* Two events of one transaction.
LEMMA BookedTwice ==
  ASSUME NEW s, IsStore(s), NEW t, NEW u, NEW who,
         NEW each1, NEW ofDay1, NEW inTotal1, Booked(s, t, who, each1, ofDay1, inTotal1),
         NEW each2, NEW ofDay2, NEW inTotal2, Booked(t, u, who, each2, ofDay2, inTotal2),
         Amounts(each1), Amounts(each2), Amounts(ofDay1), Amounts(ofDay2),
         Amounts(inTotal1), Amounts(inTotal2),
         NEW each, \A f \in Tallies : Amount(each, f) = Amount(each1, f) + Amount(each2, f),
         NEW ofDay, \A f \in DailyCounters :
                       Amount(ofDay, f) = Amount(ofDay1, f) + Amount(ofDay2, f),
         NEW inTotal, \A f \in ProtocolCounters :
                       Amount(inTotal, f) = Amount(inTotal1, f) + Amount(inTotal2, f)
  PROVE  Booked(s, u, who, each, ofDay, inTotal)
  <1>1. \A f : /\ Amount(each1, f) \in Int /\ Amount(each2, f) \in Int
               /\ Amount(ofDay1, f) \in Int /\ Amount(ofDay2, f) \in Int
               /\ Amount(inTotal1, f) \in Int /\ Amount(inTotal2, f) \in Int
    BY DEF Amount, Amounts
  <1>2. /\ IsTable(s.parties, PartyCounters) /\ IsTable(s.daily, DailyCounters)
        /\ s.protocol \in [ProtocolCounters -> Int]
    BY DEF IsStore
  <1>3. \A f \in PartyCounters : Sum(s.parties, f) \in Int /\ \A x : At(s.parties, x, f) \in Int
    BY <1>2, CounterSum
  <1>4. \A f \in DailyCounters : Sum(s.daily, f) \in Int
    BY <1>2, CounterSum
  <1>5. PartiesBooked(s.parties, u.parties, who, each)
    <2>1. /\ PartiesBooked(s.parties, t.parties, who, each1)
          /\ PartiesBooked(t.parties, u.parties, who, each2)
      BY DEF Booked
    <2>2. IsTable(u.parties, PartyCounters) /\ DOMAIN u.parties = DOMAIN s.parties \cup who
      BY <2>1 DEF PartiesBooked
    <2>3. \A x, f : f \in PartyTallies =>
             At(u.parties, x, f) = At(s.parties, x, f) + IF x \in who THEN Amount(each, f) ELSE 0
      BY <2>1, <1>1, <1>3 DEF PartiesBooked, Tallies, PartyTallies
    <2>4. \A f \in Tallies : Sum(u.parties, f) = Sum(s.parties, f) + 2 * Amount(each, f)
      BY <2>1, <1>1, <1>3 DEF PartiesBooked, Tallies
    <2> QED
      BY <2>2, <2>3, <2>4 DEF PartiesBooked
  <1>6. DaysBooked(s.daily, u.daily, ofDay)
    BY <1>1, <1>4 DEF Booked, DaysBooked
  <1>7. TotalBooked(s.protocol, u.protocol, inTotal)
    BY <1>1, <1>2 DEF Booked, TotalBooked
  <1> QED
    BY <1>5, <1>6, <1>7 DEF Booked

\* An event that books nothing, and another.
LEMMA BookedAfterNothing ==
  ASSUME NEW s, IsStore(s), NEW t, NEW u, NEW who, NEW each, NEW ofDay, NEW inTotal,
         Booked(s, t, {}, Nothing, Nothing, Nothing), Booked(t, u, who, each, ofDay, inTotal),
         Amounts(each), Amounts(ofDay), Amounts(inTotal)
  PROVE  Booked(s, u, who, each, ofDay, inTotal)
  <1>1. \A f : Amount(Nothing, f) = 0
    BY DEF Amount, Nothing
  <1>2. /\ IsTable(s.parties, PartyCounters) /\ IsTable(s.daily, DailyCounters)
        /\ s.protocol \in [ProtocolCounters -> Int]
    BY DEF IsStore
  <1>3. \A f \in PartyCounters : Sum(s.parties, f) \in Int /\ \A x : At(s.parties, x, f) \in Int
    BY <1>2, CounterSum
  <1>4. \A f \in DailyCounters : Sum(s.daily, f) \in Int
    BY <1>2, CounterSum
  <1>5. PartiesBooked(s.parties, u.parties, who, each)
    <2>1. /\ PartiesBooked(s.parties, t.parties, {}, Nothing)
          /\ PartiesBooked(t.parties, u.parties, who, each)
      BY DEF Booked
    <2>2. \A f \in Tallies : Sum(t.parties, f) = Sum(s.parties, f)
      BY <2>1, <1>1, <1>3 DEF PartiesBooked, Tallies
    <2>3. \A x, f : f \in PartyTallies => At(t.parties, x, f) = At(s.parties, x, f)
      BY <2>1, <1>1, <1>3 DEF PartiesBooked, Tallies, PartyTallies
    <2>4. DOMAIN t.parties = DOMAIN s.parties
      BY <2>1 DEF PartiesBooked
    <2> QED
      BY <2>1, <2>2, <2>3, <2>4 DEF PartiesBooked
  <1>6. DaysBooked(s.daily, u.daily, ofDay)
    BY <1>1, <1>4 DEF Booked, DaysBooked
  <1>7. TotalBooked(s.protocol, u.protocol, inTotal)
    BY <1>1, <1>2 DEF Booked, TotalBooked
  <1> QED
    BY <1>5, <1>6, <1>7 DEF Booked

----------------------------------------------------------------------------
(* The invariant of the contract and its index.                            *)

\* Nothing was indexed yet.
Blank == index = EmptyStore /\ heard = 0

\* The index knows only disputes that there can be, and is blank before it starts.
StoreOK == /\ IsStore(index)
           /\ heard \in Nat
           /\ DOMAIN index.disputes \subseteq DisputeIds \cup {Voluntary}
           /\ ~listening => Blank

\* The index knows the parties of every dispute it shows.
Mirrored == \A d \in Indexed :
  /\ Exists(d)
  /\ ShownAs(index.disputes[d], disputes[d])
  /\ disputes[d].initiator \in DOMAIN index.parties
  /\ disputes[d].counterparty \in DOMAIN index.parties

\* An outcome comes with the resolution; the tallies of outcomes rest on this.
PendingWhileOpen == \A d \in DisputeIds : ~disputes[d].resolved => disputes[d].outcome = "Pending"

\* What counts as active, and what a party's tallies count.
Unresolved == {d \in Indexed : ~disputes[d].resolved}
Ended(p, outcome) == {d \in InvolvedIn(p) : disputes[d].outcome = outcome}

\* MetricsAddUp, with a tally of 0 for accounts that the index does not know.
Tallied ==
  LET total == index.protocol
  IN /\ total.totalDisputes = Cardinality(Indexed) + heard
     /\ total.activeDisputes = Cardinality(Unresolved) + heard
     /\ total.activeDisputes + total.resolvedDisputes = total.totalDisputes
     /\ Sum(index.parties, "totalDisputes") = 2 * total.totalDisputes
     /\ \A p \in Accounts :
           /\ At(index.parties, p, "disputesResolved") = Cardinality(Ended(p, "AcceptedProposal"))
           /\ At(index.parties, p, "disputesTimedOut") = Cardinality(Ended(p, "TimeoutWithBurn"))
     /\ Sum(index.daily, "disputesInitiated") = total.totalDisputes
     /\ Sum(index.daily, "disputesResolved") = total.resolvedDisputes
     /\ Sum(index.daily, "disputesTimedOut") = total.timedOutDisputes
     /\ Sum(index.daily, "counterProposals") = total.totalCounterProposals
     /\ Sum(index.daily, "totalBurned") = total.totalValueBurned
     /\ total.totalValueBurned - Sum(index.parties, "totalBurned")
           \in 0 .. total.timedOutDisputes
     /\ total.totalValueBurned <= burned

\* The invariant of the index, and with it that of the contract.
IndexInv == StoreOK /\ Mirrored /\ Tallied
SubgraphInv == IInv /\ StakesInv /\ PendingWhileOpen /\ IndexInv

\* A set loses or gains at most d.
LEMMA CountOne ==
  ASSUME NEW A, NEW B, IsFiniteSet(A), NEW d, A \ {d} = B \ {d}
  PROVE  /\ IsFiniteSet(B)
         /\ Cardinality(A) \in Nat /\ Cardinality(B) \in Nat
         /\ Cardinality(B) = Cardinality(A) + One(d \in B) - One(d \in A)
  <1> DEFINE rest == A \ {d}
  <1>1. IsFiniteSet(rest) /\ Cardinality(rest) \in Nat
    BY FS_RemoveElement, FS_CardinalityType
  <1>2. d \notin rest
    OBVIOUS
  <1>3. IsFiniteSet(rest \cup {d}) /\ Cardinality(rest \cup {d}) = Cardinality(rest) + 1
    BY <1>1, <1>2, FS_AddElement
  <1>4. ASSUME NEW C, C \ {d} = rest
        PROVE  IsFiniteSet(C) /\ Cardinality(C) = Cardinality(rest) + One(d \in C)
    <2>1. CASE d \in C
      <3>1. C = rest \cup {d}
        BY <1>4, <2>1
      <3> QED
        BY <1>3, <2>1, <3>1 DEF One
    <2>2. CASE d \notin C
      <3>1. C = rest
        BY <1>4, <2>2
      <3>2. One(d \in C) = 0
        BY <2>2 DEF One
      <3> HIDE DEF rest
      <3> QED
        BY <1>1, <3>1, <3>2
    <2> QED
      BY <2>1, <2>2
  <1>5. Cardinality(A) = Cardinality(rest) + One(d \in A)
    BY <1>4
  <1>6. Cardinality(B) = Cardinality(rest) + One(d \in B) /\ IsFiniteSet(B)
    BY <1>4
  <1> HIDE DEF rest
  <1> QED
    BY <1>1, <1>5, <1>6 DEF One

\* What a step books is what it does to the disputes and to the tokens burnt.
Balanced(d, who, each, ofDay, inTotal) ==
  LET sum(f)   == Amount(inTotal, f)
      day(f)   == Amount(ofDay, f)
      party(f) == Amount(each, f)
      voluntary == heard' - heard
  IN /\ sum("totalDisputes") = One(d \in Indexed') - One(d \in Indexed) + voluntary
     /\ sum("activeDisputes") = One(d \in Unresolved') - One(d \in Unresolved) + voluntary
     /\ sum("activeDisputes") + sum("resolvedDisputes") = sum("totalDisputes")
     /\ party("totalDisputes") = sum("totalDisputes")
     /\ \A p \in Accounts :
           /\ (IF p \in who THEN party("disputesResolved") ELSE 0)
                = One(d \in Ended(p, "AcceptedProposal")') - One(d \in Ended(p, "AcceptedProposal"))
           /\ (IF p \in who THEN party("disputesTimedOut") ELSE 0)
                = One(d \in Ended(p, "TimeoutWithBurn")') - One(d \in Ended(p, "TimeoutWithBurn"))
     /\ day("disputesInitiated") = sum("totalDisputes")
     /\ day("disputesResolved") = sum("resolvedDisputes")
     /\ day("disputesTimedOut") = sum("timedOutDisputes")
     /\ day("counterProposals") = sum("totalCounterProposals")
     /\ day("totalBurned") = sum("totalValueBurned")
     /\ sum("totalValueBurned") - 2 * party("totalBurned") \in 0 .. sum("timedOutDisputes")
     /\ sum("totalValueBurned") <= burned' - burned

\* A balanced step keeps the metrics.
LEMMA TalliedStep ==
  ASSUME IInv, StoreOK, Tallied, NEW d, NEW who, NEW each, NEW ofDay, NEW inTotal,
         Booked(index, index', who, each, ofDay, inTotal),
         Amounts(each), Amounts(ofDay), Amounts(inTotal),
         Balanced(d, who, each, ofDay, inTotal),
         Indexed' \ {d} = Indexed \ {d},
         \A e \in Indexed \ {d} : disputes'[e] = disputes[e],
         heard' \in Nat, burned' \in Nat
  PROVE  Tallied'
  <1> DEFINE sum(f)   == Amount(inTotal, f)
             day(f)   == Amount(ofDay, f)
             party(f) == Amount(each, f)
             total == index.protocol
             after == index'.protocol
  <1>1. \A f : sum(f) \in Int /\ day(f) \in Int /\ party(f) \in Int
    BY DEF Amount, Amounts
  <1>2. /\ heard \in Nat /\ burned \in Nat
        /\ IsFiniteSet(Indexed) /\ \A p : IsFiniteSet(InvolvedIn(p))
    <2>1. Indexed \subseteq DisputeIds /\ IsFiniteSet(DisputeIds)
      BY RegistryAssumption DEF StoreOK, Indexed, RegistryAssumption
    <2>2. IsFiniteSet(Indexed)
      BY <2>1, FS_Subset
    <2>3. ASSUME NEW p PROVE IsFiniteSet(InvolvedIn(p))
      <3>1. InvolvedIn(p) \subseteq Indexed
        BY DEF InvolvedIn
      <3> QED
        BY <3>1, <2>2, FS_Subset
    <2> QED
      BY <2>2, <2>3 DEF StoreOK, IInv, ILRMTypeOK
  <1>3. /\ Cardinality(Indexed) \in Nat /\ Cardinality(Indexed') \in Nat
        /\ Cardinality(Indexed') = Cardinality(Indexed) + One(d \in Indexed') - One(d \in Indexed)
    BY <1>2, CountOne
  <1>4. /\ Cardinality(Unresolved) \in Nat /\ Cardinality(Unresolved') \in Nat
        /\ Cardinality(Unresolved')
             = Cardinality(Unresolved) + One(d \in Unresolved') - One(d \in Unresolved)
    <2>1. Unresolved' \ {d} = Unresolved \ {d}
      BY DEF Unresolved
    <2>2. IsFiniteSet(Unresolved)
      BY <1>2, FS_Subset DEF Unresolved
    <2> QED
      BY <2>1, <2>2, CountOne
  <1>5. ASSUME NEW p, NEW outcome
        PROVE  /\ Cardinality(Ended(p, outcome)) \in Nat /\ Cardinality(Ended(p, outcome)') \in Nat
               /\ Cardinality(Ended(p, outcome)') = Cardinality(Ended(p, outcome))
                    + One(d \in Ended(p, outcome)') - One(d \in Ended(p, outcome))
    <2>1. Ended(p, outcome)' \ {d} = Ended(p, outcome) \ {d}
      BY DEF Ended, InvolvedIn
    <2>2. IsFiniteSet(Ended(p, outcome))
      BY <1>2, FS_Subset DEF Ended
    <2> QED
      BY <2>1, <2>2, CountOne
  <1>6. /\ IsTable(index.parties, PartyCounters) /\ IsTable(index.daily, DailyCounters)
        /\ total \in [ProtocolCounters -> Int]
    BY DEF StoreOK, IsStore
  <1>7. \A f \in PartyCounters : /\ Sum(index.parties, f) \in Int
                                 /\ \A p : At(index.parties, p, f) \in Int
    BY <1>6, CounterSum
  <1>8. \A f \in DailyCounters : Sum(index.daily, f) \in Int
    BY <1>6, CounterSum
  <1>9. \A f \in ProtocolCounters : after[f] = total[f] + sum(f) /\ total[f] \in Int
    BY <1>6 DEF Booked, TotalBooked
  <1>10. \A f \in DailyCounters : Sum(index'.daily, f) = Sum(index.daily, f) + day(f)
    BY DEF Booked, DaysBooked
  <1>11. \A f \in Tallies : Sum(index'.parties, f) = Sum(index.parties, f) + 2 * party(f)
    BY DEF Booked, PartiesBooked
  <1>12. \A p, f : f \in PartyTallies => At(index'.parties, p, f)
           = At(index.parties, p, f) + IF p \in who THEN party(f) ELSE 0
    BY DEF Booked, PartiesBooked
  <1>13. /\ after.totalDisputes = total.totalDisputes + sum("totalDisputes")
         /\ after.activeDisputes = total.activeDisputes + sum("activeDisputes")
         /\ after.resolvedDisputes = total.resolvedDisputes + sum("resolvedDisputes")
         /\ after.timedOutDisputes = total.timedOutDisputes + sum("timedOutDisputes")
         /\ after.totalValueBurned = total.totalValueBurned + sum("totalValueBurned")
         /\ after.totalCounterProposals = total.totalCounterProposals + sum("totalCounterProposals")
         /\ total.totalDisputes \in Int /\ total.activeDisputes \in Int
         /\ total.resolvedDisputes \in Int /\ total.timedOutDisputes \in Int
         /\ total.totalValueBurned \in Int /\ total.totalCounterProposals \in Int
    BY <1>9 DEF ProtocolCounters
  <1>14. /\ Sum(index'.parties, "totalDisputes")
              = Sum(index.parties, "totalDisputes") + 2 * party("totalDisputes")
         /\ Sum(index'.parties, "totalBurned")
              = Sum(index.parties, "totalBurned") + 2 * party("totalBurned")
         /\ Sum(index.parties, "totalDisputes") \in Int /\ Sum(index.parties, "totalBurned") \in Int
    BY <1>7, <1>11 DEF Tallies, PartyCounters
  <1>15. /\ Sum(index'.daily, "disputesInitiated")
              = Sum(index.daily, "disputesInitiated") + day("disputesInitiated")
         /\ Sum(index'.daily, "disputesResolved")
              = Sum(index.daily, "disputesResolved") + day("disputesResolved")
         /\ Sum(index'.daily, "disputesTimedOut")
              = Sum(index.daily, "disputesTimedOut") + day("disputesTimedOut")
         /\ Sum(index'.daily, "counterProposals")
              = Sum(index.daily, "counterProposals") + day("counterProposals")
         /\ Sum(index'.daily, "totalBurned")
              = Sum(index.daily, "totalBurned") + day("totalBurned")
         /\ Sum(index.daily, "disputesInitiated") \in Int
         /\ Sum(index.daily, "disputesResolved") \in Int
         /\ Sum(index.daily, "disputesTimedOut") \in Int
         /\ Sum(index.daily, "counterProposals") \in Int
         /\ Sum(index.daily, "totalBurned") \in Int
    BY <1>8, <1>10 DEF DailyCounters
  <1>16. /\ sum("totalDisputes") \in Int /\ sum("activeDisputes") \in Int
         /\ sum("resolvedDisputes") \in Int /\ sum("timedOutDisputes") \in Int
         /\ sum("totalValueBurned") \in Int /\ sum("totalCounterProposals") \in Int
         /\ party("totalDisputes") \in Int /\ party("totalBurned") \in Int
    BY <1>1
  <1>17. ASSUME NEW p \in Accounts
         PROVE  /\ At(index'.parties, p, "disputesResolved")
                     = Cardinality(Ended(p, "AcceptedProposal")')
                /\ At(index'.parties, p, "disputesTimedOut")
                     = Cardinality(Ended(p, "TimeoutWithBurn")')
    <2>1. /\ At(index'.parties, p, "disputesResolved") = At(index.parties, p, "disputesResolved")
                + IF p \in who THEN party("disputesResolved") ELSE 0
          /\ At(index'.parties, p, "disputesTimedOut") = At(index.parties, p, "disputesTimedOut")
                + IF p \in who THEN party("disputesTimedOut") ELSE 0
      BY <1>12 DEF PartyTallies, Tallies, PartyCounters
    <2>2. /\ (IF p \in who THEN party("disputesResolved") ELSE 0)
               = One(d \in Ended(p, "AcceptedProposal")') - One(d \in Ended(p, "AcceptedProposal"))
          /\ (IF p \in who THEN party("disputesTimedOut") ELSE 0)
               = One(d \in Ended(p, "TimeoutWithBurn")') - One(d \in Ended(p, "TimeoutWithBurn"))
      BY DEF Balanced
    <2>3. /\ At(index.parties, p, "disputesResolved") = Cardinality(Ended(p, "AcceptedProposal"))
          /\ At(index.parties, p, "disputesTimedOut") = Cardinality(Ended(p, "TimeoutWithBurn"))
      BY DEF Tallied
    <2> HIDE DEF party
    <2> QED
      BY <1>5, <2>1, <2>2, <2>3 DEF One
  <1> HIDE DEF sum, day, party, total, after
  <1>18. /\ sum("totalDisputes") = One(d \in Indexed') - One(d \in Indexed) + (heard' - heard)
         /\ sum("activeDisputes")
              = One(d \in Unresolved') - One(d \in Unresolved) + (heard' - heard)
         /\ sum("activeDisputes") + sum("resolvedDisputes") = sum("totalDisputes")
         /\ party("totalDisputes") = sum("totalDisputes")
         /\ day("disputesInitiated") = sum("totalDisputes")
         /\ day("disputesResolved") = sum("resolvedDisputes")
         /\ day("disputesTimedOut") = sum("timedOutDisputes")
         /\ day("counterProposals") = sum("totalCounterProposals")
         /\ day("totalBurned") = sum("totalValueBurned")
         /\ sum("totalValueBurned") - 2 * party("totalBurned") \in 0 .. sum("timedOutDisputes")
         /\ sum("totalValueBurned") <= burned' - burned
    BY DEF Balanced, sum, day, party
  <1>19. /\ total.totalDisputes = Cardinality(Indexed) + heard
         /\ total.activeDisputes = Cardinality(Unresolved) + heard
         /\ total.activeDisputes + total.resolvedDisputes = total.totalDisputes
         /\ Sum(index.parties, "totalDisputes") = 2 * total.totalDisputes
         /\ Sum(index.daily, "disputesInitiated") = total.totalDisputes
         /\ Sum(index.daily, "disputesResolved") = total.resolvedDisputes
         /\ Sum(index.daily, "disputesTimedOut") = total.timedOutDisputes
         /\ Sum(index.daily, "counterProposals") = total.totalCounterProposals
         /\ Sum(index.daily, "totalBurned") = total.totalValueBurned
         /\ total.totalValueBurned - Sum(index.parties, "totalBurned")
              \in 0 .. total.timedOutDisputes
         /\ total.totalValueBurned <= burned
    BY DEF Tallied, total
  <1>20. /\ after.totalDisputes = Cardinality(Indexed') + heard'
         /\ after.activeDisputes = Cardinality(Unresolved') + heard'
         /\ after.activeDisputes + after.resolvedDisputes = after.totalDisputes
    BY <1>2, <1>3, <1>4, <1>13, <1>16, <1>18, <1>19 DEF One
  <1>21. /\ Sum(index'.parties, "totalDisputes") = 2 * after.totalDisputes
         /\ Sum(index'.daily, "disputesInitiated") = after.totalDisputes
         /\ Sum(index'.daily, "disputesResolved") = after.resolvedDisputes
         /\ Sum(index'.daily, "disputesTimedOut") = after.timedOutDisputes
         /\ Sum(index'.daily, "counterProposals") = after.totalCounterProposals
         /\ Sum(index'.daily, "totalBurned") = after.totalValueBurned
    BY <1>13, <1>14, <1>15, <1>16, <1>18, <1>19
  <1>22. /\ after.totalValueBurned - Sum(index'.parties, "totalBurned")
              \in 0 .. after.timedOutDisputes
         /\ after.totalValueBurned <= burned'
    BY <1>2, <1>13, <1>14, <1>16, <1>18, <1>19
  <1> QED
    BY <1>17, <1>20, <1>21, <1>22 DEF Tallied, after

----------------------------------------------------------------------------
(* Steps that the index does not hear of, and steps that it handles.       *)

\* Before the start block nothing is indexed.
LEMMA NothingIndexed == StoreOK /\ ~listening => Indexed = {}
  <1>1. DOMAIN EmptyStore.disputes = {}
    BY DEF EmptyStore
  <1> QED
    BY <1>1 DEF StoreOK, Blank, Indexed

\* A step that leaves the index and every indexed dispute alone.
LEMMA UnindexedStep ==
  ASSUME IInv, IndexInv, UNCHANGED <<index, heard>>, listening => listening',
         \A d \in Indexed : disputes'[d] = disputes[d],
         burned' \in Nat, burned <= burned'
  PROVE  IndexInv'
  <1>1. /\ Indexed' = Indexed /\ Unresolved' = Unresolved
        /\ \A p, outcome : Ended(p, outcome)' = Ended(p, outcome)
    BY DEF Indexed, Unresolved, Ended, InvolvedIn
  <1>2. StoreOK'
    BY DEF IndexInv, StoreOK, Blank
  <1>3. Mirrored'
    <2> SUFFICES ASSUME NEW d \in Indexed
                 PROVE  /\ disputes'[d].initiator # NoOne
                        /\ ShownAs(index'.disputes[d], disputes'[d])
                        /\ disputes'[d].initiator \in DOMAIN index'.parties
                        /\ disputes'[d].counterparty \in DOMAIN index'.parties
      BY <1>1 DEF Mirrored, Exists
    <2>1. disputes'[d] = disputes[d] /\ index' = index
      OBVIOUS
    <2>2. /\ disputes[d].initiator # NoOne
          /\ ShownAs(index.disputes[d], disputes[d])
          /\ disputes[d].initiator \in DOMAIN index.parties
          /\ disputes[d].counterparty \in DOMAIN index.parties
      BY DEF IndexInv, Mirrored, Exists
    <2> QED
      BY <2>1, <2>2
  <1>4. Tallied'
    <2>1. index' = index /\ heard' = heard /\ Tallied
      BY DEF IndexInv
    <2>2. index.protocol.totalValueBurned <= burned'
      <3>1. index.protocol.totalValueBurned \in Int
        BY DEF IndexInv, StoreOK, IsStore, ProtocolCounters
      <3>2. index.protocol.totalValueBurned <= burned
        BY DEF IndexInv, Tallied
      <3>3. burned \in Nat
        BY DEF IInv, ILRMTypeOK
      <3> QED
        BY <3>1, <3>2, <3>3
    <2> QED
      BY <1>1, <2>1, <2>2 DEF Tallied
  <1> QED
    BY <1>2, <1>3, <1>4 DEF IndexInv

\* A step of a dispute that is not indexed.
LEMMA ElsewhereStep ==
  ASSUME IInv, IndexInv, UNCHANGED <<index, heard, listening>>, NEW d, d \notin Indexed,
         \A e \in DisputeIds \ {d} : disputes'[e] = disputes[e],
         burned' \in Nat, burned <= burned'
  PROVE  IndexInv'
  <1>1. \A e \in Indexed : disputes'[e] = disputes[e]
    BY DEF IndexInv, StoreOK, Indexed
  <1> QED
    BY <1>1, UnindexedStep

\* The dispute d is indexed after the step if it is not the voluntary requests'.
LEMMA HandledStep ==
  ASSUME IInv, IndexInv, listening, UNCHANGED listening, heard' \in Nat, burned' \in Nat,
         NEW d \in DisputeIds \cup {Voluntary}, NEW e, Saved(index'.disputes, index.disputes, d, e),
         \A x \in DisputeIds \ {d} : disputes'[x] = disputes[x],
         NEW who, NEW each, NEW ofDay, NEW inTotal,
         Booked(index, index', who, each, ofDay, inTotal),
         Amounts(each), Amounts(ofDay), Amounts(inTotal),
         Balanced(d, who, each, ofDay, inTotal),
         d # Voluntary => /\ disputes'[d].initiator # NoOne
                          /\ ShownAs(e, disputes'[d])
                          /\ disputes'[d].initiator \in DOMAIN index.parties \cup who
                          /\ disputes'[d].counterparty \in DOMAIN index.parties \cup who
  PROVE  IndexInv'
  <1>1. StoreOK /\ Mirrored /\ Tallied
    BY DEF IndexInv
  <1>2. Indexed' \ {d} = Indexed \ {d} /\ Indexed \subseteq DisputeIds
    BY <1>1 DEF Indexed, Saved, StoreOK
  <1>3. StoreOK'
    <2>1. IsStore(index')
      BY DEF Booked
    <2>2. DOMAIN index'.disputes \subseteq DisputeIds \cup {Voluntary}
      BY <1>1 DEF StoreOK, Saved
    <2> QED
      BY <2>1, <2>2 DEF StoreOK
  <1>4. DOMAIN index'.parties = DOMAIN index.parties \cup who
    BY DEF Booked, PartiesBooked
  <1>5. ASSUME NEW x \in Indexed'
        PROVE  /\ disputes'[x].initiator # NoOne
               /\ ShownAs(index'.disputes[x], disputes'[x])
               /\ disputes'[x].initiator \in DOMAIN index'.parties
               /\ disputes'[x].counterparty \in DOMAIN index'.parties
    <2>1. CASE x = d
      <3>1. d # Voluntary /\ index'.disputes[x] = e
        BY <2>1 DEF Indexed, Saved
      <3> QED
        BY <2>1, <3>1, <1>4
    <2>2. CASE x # d
      <3>1. x \in Indexed
        BY <2>2, <1>2
      <3>2. index'.disputes[x] = index.disputes[x] /\ disputes'[x] = disputes[x]
        BY <2>2, <3>1, <1>2 DEF Indexed, Saved
      <3>3. /\ disputes[x].initiator # NoOne
            /\ ShownAs(index.disputes[x], disputes[x])
            /\ disputes[x].initiator \in DOMAIN index.parties
            /\ disputes[x].counterparty \in DOMAIN index.parties
        BY <3>1, <1>1 DEF Mirrored, Exists
      <3> QED
        BY <3>2, <3>3, <1>4
    <2> QED
      BY <2>1, <2>2
  <1>6. Mirrored'
    BY <1>5 DEF Mirrored, Exists
  <1>7. Tallied'
    <2>1. \A x \in Indexed \ {d} : disputes'[x] = disputes[x]
      BY <1>2
    <2> QED
      BY <1>1, <1>2, <2>1, TalliedStep
  <1> QED
    BY <1>3, <1>6, <1>7 DEF IndexInv

\* What is booked of a dispute that stays open.
SettlesNothing(ofDay, inTotal) ==
  /\ \A f \in DailyCounters \ {"totalStaked", "proposals", "counterProposals"} :
        Amount(ofDay, f) = 0
  /\ \A f \in ProtocolCounters \ {"totalValueStaked", "totalCounterProposals"} :
        Amount(inTotal, f) = 0
  /\ Amount(ofDay, "counterProposals") = Amount(inTotal, "totalCounterProposals")

\* Such a step is balanced.
LEMMA BalancedOpen ==
  ASSUME NEW d \in Indexed, d \in Indexed', UNCHANGED <<heard, burned>>,
         burned \in Nat, heard \in Nat,
         ~disputes[d].resolved, ~disputes'[d].resolved,
         disputes'[d].outcome = disputes[d].outcome,
         disputes'[d].initiator = disputes[d].initiator,
         disputes'[d].counterparty = disputes[d].counterparty,
         NEW ofDay, NEW inTotal,
         SettlesNothing(ofDay, inTotal)
  PROVE  Balanced(d, {}, Nothing, ofDay, inTotal)
  <1>1. \A f : Amount(Nothing, f) = 0
    BY DEF Amount, Nothing
  <1>2. d \in Unresolved /\ d \in Unresolved'
    BY DEF Unresolved
  <1>3. \A p, outcome : (d \in Ended(p, outcome)) <=> (d \in Ended(p, outcome)')
    BY DEF Ended, InvolvedIn
  <1>4. \A p, outcome : One(d \in Ended(p, outcome)') - One(d \in Ended(p, outcome)) = 0
    BY <1>3 DEF One
  <1>5. /\ One(d \in Indexed') - One(d \in Indexed) + (heard' - heard) = 0
        /\ One(d \in Unresolved') - One(d \in Unresolved) + (heard' - heard) = 0
    BY <1>2 DEF One
  <1>6. burned' - burned = 0
    OBVIOUS
  <1>7. /\ Amount(inTotal, "totalDisputes") = 0 /\ Amount(inTotal, "activeDisputes") = 0
        /\ Amount(inTotal, "resolvedDisputes") = 0 /\ Amount(inTotal, "timedOutDisputes") = 0
        /\ Amount(inTotal, "totalValueBurned") = 0
        /\ Amount(ofDay, "disputesInitiated") = 0 /\ Amount(ofDay, "disputesResolved") = 0
        /\ Amount(ofDay, "disputesTimedOut") = 0 /\ Amount(ofDay, "totalBurned") = 0
    BY DEF ProtocolCounters, DailyCounters, SettlesNothing
  <1> QED
    BY <1>1, <1>4, <1>5, <1>6, <1>7 DEF Balanced, SettlesNothing

----------------------------------------------------------------------------
(* Each transaction with the handling of its events.                       *)

\* What is known of a dispute before a step.
LEMMA DisputeFacts ==
  ASSUME SubgraphInv, NEW d \in DisputeIds
  PROVE  /\ disputes[d] \in Dispute
         /\ Voluntary # d
         /\ Exists(d) => /\ disputes[d].initiatorStake > 0
                         /\ disputes[d].initiator # disputes[d].counterparty
         /\ ~disputes[d].resolved => disputes[d].outcome = "Pending"
         /\ burned \in Nat /\ heard \in Nat
         /\ IsStore(index)
  BY SubgraphAssumption
     DEF SubgraphInv, IInv, ILRMTypeOK, DisputesWellFormed, StakesInv, InitiatorStaked,
         PendingWhileOpen, SubgraphAssumption, IndexInv, StoreOK

\* What is known of an indexed dispute before a step.
LEMMA IndexedFacts ==
  ASSUME SubgraphInv, NEW d \in Indexed
  PROVE  /\ listening /\ d \in DisputeIds /\ Known(index, d) /\ Exists(d)
         /\ EntityFields \subseteq DOMAIN index.disputes[d]
         /\ ShownAs(index.disputes[d], disputes[d])
         /\ index.disputes[d].initiator = disputes[d].initiator
         /\ index.disputes[d].counterparty = disputes[d].counterparty
         /\ disputes[d].initiator \in DOMAIN index.parties
         /\ disputes[d].counterparty \in DOMAIN index.parties
         /\ disputes[d].initiator # disputes[d].counterparty
  <1>1. StoreOK /\ Mirrored /\ IInv
    BY DEF SubgraphInv, IndexInv
  <1>2. listening
    BY <1>1, NothingIndexed
  <1>3. d \in DisputeIds /\ Known(index, d)
    BY <1>1 DEF StoreOK, Indexed, Known
  <1>4. EntityFields \subseteq DOMAIN index.disputes[d]
    BY <1>1, <1>3 DEF StoreOK, IsStore, Known
  <1>5. /\ Exists(d)
        /\ ShownAs(index.disputes[d], disputes[d])
        /\ disputes[d].initiator \in DOMAIN index.parties
        /\ disputes[d].counterparty \in DOMAIN index.parties
    BY <1>1 DEF Mirrored
  <1>6. disputes[d].initiator # disputes[d].counterparty
    BY <1>1, <1>3, <1>5 DEF IInv, DisputesWellFormed
  <1> QED
    BY <1>2, <1>3, <1>4, <1>5, <1>6 DEF ShownAs

\* A step of one dispute.
LEMMA PendingStep ==
  ASSUME PendingWhileOpen, NEW d, \A e \in DisputeIds \ {d} : disputes'[e] = disputes[e],
         d \in DisputeIds /\ ~disputes'[d].resolved => disputes'[d].outcome = "Pending"
  PROVE  PendingWhileOpen'
  BY DEF PendingWhileOpen

\* Unless d is indexed no handler changes the store.
LEMMA StaysAsItIs ==
  ASSUME SubgraphInv, NEW d \in DisputeIds, d \notin Indexed, listening
  PROVE  ~Known(index, d)
  BY SubgraphAssumption DEF Indexed, Known, SubgraphAssumption

\* A step that settles nothing of an indexed dispute.
LEMMA OpenStep ==
  ASSUME SubgraphInv, NEW d \in Indexed, NEW y,
         disputes'[d] = y, \A x \in DisputeIds \ {d} : disputes'[x] = disputes[x],
         y.initiator = disputes[d].initiator, y.counterparty = disputes[d].counterparty,
         y.outcome = disputes[d].outcome, ~disputes[d].resolved, ~y.resolved,
         UNCHANGED <<listening, heard, burned>>,
         NEW e, Saved(index'.disputes, index.disputes, d, e), ShownAs(e, y),
         NEW ofDay, NEW inTotal, Amounts(ofDay), Amounts(inTotal),
         Booked(index, index', {}, Nothing, ofDay, inTotal),
         SettlesNothing(ofDay, inTotal)
  PROVE  IndexInv'
  <1>1. /\ listening /\ d \in DisputeIds /\ Exists(d)
        /\ disputes[d].initiator \in DOMAIN index.parties
        /\ disputes[d].counterparty \in DOMAIN index.parties
    BY IndexedFacts
  <1>2. d \in Indexed'
    BY DEF Saved, Indexed
  <1>3. burned \in Nat /\ heard \in Nat /\ IInv /\ IndexInv
    BY <1>1, DisputeFacts DEF SubgraphInv
  <1>4. Balanced(d, {}, Nothing, ofDay, inTotal)
    BY <1>2, <1>3, BalancedOpen
  <1>5. /\ disputes'[d].initiator # NoOne
        /\ ShownAs(e, disputes'[d])
        /\ disputes'[d].initiator \in DOMAIN index.parties \cup {}
        /\ disputes'[d].counterparty \in DOMAIN index.parties \cup {}
    BY <1>1 DEF Exists
  <1>6. Amounts(Nothing)
    BY DEF Amounts, Nothing
  <1> QED
    BY <1>1, <1>3, <1>4, <1>5, <1>6, HandledStep

\* depositStake, and StakeDeposited.
LEMMA StakeIndexed ==
  ASSUME SubgraphInv, NEW d \in DisputeIds, Stake(d)
  PROVE  IndexInv' /\ PendingWhileOpen'
  <1> DEFINE x == disputes[d]
             amount == x.initiatorStake
             y == [x EXCEPT !.counterpartyStake = amount]
             p == x.counterparty
  <1>1. x \in Dispute /\ amount \in Nat /\ amount > 0 /\ ~x.resolved /\ Exists(d)
    BY DisputeFacts DEF Stake, DepositStake, Dispute
  <1>2. disputes' = [disputes EXCEPT ![d] = y]
    BY DEF Stake, DepositStake, SubgraphInv, IInv, ILRMTypeOK
  <1>3. /\ y.initiator = x.initiator /\ y.counterparty = x.counterparty
        /\ y.counterpartyStake = amount /\ y.counterCount = x.counterCount
        /\ y.accepted = x.accepted /\ y.resolved = x.resolved /\ y.outcome = x.outcome
    BY <1>1 DEF Dispute
  <1>4. IInv /\ IndexInv
    BY DEF SubgraphInv
  <1>5. /\ index' = IF listening THEN HandleStakeDeposited(index, d, p, amount, now) ELSE index
        /\ UNCHANGED <<listening, heard, burned>>
    BY DEF Stake, Indexes, Quietly, DepositStake
  <1> HIDE DEF y
  <1>6. disputes'[d] = y /\ \A e \in DisputeIds \ {d} : disputes'[e] = disputes[e]
    BY <1>2, <1>4, OneField
  <1>7. PendingWhileOpen'
    BY <1>1, <1>3, <1>6, DisputeFacts, PendingStep DEF SubgraphInv
  <1>8. CASE d \notin Indexed
    <2>1. index' = index
      BY <1>5, <1>8, StaysAsItIs DEF HandleStakeDeposited
    <2> QED
      BY <1>4, <1>5, <1>6, <1>7, <1>8, <2>1, ElsewhereStep, DisputeFacts
  <1>9. CASE d \in Indexed
    <2> DEFINE e == index.disputes[d]
               after == StakeShown(e, amount)
               ofDay == [totalStaked |-> amount]
               inTotal == [totalValueStaked |-> amount]
    <2>1. /\ listening /\ Known(index, d) /\ ShownAs(e, x) /\ EntityFields \subseteq DOMAIN e
          /\ e.initiator = x.initiator /\ e.counterparty = x.counterparty
          /\ x.initiator \in DOMAIN index.parties /\ x.counterparty \in DOMAIN index.parties
          /\ x.initiator # x.counterparty
      BY <1>9, IndexedFacts
    <2>2. index' = HandleStakeDeposited(index, d, e.counterparty, amount, now)
      BY <1>5, <2>1
    <2>3. /\ Booked(index, index', {}, Nothing, ofDay, inTotal)
          /\ Saved(index'.disputes, index.disputes, d, after)
      BY <1>1, <2>1, <2>2, DepositedIs, DisputeFacts
    <2>4. ShownAs(after, y)
      <3>1. /\ after.initiator = e.initiator /\ after.counterparty = e.counterparty
            /\ after.stake["counterparty"] = amount /\ after.state = "ACTIVE"
            /\ after.counterCount = e.counterCount /\ after.accepted = e.accepted
            /\ after.outcome = e.outcome
        BY <2>1 DEF StakeShown, EntityFields, IndexRoles
      <3> HIDE DEF after, e, x
      <3> QED
        BY <1>1, <1>3, <2>1, <3>1 DEF ShownAs
    <2>5. Amounts(Nothing) /\ Amounts(ofDay) /\ Amounts(inTotal)
      BY <1>1 DEF Amounts, Nothing
    <2>6. SettlesNothing(ofDay, inTotal)
      BY DEF SettlesNothing, Amount, DailyCounters, ProtocolCounters
    <2> HIDE DEF after, ofDay, inTotal
    <2> QED
      BY <1>1, <1>3, <1>5, <1>6, <1>7, <1>9, <2>3, <2>4, <2>5, <2>6, OpenStep
  <1> QED
    BY <1>8, <1>9

\* submitLLMProposal, and ProposalSubmitted.
LEMMA ProposeIndexed ==
  ASSUME SubgraphInv, NEW d \in DisputeIds, NEW text \in Proposals, Propose(d, text)
  PROVE  IndexInv' /\ PendingWhileOpen'
  <1> DEFINE x == disputes[d]
             y == [x EXCEPT !.llmProposal = text]
  <1>1. x \in Dispute /\ ~x.resolved
    BY DisputeFacts DEF Propose, SubmitLLMProposal
  <1>2. disputes' = [disputes EXCEPT ![d] = y]
    BY DEF Propose, SubmitLLMProposal, SubgraphInv, IInv, ILRMTypeOK
  <1>3. /\ y.initiator = x.initiator /\ y.counterparty = x.counterparty
        /\ y.counterpartyStake = x.counterpartyStake /\ y.counterCount = x.counterCount
        /\ y.accepted = x.accepted /\ y.resolved = x.resolved /\ y.outcome = x.outcome
    BY <1>1 DEF Dispute
  <1>4. IInv /\ IndexInv
    BY DEF SubgraphInv
  <1>5. /\ index' = IF listening THEN HandleProposalSubmitted(index, d, text, now) ELSE index
        /\ UNCHANGED <<listening, heard, burned>>
    BY DEF Propose, Indexes, SubmitLLMProposal, tokenVars
  <1> HIDE DEF y
  <1>6. disputes'[d] = y /\ \A e \in DisputeIds \ {d} : disputes'[e] = disputes[e]
    BY <1>2, <1>4, OneField
  <1>7. PendingWhileOpen'
    BY <1>1, <1>3, <1>6, DisputeFacts, PendingStep DEF SubgraphInv
  <1>8. CASE d \notin Indexed
    <2>1. index' = index
      BY <1>5, <1>8, StaysAsItIs DEF HandleProposalSubmitted
    <2> QED
      BY <1>4, <1>5, <1>6, <1>7, <1>8, <2>1, ElsewhereStep, DisputeFacts
  <1>9. CASE d \in Indexed
    <2> DEFINE e == index.disputes[d]
               after == [e EXCEPT !.accepted = {}]
               ofDay == [proposals |-> 1]
    <2>1. /\ listening /\ Known(index, d) /\ ShownAs(e, x) /\ EntityFields \subseteq DOMAIN e
      BY <1>9, IndexedFacts
    <2>2. /\ Booked(index, index', {}, Nothing, ofDay, Nothing)
          /\ Saved(index'.disputes, index.disputes, d, after)
      BY <1>5, <2>1, ProposedIs, DisputeFacts
    <2>3. ShownAs(after, y)
      <3>1. /\ after.initiator = e.initiator /\ after.counterparty = e.counterparty
            /\ after.stake = e.stake /\ after.state = e.state
            /\ after.counterCount = e.counterCount /\ after.accepted = {}
            /\ after.outcome = e.outcome
        BY <2>1 DEF EntityFields
      <3> HIDE DEF after, e, x
      <3> QED
        BY <1>3, <2>1, <3>1 DEF ShownAs
    <2>4. Amounts(Nothing) /\ Amounts(ofDay)
      BY DEF Amounts, Nothing
    <2>5. SettlesNothing(ofDay, Nothing)
      BY DEF SettlesNothing, Amount, DailyCounters, ProtocolCounters, Nothing
    <2> HIDE DEF after, ofDay
    <2> QED
      BY <1>1, <1>3, <1>5, <1>6, <1>7, <1>9, <2>2, <2>3, <2>4, <2>5, OpenStep
  <1> QED
    BY <1>8, <1>9

\* counterPropose, and CounterProposed.
LEMMA CounterIndexed ==
  ASSUME SubgraphInv, NEW d \in DisputeIds, NEW r \in Roles, NEW value \in MsgValues,
         Counter(d, r, value)
  PROVE  IndexInv' /\ PendingWhileOpen'
  <1> DEFINE x == disputes[d]
             y == Renegotiated(x)
  <1>1. x \in Dispute /\ ~x.resolved
    BY DisputeFacts DEF Counter, CounterPropose
  <1>2. disputes' = [disputes EXCEPT ![d] = y]
    BY DEF Counter, CounterPropose
  <1>3. /\ y.initiator = x.initiator /\ y.counterparty = x.counterparty
        /\ y.counterpartyStake = x.counterpartyStake
        /\ y.accepted = {} /\ y.resolved = x.resolved /\ y.outcome = x.outcome
    BY <1>1 DEF Dispute, Renegotiated
  <1>4. IInv /\ IndexInv
    BY DEF SubgraphInv
  <1> HIDE DEF y
  <1>5. disputes'[d] = y /\ \A e \in DisputeIds \ {d} : disputes'[e] = disputes[e]
    BY <1>2, <1>4, OneField
  <1>6. /\ index' = IF listening THEN HandleCounterProposed(index, d, x[r], y.counterCount, now)
                   ELSE index
        /\ UNCHANGED <<listening, heard, burned>>
    BY <1>5 DEF Counter, Indexes, Quietly, CounterPropose, tokenVars
  <1>7. PendingWhileOpen'
    BY <1>1, <1>3, <1>5, DisputeFacts, PendingStep DEF SubgraphInv
  <1>8. CASE d \notin Indexed
    <2>1. index' = index
      BY <1>6, <1>8, StaysAsItIs DEF HandleCounterProposed
    <2> QED
      BY <1>4, <1>5, <1>6, <1>7, <1>8, <2>1, ElsewhereStep, DisputeFacts
  <1>9. CASE d \in Indexed
    <2> DEFINE e == index.disputes[d]
               number == y.counterCount
               after == [e EXCEPT !.counterCount = number, !.accepted = {}]
               ofDay == [counterProposals |-> 1]
               inTotal == [totalCounterProposals |-> 1]
    <2>1. /\ listening /\ Known(index, d) /\ ShownAs(e, x) /\ EntityFields \subseteq DOMAIN e
      BY <1>9, IndexedFacts
    <2>2. /\ Booked(index, index', {}, Nothing, ofDay, inTotal)
          /\ Saved(index'.disputes, index.disputes, d, after)
      BY <1>6, <2>1, CounteredIs, DisputeFacts
    <2>3. ShownAs(after, y)
      <3>1. /\ after.initiator = e.initiator /\ after.counterparty = e.counterparty
            /\ after.stake = e.stake /\ after.state = e.state
            /\ after.counterCount = y.counterCount /\ after.accepted = {}
            /\ after.outcome = e.outcome
        BY <2>1 DEF EntityFields
      <3> HIDE DEF after, e, x
      <3> QED
        BY <1>3, <2>1, <3>1 DEF ShownAs
    <2>4. Amounts(Nothing) /\ Amounts(ofDay) /\ Amounts(inTotal)
      BY DEF Amounts, Nothing
    <2>5. SettlesNothing(ofDay, inTotal)
      BY DEF SettlesNothing, Amount, DailyCounters, ProtocolCounters
    <2> HIDE DEF after, ofDay, inTotal
    <2> QED
      BY <1>1, <1>3, <1>5, <1>6, <1>7, <1>9, <2>2, <2>3, <2>4, <2>5, OpenStep
  <1> QED
    BY <1>8, <1>9

\* What is booked when a dispute is settled, the burn aside.
SettlesAs(outcome, each, ofDay, inTotal) ==
  /\ Amount(each, "totalDisputes") = 0
  /\ Amount(each, "disputesResolved") = One(outcome = "AcceptedProposal")
  /\ Amount(each, "disputesTimedOut") = One(outcome = "TimeoutWithBurn")
  /\ Amount(ofDay, "disputesInitiated") = 0
  /\ Amount(ofDay, "disputesResolved") = 1
  /\ Amount(ofDay, "disputesTimedOut") = One(outcome = "TimeoutWithBurn")
  /\ Amount(ofDay, "counterProposals") = 0
  /\ Amount(inTotal, "totalDisputes") = 0
  /\ Amount(inTotal, "activeDisputes") = -1
  /\ Amount(inTotal, "resolvedDisputes") = 1
  /\ Amount(inTotal, "timedOutDisputes") = One(outcome = "TimeoutWithBurn")
  /\ Amount(inTotal, "totalCounterProposals") = 0

\* A step that settles an indexed dispute.
LEMMA SettledStep ==
  ASSUME SubgraphInv, NEW d \in Indexed, NEW y, NEW outcome, outcome # "Pending",
         disputes'[d] = y, \A x \in DisputeIds \ {d} : disputes'[x] = disputes[x],
         NEW p, NEW c, p = disputes[d].initiator, c = disputes[d].counterparty,
         y.initiator = p, y.counterparty = c,
         y.outcome = outcome, ~disputes[d].resolved, y.resolved,
         UNCHANGED <<listening, heard>>, burned' \in Nat,
         NEW e, Saved(index'.disputes, index.disputes, d, e), ShownAs(e, y),
         NEW each, NEW ofDay, NEW inTotal, Amounts(each), Amounts(ofDay), Amounts(inTotal),
         Booked(index, index', {p, c}, each, ofDay, inTotal),
         Amount(inTotal, "totalValueBurned") <= burned' - burned,
         Amount(ofDay, "totalBurned") = Amount(inTotal, "totalValueBurned"),
         Amount(inTotal, "totalValueBurned") - 2 * Amount(each, "totalBurned")
           \in 0 .. One(outcome = "TimeoutWithBurn"),
         SettlesAs(outcome, each, ofDay, inTotal)
  PROVE  IndexInv'
  <1>1. /\ listening /\ d \in DisputeIds /\ Exists(d)
        /\ p \in DOMAIN index.parties
        /\ c \in DOMAIN index.parties
    BY IndexedFacts
  <1>2. d \in Indexed'
    BY DEF Saved, Indexed
  <1>3. burned \in Nat /\ heard \in Nat /\ IInv /\ IndexInv /\ disputes[d].outcome = "Pending"
    BY <1>1, DisputeFacts DEF SubgraphInv
  <1>4. /\ One(d \in Indexed') - One(d \in Indexed) + (heard' - heard) = 0
        /\ One(d \in Unresolved') - One(d \in Unresolved) + (heard' - heard) = -1
    <2>1. d \in Unresolved /\ d \notin Unresolved'
      BY DEF Unresolved
    <2> QED
      BY <1>2, <1>3, <2>1 DEF One
  <1>5. ASSUME NEW q, NEW final \in {"AcceptedProposal", "TimeoutWithBurn"}
        PROVE  One(d \in Ended(q, final)') - One(d \in Ended(q, final))
                 = IF q \in {p, c} THEN One(outcome = final) ELSE 0
    <2>1. d \notin Ended(q, final)
      BY <1>3 DEF Ended
    <2>2. d \in Ended(q, final)' <=> q \in {p, c} /\ outcome = final
      BY <1>2 DEF Ended, InvolvedIn
    <2> QED
      BY <2>1, <2>2 DEF One
  <1>6. Balanced(d, {p, c}, each, ofDay, inTotal)
    BY <1>4, <1>5 DEF Balanced, SettlesAs
  <1>7. /\ disputes'[d].initiator # NoOne
        /\ ShownAs(e, disputes'[d])
        /\ disputes'[d].initiator \in DOMAIN index.parties \cup {p, c}
        /\ disputes'[d].counterparty \in DOMAIN index.parties \cup {p, c}
    BY <1>1 DEF Exists
  <1> QED
    BY <1>1, <1>3, <1>6, <1>7, HandledStep

\* How a resolution is shown.
LEMMA ResolvedShown ==
  ASSUME NEW e, EntityFields \subseteq DOMAIN e, NEW x, ShownAs(e, x), NEW outcome, NEW y,
         y.initiator = x.initiator, y.counterparty = x.counterparty,
         y.counterpartyStake = x.counterpartyStake, y.counterCount = x.counterCount,
         x.accepted \subseteq y.accepted, y.resolved, y.outcome = outcome,
         NEW after, after = [e EXCEPT !.state = "RESOLVED", !.outcome = OutcomeName(outcome)]
  PROVE  ShownAs(after, y)
  <1>1. /\ after.initiator = e.initiator /\ after.counterparty = e.counterparty
        /\ after.stake = e.stake /\ after.state = "RESOLVED"
        /\ after.counterCount = e.counterCount /\ after.accepted = e.accepted
        /\ after.outcome = OutcomeName(outcome)
    BY DEF EntityFields
  <1> QED
    BY <1>1 DEF ShownAs

\* What a resolution books, and that it burns nothing by itself.
LEMMA ResolvedAmounts ==
  ASSUME NEW outcome
  PROVE  /\ Amounts(Credited(outcome)) /\ Amounts(ResolvedToday(outcome))
         /\ Amounts(ResolvedTotal(outcome))
         /\ SettlesAs(outcome, Credited(outcome), ResolvedToday(outcome), ResolvedTotal(outcome))
         /\ Amount(Credited(outcome), "totalBurned") = 0
         /\ Amount(ResolvedToday(outcome), "totalBurned") = 0
         /\ Amount(ResolvedTotal(outcome), "totalValueBurned") = 0
  BY DEF SettlesAs, Amount, Amounts, Credited, ResolvedToday, ResolvedTotal, One

\* A settlement that burns nothing, after an event that books nothing.
LEMMA SettledWithoutBurn ==
  ASSUME SubgraphInv, NEW d \in Indexed, NEW y, NEW outcome, outcome # "Pending",
         disputes'[d] = y, \A x \in DisputeIds \ {d} : disputes'[x] = disputes[x],
         y.initiator = disputes[d].initiator, y.counterparty = disputes[d].counterparty,
         y.counterpartyStake = disputes[d].counterpartyStake,
         y.counterCount = disputes[d].counterCount,
         disputes[d].accepted \subseteq y.accepted,
         y.outcome = outcome, ~disputes[d].resolved, y.resolved,
         UNCHANGED <<listening, heard, burned>>,
         NEW store, Booked(index, store, {}, Nothing, Nothing, Nothing),
         NEW e, Saved(store.disputes, index.disputes, d, e),
         EntityFields \subseteq DOMAIN e,
         e.initiator = disputes[d].initiator, e.counterparty = disputes[d].counterparty,
         e.stake = index.disputes[d].stake, e.counterCount = index.disputes[d].counterCount,
         e.accepted \subseteq y.accepted,
         NEW day, index' = HandleDisputeResolved(store, d, outcome, day)
  PROVE  IndexInv'
  <1> DEFINE p == disputes[d].initiator
             c == disputes[d].counterparty
             each == Credited(outcome)
             ofDay == ResolvedToday(outcome)
             inTotal == ResolvedTotal(outcome)
             after == [e EXCEPT !.state = "RESOLVED", !.outcome = OutcomeName(outcome)]
  <1>1. /\ p \in DOMAIN index.parties /\ c \in DOMAIN index.parties /\ p # c
        /\ ShownAs(index.disputes[d], disputes[d]) /\ d \in DisputeIds
    BY IndexedFacts
  <1>2. IsStore(store) /\ DOMAIN store.parties = DOMAIN index.parties
    BY DEF Booked, PartiesBooked
  <1>3. Known(store, d) /\ store.disputes[d] = e
    BY DEF Saved, Known
  <1>4. IsStore(index) /\ burned \in Nat
    BY <1>1, DisputeFacts
  <1>5. /\ Booked(store, index', {p, c}, each, ofDay, inTotal)
        /\ Saved(index'.disputes, store.disputes, d, after)
    BY <1>1, <1>2, <1>3, ResolvedIs
  <1>6. Saved(index'.disputes, index.disputes, d, after)
    BY <1>5 DEF Saved
  <1>7. ShownAs(after, y)
    <2>1. /\ after.initiator = e.initiator /\ after.counterparty = e.counterparty
          /\ after.stake = e.stake /\ after.state = "RESOLVED"
          /\ after.counterCount = e.counterCount /\ after.accepted = e.accepted
          /\ after.outcome = OutcomeName(outcome)
      BY DEF EntityFields
    <2> HIDE DEF after
    <2> QED
      BY <1>1, <2>1 DEF ShownAs
  <1>8. Booked(index, index', {p, c}, each, ofDay, inTotal)
    BY <1>4, <1>5, ResolvedAmounts, BookedAfterNothing
  <1>9. 0 <= burned' - burned /\ burned' \in Nat
    BY <1>4
  <1>10. 0 - 2 * 0 \in 0 .. One(outcome = "TimeoutWithBurn")
    BY DEF One
  <1> HIDE DEF each, ofDay, inTotal, after, p, c
  <1>11. /\ Amounts(each) /\ Amounts(ofDay) /\ Amounts(inTotal)
         /\ Amount(inTotal, "totalValueBurned") = 0 /\ Amount(ofDay, "totalBurned") = 0
         /\ Amount(each, "totalBurned") = 0
         /\ SettlesAs(outcome, each, ofDay, inTotal)
    BY ResolvedAmounts DEF each, ofDay, inTotal
  <1>12. /\ p = disputes[d].initiator /\ c = disputes[d].counterparty
         /\ y.initiator = p /\ y.counterparty = c
    BY DEF p, c
  <1>13. /\ Amount(inTotal, "totalValueBurned") <= burned' - burned
         /\ Amount(inTotal, "totalValueBurned") - 2 * Amount(each, "totalBurned")
              \in 0 .. One(outcome = "TimeoutWithBurn")
    BY <1>9, <1>10, <1>11
  <1>14. Amount(ofDay, "totalBurned") = Amount(inTotal, "totalValueBurned")
    BY <1>11
  <1> QED
    BY <1>6, <1>7, <1>8, <1>9, <1>11, <1>12, <1>13, <1>14, SettledStep

\* acceptProposal, and AcceptanceSignaled with DisputeResolved after the second.
LEMMA AcceptIndexed ==
  ASSUME SubgraphInv, NEW d \in DisputeIds, NEW r \in Roles, Accept(d, r)
  PROVE  IndexInv' /\ PendingWhileOpen'
  <1> DEFINE x == disputes[d]
             y == disputes'[d]
             p == x[r]
             signaled == HandleAcceptanceSignaled(index, d, p)
  <1>1. IInv /\ IndexInv /\ x \in Dispute
    BY DisputeFacts DEF SubgraphInv
  <1>2. AcceptProposal(d, r)
    BY DEF Accept
  <1>3. /\ Open(d)
        /\ \/ disputes' = [disputes EXCEPT ![d] =
                 SettledAs([x EXCEPT !.accepted = Roles], "AcceptedProposal")]
           \/ disputes' = [disputes EXCEPT ![d] = [x EXCEPT !.accepted = @ \cup {r}]]
    BY <1>1, <1>2, AcceptLeaves
  <1>4. UNCHANGED <<listening, heard, burned>>
    BY DEF Accept, Quietly, AcceptProposal, ResolveAccepted, tokenVars
  <1>5. index' = IF ~listening THEN index
                 ELSE IF y.resolved THEN HandleDisputeResolved(signaled, d, y.outcome, now)
                 ELSE signaled
    BY DEF Accept, Indexes
  <1>6. \A e \in DisputeIds \ {d} : disputes'[e] = disputes[e]
    BY <1>1, <1>3, OneField
  <1>7. ~x.resolved /\ x.outcome = "Pending"
    BY <1>3, DisputeFacts DEF Open
  <1>8. /\ y.initiator = x.initiator /\ y.counterparty = x.counterparty
        /\ y.counterpartyStake = x.counterpartyStake /\ y.counterCount = x.counterCount
        /\ x.accepted \cup {r} \subseteq y.accepted
        /\ \/ y.resolved /\ y.outcome = "AcceptedProposal"
           \/ ~y.resolved /\ y.outcome = "Pending"
    <2>1. CASE disputes' = [disputes EXCEPT ![d] =
                  SettledAs([x EXCEPT !.accepted = Roles], "AcceptedProposal")]
      <3>1. y = [x EXCEPT !.accepted = Roles, !.resolved = TRUE, !.outcome = "AcceptedProposal"]
        BY <1>1, <2>1, OneField DEF SettledAs, Dispute
      <3> QED
        BY <1>1, <3>1 DEF Dispute
    <2>2. CASE disputes' = [disputes EXCEPT ![d] = [x EXCEPT !.accepted = @ \cup {r}]]
      <3>1. y = [x EXCEPT !.accepted = @ \cup {r}]
        BY <1>1, <2>2, OneField
      <3> QED
        BY <1>1, <1>7, <3>1 DEF Dispute
    <2> QED
      BY <1>3, <2>1, <2>2
  <1>9. PendingWhileOpen'
    <2> HIDE DEF x, y
    <2>1. ~y.resolved => y.outcome = "Pending"
      BY <1>8
    <2> QED
      BY <1>6, <2>1, PendingStep DEF SubgraphInv, y
  <1>10. CASE d \notin Indexed
    <2>1. listening => ~Known(index, d)
      BY <1>10, StaysAsItIs
    <2>2. listening => signaled = index
      BY <2>1 DEF HandleAcceptanceSignaled
    <2> HIDE DEF signaled, y
    <2>3. index' = index
      BY <1>5, <2>1, <2>2 DEF HandleDisputeResolved
    <2> QED
      BY <1>1, <1>4, <1>6, <1>9, <1>10, <2>3, ElsewhereStep, DisputeFacts
  <1>11. CASE d \in Indexed
    <2> DEFINE e == index.disputes[d]
               after == [e EXCEPT !.accepted = @ \cup RoleOf(e, p)]
    <2>1. /\ listening /\ Known(index, d) /\ ShownAs(e, x) /\ EntityFields \subseteq DOMAIN e
          /\ e.initiator = x.initiator /\ e.counterparty = x.counterparty
          /\ x.initiator # x.counterparty
      BY <1>11, IndexedFacts
    <2>2. /\ Booked(index, signaled, {}, Nothing, Nothing, Nothing)
          /\ Saved(signaled.disputes, index.disputes, d, after)
      BY <2>1, SignaledIs, DisputeFacts
    <2>3. RoleOf(e, p) = {r}
      <3>1. CASE r = "initiator"
        BY <2>1, <3>1 DEF RoleOf
      <3>2. CASE r = "counterparty"
        BY <2>1, <3>2 DEF RoleOf
      <3> QED
        BY <3>1, <3>2 DEF Roles
    <2>4. /\ after.initiator = e.initiator /\ after.counterparty = e.counterparty
          /\ after.stake = e.stake /\ after.state = e.state
          /\ after.counterCount = e.counterCount /\ after.accepted = e.accepted \cup {r}
          /\ after.outcome = e.outcome /\ DOMAIN after = DOMAIN e
      BY <2>1, <2>3 DEF EntityFields
    <2> HIDE DEF after, signaled, x, y, e, p
    <2>5. y = disputes'[d] /\ x = disputes[d] /\ e = index.disputes[d]
      BY DEF x, y, e
    <2>6. EntityFields \subseteq DOMAIN after /\ after.accepted \subseteq y.accepted
      BY <1>8, <2>1, <2>4 DEF ShownAs
    <2>7. CASE ~y.resolved
      <3>1. index' = signaled
        BY <1>5, <2>1, <2>7
      <3>2. ShownAs(after, y)
        BY <1>7, <1>8, <2>1, <2>4, <2>6, <2>7 DEF ShownAs
      <3>3. Amounts(Nothing) /\ SettlesNothing(Nothing, Nothing)
        BY DEF Amount, Amounts, Nothing, SettlesNothing
      <3> QED
        BY <1>4, <1>6, <1>7, <1>8, <1>9, <1>11, <2>2, <2>5, <2>7, <3>1, <3>2, <3>3, OpenStep
    <2>8. CASE y.resolved
      <3>1. index' = HandleDisputeResolved(signaled, d, "AcceptedProposal", now)
        BY <1>5, <1>8, <2>1, <2>8
      <3>2. y.outcome = "AcceptedProposal" /\ "AcceptedProposal" # "Pending"
        BY <1>8, <2>8
      <3>3. x.accepted \subseteq y.accepted
        BY <1>8
      <3> QED
        BY <1>4, <1>6, <1>7, <1>8, <1>9, <1>11, <2>1, <2>2, <2>4, <2>5, <2>6, <2>8,
           <3>1, <3>2, <3>3, SettledWithoutBurn, SMTT(30)
    <2> QED
      BY <2>7, <2>8
  <1> QED
    BY <1>10, <1>11

\* What the event says was burnt is no more than what is.
LEMMA BurnShown ==
  ASSUME IInv, NEW d \in DisputeIds
  PROVE  BurnAmount(d) \in Nat /\ BurnAmount(d) <= Burnt(StakeOf(d)) /\ Burnt(StakeOf(d)) \in Nat
  <1>1. StakeOf(d) \in Nat
    BY StakeType
  <1> DEFINE total == StakeOf(d)
  <1> HIDE DEF total
  <1>2. ASSUME total \in Nat
        PROVE  LET burnt == (total * 50) \div 100
               IN burnt \in Nat /\ burnt <= total - 2 * ((total - burnt) \div 2)
                  /\ total - 2 * ((total - burnt) \div 2) \in Nat
    <2> DEFINE burnt == (total * 50) \div 100
    <2>1. burnt \in Nat /\ burnt <= total
      BY <1>2
    <2> HIDE DEF burnt
    <2>2. ASSUME NEW rest \in Nat PROVE 2 * (rest \div 2) <= rest /\ 2 * (rest \div 2) \in Nat
      OBVIOUS
    <2>3. total - burnt \in Nat
      BY <1>2, <2>1
    <2> DEFINE rest == total - burnt
               share == rest \div 2
    <2>4. 2 * share <= rest /\ 2 * share \in Nat
      BY <2>2, <2>3
    <2> HIDE DEF share
    <2>5. burnt <= total - 2 * share /\ total - 2 * share \in Nat
      BY <1>2, <2>1, <2>4
    <2> QED
      BY <2>1, <2>5 DEF burnt, share
  <1> QED
    BY <1>1, <1>2 DEF BurnAmount, Burnt, ShareOf, BURN_PERCENTAGE, total

\* enforceTimeout burns from a matched stake only.
LEMMA TimeOutSettles ==
  ASSUME IInv, NEW d \in DisputeIds, EnforceTimeout(d)
  PROVE  \/ /\ Staked(d)
            /\ disputes' = [disputes EXCEPT ![d] = SettledAs(disputes[d], "TimeoutWithBurn")]
            /\ burned' = burned + Burnt(StakeOf(d))
         \/ /\ ~Staked(d)
            /\ disputes' = [disputes EXCEPT ![d] = SettledAs(disputes[d], "DefaultLicenseApplied")]
            /\ burned' = burned
  <1>1. \A outcome : [disputes EXCEPT ![d].resolved = TRUE, ![d].outcome = outcome]
                       = [disputes EXCEPT ![d] = SettledAs(disputes[d], outcome)]
    BY DEF SettledAs, IInv, ILRMTypeOK
  <1>2. CASE ~Staked(d) /\ ResolveNonParticipation(d)
    BY <1>1, <1>2 DEF ResolveNonParticipation
  <1>3. CASE Staked(d) /\ ResolveTimeout(d)
    BY <1>1, <1>3 DEF ResolveTimeout
  <1> QED
    BY <1>2, <1>3 DEF EnforceTimeout, Exit

\* enforceTimeout, and StakesBurned or DefaultLicenseApplied before DisputeResolved.
LEMMA TimeOutIndexed ==
  ASSUME SubgraphInv, NEW d \in DisputeIds, TimeOut(d)
  PROVE  IndexInv' /\ PendingWhileOpen'
  <1> DEFINE x == disputes[d]
             y == disputes'[d]
             b == BurnAmount(d)
             first == IF Staked(d) THEN HandleStakesBurned(index, d, b, now)
                                   ELSE HandleDefaultLicenseApplied(index, d)
  <1>1. IInv /\ IndexInv /\ x \in Dispute /\ burned \in Nat /\ IsStore(index)
    BY DisputeFacts DEF SubgraphInv
  <1>2. EnforceTimeout(d) /\ Open(d)
    BY DEF TimeOut, EnforceTimeout
  <1>3. UNCHANGED <<listening, heard>> /\ heard \in Nat
    BY DisputeFacts DEF TimeOut, Quietly
  <1>4. index' = IF listening THEN HandleDisputeResolved(first, d, y.outcome, now) ELSE index
    BY DEF TimeOut, Indexes
  <1>5. /\ b \in Nat /\ b <= Burnt(StakeOf(d)) /\ Burnt(StakeOf(d)) \in Nat
    BY <1>1, BurnShown
  <1>6. \E outcome \in {"TimeoutWithBurn", "DefaultLicenseApplied"} :
             /\ disputes' = [disputes EXCEPT ![d] = SettledAs(x, outcome)]
             /\ IF Staked(d) THEN /\ outcome = "TimeoutWithBurn"
                                  /\ burned' = burned + Burnt(StakeOf(d))
                             ELSE outcome = "DefaultLicenseApplied" /\ burned' = burned
    BY <1>1, <1>2, TimeOutSettles
  <1>7. PICK outcome \in {"TimeoutWithBurn", "DefaultLicenseApplied"} :
             /\ disputes' = [disputes EXCEPT ![d] = SettledAs(x, outcome)]
             /\ IF Staked(d) THEN /\ outcome = "TimeoutWithBurn"
                                  /\ burned' = burned + Burnt(StakeOf(d))
                             ELSE outcome = "DefaultLicenseApplied" /\ burned' = burned
    BY <1>6
  <1>8. y = SettledAs(x, outcome) /\ \A e \in DisputeIds \ {d} : disputes'[e] = disputes[e]
    BY <1>1, <1>7, OneField
  <1>9. /\ y.initiator = x.initiator /\ y.counterparty = x.counterparty
        /\ y.counterpartyStake = x.counterpartyStake /\ y.counterCount = x.counterCount
        /\ y.accepted = x.accepted /\ y.resolved /\ y.outcome = outcome /\ outcome # "Pending"
    <2>1. x \in Dispute
      BY <1>1
    <2> HIDE DEF x, y
    <2>2. y = [x EXCEPT !.resolved = TRUE, !.outcome = outcome]
      BY <1>8 DEF SettledAs
    <2> QED
      BY <2>1, <2>2 DEF Dispute
  <1>10. burned' \in Nat /\ burned <= burned' /\ ~x.resolved
    BY <1>1, <1>2, <1>5, <1>7 DEF Open
  <1>11. PendingWhileOpen'
    BY <1>8, <1>9, PendingStep DEF SubgraphInv
  <1>12. CASE d \notin Indexed
    <2>1. listening => ~Known(index, d)
      BY <1>12, StaysAsItIs
    <2>2. listening => first = index
      BY <2>1 DEF HandleStakesBurned, HandleDefaultLicenseApplied
    <2> HIDE DEF first, y
    <2>3. index' = index
      BY <1>4, <2>1, <2>2 DEF HandleDisputeResolved
    <2> QED
      BY <1>1, <1>3, <1>8, <1>10, <1>11, <1>12, <2>3, ElsewhereStep
  <1>13. ASSUME d \in Indexed, ~Staked(d)
         PROVE  IndexInv'
    <2> DEFINE e == index.disputes[d]
               after == [e EXCEPT !.outcome = "DEFAULT_LICENSE_APPLIED"]
    <2>1. /\ listening /\ Known(index, d) /\ ShownAs(e, x) /\ EntityFields \subseteq DOMAIN e
          /\ e.initiator = x.initiator /\ e.counterparty = x.counterparty
      BY <1>13, IndexedFacts
    <2>2. /\ Booked(index, first, {}, Nothing, Nothing, Nothing)
          /\ Saved(first.disputes, index.disputes, d, after)
      <3>1. first = HandleDefaultLicenseApplied(index, d)
        BY <1>13
      <3> HIDE DEF first
      <3> QED
        BY <1>1, <2>1, <3>1, DefaultAppliedIs
    <2>3. /\ after.initiator = e.initiator /\ after.counterparty = e.counterparty
          /\ after.stake = e.stake /\ after.counterCount = e.counterCount
          /\ after.accepted = e.accepted /\ DOMAIN after = DOMAIN e
      BY <2>1 DEF EntityFields
    <2> HIDE DEF after, first, x, y, e
    <2>4. y = disputes'[d] /\ x = disputes[d] /\ e = index.disputes[d]
      BY DEF x, y, e
    <2>5. /\ EntityFields \subseteq DOMAIN after /\ after.accepted \subseteq y.accepted
          /\ x.accepted \subseteq y.accepted
      BY <1>9, <2>1, <2>3 DEF ShownAs
    <2>6. index' = HandleDisputeResolved(first, d, outcome, now)
      BY <1>4, <1>9, <2>1
    <2>7. UNCHANGED <<listening, heard, burned>>
      BY <1>3, <1>7, <1>13
    <2> QED
      BY <1>8, <1>9, <1>10, <1>13, <2>1, <2>2, <2>3, <2>4, <2>5, <2>6, <2>7,
         SettledWithoutBurn, ZenonT(30)
  <1>14. ASSUME d \in Indexed, Staked(d)
         PROVE  IndexInv'
    <2> DEFINE e == index.disputes[d]
               p == x.initiator
               c == x.counterparty
               each1 == [totalBurned |-> b \div 2]
               ofDay1 == [totalBurned |-> b]
               inTotal1 == [totalValueBurned |-> b]
               each2 == Credited(outcome)
               ofDay2 == ResolvedToday(outcome)
               inTotal2 == ResolvedTotal(outcome)
               each == [totalBurned |-> b \div 2, disputesResolved |-> 0, disputesTimedOut |-> 1]
               ofDay == [totalBurned |-> b, disputesResolved |-> 1, disputesTimedOut |-> 1]
               inTotal == [totalValueBurned |-> b, activeDisputes |-> -1,
                           resolvedDisputes |-> 1, timedOutDisputes |-> 1]
               between == [e EXCEPT !.burnAmount = b]
               after == [between EXCEPT !.state = "RESOLVED", !.outcome = OutcomeName(outcome)]
    <2>1. /\ listening /\ Known(index, d) /\ ShownAs(e, x) /\ EntityFields \subseteq DOMAIN e
          /\ e.initiator = x.initiator /\ e.counterparty = x.counterparty
          /\ p \in DOMAIN index.parties /\ c \in DOMAIN index.parties /\ p # c
      BY <1>14, IndexedFacts
    <2>2. /\ Booked(index, first, {p, c}, each1, ofDay1, inTotal1)
          /\ Saved(first.disputes, index.disputes, d, between)
      <3>1. first = HandleStakesBurned(index, d, b, now)
        BY <1>14
      <3> HIDE DEF first, b
      <3> QED
        BY <1>1, <1>5, <2>1, <3>1, BurnedIs
    <2>3. /\ between.initiator = e.initiator /\ between.counterparty = e.counterparty
          /\ between.stake = e.stake /\ between.counterCount = e.counterCount
          /\ between.accepted = e.accepted /\ DOMAIN between = DOMAIN e
      BY <2>1 DEF EntityFields
    <2>4. /\ Amounts(each1) /\ Amounts(ofDay1) /\ Amounts(inTotal1)
          /\ Amounts(each2) /\ Amounts(ofDay2) /\ Amounts(inTotal2)
          /\ Amounts(each) /\ Amounts(ofDay) /\ Amounts(inTotal)
      BY <1>5, ResolvedAmounts DEF Amounts
    <2>5. outcome = "TimeoutWithBurn"
      BY <1>7, <1>14
    <2>6. /\ \A f \in Tallies : Amount(each, f) = Amount(each1, f) + Amount(each2, f)
          /\ \A f \in DailyCounters : Amount(ofDay, f) = Amount(ofDay1, f) + Amount(ofDay2, f)
          /\ \A f \in ProtocolCounters :
                Amount(inTotal, f) = Amount(inTotal1, f) + Amount(inTotal2, f)
      <3>1. b \in Int /\ b \div 2 \in Int
        BY <1>5
      <3> HIDE DEF b
      <3>2. \A f \in Tallies : Amount(each, f) = Amount(each1, f) + Amount(each2, f)
        BY <2>5, <3>1 DEF Amount, Credited, One, Tallies, PartyCounters
      <3>3. \A f \in DailyCounters : Amount(ofDay, f) = Amount(ofDay1, f) + Amount(ofDay2, f)
        BY <2>5, <3>1 DEF Amount, ResolvedToday, One, DailyCounters
      <3>4. \A f \in ProtocolCounters :
               Amount(inTotal, f) = Amount(inTotal1, f) + Amount(inTotal2, f)
        BY <2>5, <3>1 DEF Amount, ResolvedTotal, One, ProtocolCounters
      <3> QED
        BY <3>2, <3>3, <3>4
    <2>7. /\ Amount(inTotal, "totalValueBurned") = b /\ Amount(ofDay, "totalBurned") = b
          /\ Amount(each, "totalBurned") = b \div 2
          /\ SettlesAs(outcome, each, ofDay, inTotal)
      BY <2>5 DEF SettlesAs, Amount, One
    <2>8. b <= burned' - burned /\ b - 2 * (b \div 2) \in 0 .. One(outcome = "TimeoutWithBurn")
      <3>1. burned' - burned = Burnt(StakeOf(d))
        BY <1>1, <1>5, <1>7, <1>14
      <3>2. ASSUME NEW n \in Nat PROVE n - 2 * (n \div 2) \in 0 .. 1
        OBVIOUS
      <3>3. One(outcome = "TimeoutWithBurn") = 1
        BY <2>5 DEF One
      <3> HIDE DEF b
      <3> QED
        BY <1>5, <3>1, <3>2, <3>3
    <2> HIDE DEF each, ofDay, inTotal, each1, ofDay1, inTotal1, each2, ofDay2, inTotal2
    <2>9. first.disputes[d] = between /\ Known(first, d) /\ IsStore(first)
      BY <2>2 DEF Saved, Booked, Known
    <2>10. p \in DOMAIN first.parties /\ c \in DOMAIN first.parties
      BY <2>1, <2>2 DEF Booked, PartiesBooked
    <2>11. EntityFields \subseteq DOMAIN between
      BY <2>1, <2>3
    <2> HIDE DEF between, first, e, b, x, y, p, c
    <2>12. index' = HandleDisputeResolved(first, d, outcome, now)
      BY <1>4, <1>9, <2>1
    <2>13. /\ Booked(first, index', {p, c}, each2, ofDay2, inTotal2)
           /\ Saved(index'.disputes, first.disputes, d, after)
      <3>1. p = between.initiator /\ c = between.counterparty
        BY <2>1, <2>3 DEF p, c
      <3> QED
        BY <2>1, <2>9, <2>10, <2>12, <3>1, ResolvedIs DEF each2, ofDay2, inTotal2
    <2>14. ShownAs(after, y)
      <3>1. /\ after.initiator = between.initiator /\ after.counterparty = between.counterparty
            /\ after.stake = between.stake /\ after.state = "RESOLVED"
            /\ after.counterCount = between.counterCount /\ after.accepted = between.accepted
            /\ after.outcome = OutcomeName(outcome)
        BY <2>11 DEF EntityFields
      <3> HIDE DEF after
      <3> QED
        BY <1>9, <2>1, <2>3, <3>1 DEF ShownAs
    <2> HIDE DEF after
    <2>15. Saved(index'.disputes, index.disputes, d, after)
      BY <2>2, <2>13 DEF Saved
    <2>16. Booked(index, index', {p, c}, each, ofDay, inTotal)
      BY <1>1, <2>2, <2>4, <2>6, <2>13, BookedTwice
    <2>17. /\ Amount(inTotal, "totalValueBurned") <= burned' - burned
           /\ Amount(ofDay, "totalBurned") = Amount(inTotal, "totalValueBurned")
           /\ Amount(inTotal, "totalValueBurned") - 2 * Amount(each, "totalBurned")
                \in 0 .. One(outcome = "TimeoutWithBurn")
      BY <2>7, <2>8
    <2>18. /\ y = disputes'[d] /\ p = disputes[d].initiator /\ c = disputes[d].counterparty
           /\ ~disputes[d].resolved
           /\ y.initiator = p /\ y.counterparty = c
      BY <1>9, <1>10 DEF x, y, p, c
    <2>19. /\ y.outcome = outcome /\ outcome # "Pending" /\ y.resolved
           /\ UNCHANGED <<listening, heard>> /\ burned' \in Nat
           /\ \A z \in DisputeIds \ {d} : disputes'[z] = disputes[z]
      BY <1>3, <1>8, <1>9, <1>10
    <2>20. disputes'[d] = y
      BY <2>18
    <2> QED
      BY <1>14, <2>4, <2>7, <2>14, <2>15, <2>16, <2>17, <2>18, <2>19, <2>20, SettledStep, SMTT(60)
  <1> QED
    BY <1>11, <1>12, <1>13, <1>14

\* How a new dispute is shown.
LEMMA NewShown ==
  ASSUME NEW p, NEW c, NEW x, x.initiator = p, x.counterparty = c,
         x.counterpartyStake = 0, x.counterCount = 0, x.accepted = {}, ~x.resolved
  PROVE  ShownAs(NewDispute(p, c), x)
  <1> DEFINE e == NewDispute(p, c)
  <1>1. /\ e.initiator = p /\ e.counterparty = c /\ e.stake["counterparty"] = 0
        /\ e.state = "INITIATED" /\ e.outcome = "" /\ e.accepted = {} /\ e.counterCount = 0
    BY DEF NewDispute, IndexRoles
  <1>2. ~(x.counterpartyStake > 0)
    OBVIOUS
  <1> HIDE DEF e
  <1>3. e.state = IF x.counterpartyStake > 0 THEN "ACTIVE" ELSE "INITIATED"
    BY <1>1, <1>2
  <1>4. e.accepted \subseteq x.accepted
    BY <1>1
  <1>5. /\ e.initiator = x.initiator /\ e.counterparty = x.counterparty
        /\ e.stake["counterparty"] = x.counterpartyStake /\ e.counterCount = x.counterCount
    BY <1>1
  <1>6. ~x.resolved /\ e.outcome = ""
    BY <1>1
  <1>7. ShownAs(e, x)
    BY <1>3, <1>4, <1>5, <1>6, Zenon DEF ShownAs
  <1> QED
    BY <1>7 DEF e

\* A new dispute, of the contract or of a voluntary request.
LEMMA NewlyIndexed ==
  ASSUME IInv, IndexInv, listening, UNCHANGED <<listening, burned>>,
         NEW d \in DisputeIds \cup {Voluntary}, d \notin Indexed, Voluntary \notin DisputeIds,
         \A x \in DisputeIds \ {d} : disputes'[x] = disputes[x],
         NEW p \in Accounts, NEW c \in Accounts,
         heard' = heard + (IF d = Voluntary THEN 1 ELSE 0),
         d # Voluntary => /\ disputes'[d].initiator = p /\ disputes'[d].counterparty = c
                          /\ disputes'[d].counterpartyStake = 0
                          /\ disputes'[d].counterCount = 0
                          /\ disputes'[d].accepted = {} /\ ~disputes'[d].resolved
                          /\ disputes'[d].outcome = "Pending",
         NEW day, index' = HandleDisputeInitiated(index, d, p, c, day)
  PROVE  IndexInv'
  <1> DEFINE each == [totalDisputes |-> 1]
             ofDay == [disputesInitiated |-> 1]
             inTotal == [totalDisputes |-> 1, activeDisputes |-> 1]
             e == NewDispute(p, c)
             who == {p, c}
  <1>1. /\ IsStore(index) /\ heard \in Nat /\ burned \in Nat /\ NoOne \notin Accounts
    BY RegistryAssumption DEF IndexInv, StoreOK, IInv, ILRMTypeOK, RegistryAssumption
  <1>2. /\ Booked(index, index', who, each, ofDay, inTotal)
        /\ Saved(index'.disputes, index.disputes, d, e)
    BY <1>1, InitiatedIs
  <1>3. Amounts(each) /\ Amounts(ofDay) /\ Amounts(inTotal)
    BY DEF Amounts
  <1>4. d # Voluntary => ShownAs(e, disputes'[d])
    BY NewShown
  <1>5. Balanced(d, who, each, ofDay, inTotal)
    <2>1. /\ Amount(inTotal, "totalDisputes") = 1 /\ Amount(inTotal, "activeDisputes") = 1
          /\ Amount(inTotal, "resolvedDisputes") = 0 /\ Amount(inTotal, "timedOutDisputes") = 0
          /\ Amount(inTotal, "totalCounterProposals") = 0 /\ Amount(inTotal, "totalValueBurned") = 0
          /\ Amount(ofDay, "disputesInitiated") = 1 /\ Amount(ofDay, "disputesResolved") = 0
          /\ Amount(ofDay, "disputesTimedOut") = 0 /\ Amount(ofDay, "counterProposals") = 0
          /\ Amount(ofDay, "totalBurned") = 0
          /\ Amount(each, "totalDisputes") = 1 /\ Amount(each, "disputesResolved") = 0
          /\ Amount(each, "disputesTimedOut") = 0 /\ Amount(each, "totalBurned") = 0
      BY DEF Amount
    <2>2. /\ d \in Indexed' <=> d # Voluntary
          /\ d \in Unresolved' <=> d # Voluntary
          /\ d \notin Unresolved
      BY <1>2 DEF Saved, Indexed, Unresolved
    <2>3. \A q : \A outcome \in {"AcceptedProposal", "TimeoutWithBurn"} :
             d \notin Ended(q, outcome) /\ d \notin Ended(q, outcome)'
      BY DEF Ended, InvolvedIn, Indexed
    <2> HIDE DEF each, ofDay, inTotal, who
    <2>4. /\ One(d \in Indexed') - One(d \in Indexed) + (heard' - heard) = 1
          /\ One(d \in Unresolved') - One(d \in Unresolved) + (heard' - heard) = 1
      BY <1>1, <2>2 DEF One
    <2>5. \A q \in Accounts :
             /\ (IF q \in who THEN Amount(each, "disputesResolved") ELSE 0)
                  = One(d \in Ended(q, "AcceptedProposal")')
                      - One(d \in Ended(q, "AcceptedProposal"))
             /\ (IF q \in who THEN Amount(each, "disputesTimedOut") ELSE 0)
                  = One(d \in Ended(q, "TimeoutWithBurn")')
                      - One(d \in Ended(q, "TimeoutWithBurn"))
      BY <2>1, <2>3 DEF One
    <2>6. /\ Amount(inTotal, "totalDisputes")
               = One(d \in Indexed') - One(d \in Indexed) + (heard' - heard)
          /\ Amount(inTotal, "activeDisputes")
               = One(d \in Unresolved') - One(d \in Unresolved) + (heard' - heard)
      BY <2>1, <2>4
    <2>7. /\ Amount(inTotal, "totalValueBurned") - 2 * Amount(each, "totalBurned")
               \in 0 .. Amount(inTotal, "timedOutDisputes")
          /\ Amount(inTotal, "totalValueBurned") <= burned' - burned
      BY <1>1, <2>1
    <2> QED
      BY <2>1, <2>5, <2>6, <2>7 DEF Balanced
  <1>6. heard' \in Nat /\ burned' \in Nat
    BY <1>1
  <1>7. d # Voluntary => /\ disputes'[d].initiator # NoOne
                         /\ ShownAs(e, disputes'[d])
                         /\ disputes'[d].initiator \in DOMAIN index.parties \cup who
                         /\ disputes'[d].counterparty \in DOMAIN index.parties \cup who
    BY <1>1, <1>4
  <1> HIDE DEF each, ofDay, inTotal, who, e
  <1> QED
    BY <1>2, <1>3, <1>5, <1>6, <1>7, HandledStep

\* initiateBreachDispute, and DisputeInitiated.
LEMMA InitiateIndexed ==
  ASSUME SubgraphInv, NEW p \in Accounts, NEW c \in Accounts, NEW base \in Stakes,
         NEW t \in FallbackTerms, Initiate(p, c, base, t)
  PROVE  IndexInv' /\ PendingWhileOpen'
  <1> DEFINE d == disputeCounter
             stake == EscalatedStake(p, c, base)
             y == [NoDispute EXCEPT !.initiator = p, !.counterparty = c,
                                    !.initiatorStake = stake, !.startTime = now, !.fallback = t]
  <1>1. /\ d \in DisputeIds /\ c # p
        /\ disputes' = [disputes EXCEPT ![d] = y]
        /\ UNCHANGED <<listening, heard, burned>>
        /\ index' = IF listening THEN HandleDisputeInitiated(index, d, p, c, now) ELSE index
    BY DEF Initiate, InitiateBreachDispute, Quietly, Indexes
  <1>2. IInv /\ IndexInv /\ burned \in Nat /\ Voluntary \notin DisputeIds
    BY <1>1, DisputeFacts, SubgraphAssumption DEF SubgraphInv, SubgraphAssumption
  <1>3. /\ y.initiator = p /\ y.counterparty = c /\ y.counterpartyStake = 0 /\ y.counterCount = 0
        /\ y.accepted = {} /\ ~y.resolved /\ y.outcome = "Pending"
    BY DEF NoDispute
  <1> HIDE DEF y
  <1>4. disputes'[d] = y /\ \A e \in DisputeIds \ {d} : disputes'[e] = disputes[e]
    BY <1>1, <1>2, OneField
  <1>5. d \notin Indexed
    <2>1. ~Exists(d)
      BY <1>1, <1>2, RegistryAssumption
         DEF IInv, DisputesWellFormed, ILRMTypeOK, RegistryAssumption
    <2> QED
      BY <1>2, <2>1 DEF IndexInv, Mirrored
  <1>6. PendingWhileOpen'
    BY <1>3, <1>4, PendingStep DEF SubgraphInv
  <1>7. CASE ~listening
    <2>1. index' = index /\ burned' \in Nat /\ burned <= burned'
      BY <1>1, <1>2, <1>7
    <2> QED
      BY <1>1, <1>2, <1>4, <1>5, <1>6, <2>1, ElsewhereStep
  <1>8. CASE listening
    <2>1. d # Voluntary
      BY <1>1, <1>2
    <2>2. index' = HandleDisputeInitiated(index, d, p, c, now)
      BY <1>1, <1>8
    <2>3. heard' = heard + (IF d = Voluntary THEN 1 ELSE 0)
      BY <1>1, <2>1, DisputeFacts
    <2>4. /\ disputes'[d].initiator = p /\ disputes'[d].counterparty = c
          /\ disputes'[d].counterpartyStake = 0
          /\ disputes'[d].counterCount = 0
          /\ disputes'[d].accepted = {} /\ ~disputes'[d].resolved
          /\ disputes'[d].outcome = "Pending"
      BY <1>3, <1>4
    <2> QED
      BY <1>1, <1>2, <1>4, <1>5, <1>6, <1>8, <2>2, <2>3, <2>4, NewlyIndexed
  <1> QED
    BY <1>7, <1>8

\* initiateVoluntaryRequest, and the DisputeInitiated it emits.
LEMMA VoluntaryIndexed ==
  ASSUME SubgraphInv, NEW p \in Accounts, NEW c \in Accounts, RequestVoluntarily(p, c)
  PROVE  IndexInv' /\ PendingWhileOpen'
  <1>1. /\ UNCHANGED <<disputes, listening, burned>>
        /\ heard' = IF listening THEN heard + 1 ELSE heard
        /\ index' = IF listening THEN HandleDisputeInitiated(index, Voluntary, p, c, now) ELSE index
    BY DEF RequestVoluntarily, Indexes, vars, ilrmVars, tokenVars
  <1>2. IInv /\ IndexInv /\ burned \in Nat /\ Voluntary \notin DisputeIds
    BY SubgraphAssumption DEF SubgraphInv, SubgraphAssumption, IInv, ILRMTypeOK
  <1>3. PendingWhileOpen'
    BY <1>1 DEF SubgraphInv, PendingWhileOpen
  <1>4. Voluntary \notin Indexed
    BY DEF Indexed
  <1>5. \A x \in DisputeIds \ {Voluntary} : disputes'[x] = disputes[x]
    BY <1>1
  <1>6. CASE ~listening
    BY <1>1, <1>2, <1>3, <1>4, <1>5, <1>6, ElsewhereStep
  <1>7. CASE listening
    BY <1>1, <1>2, <1>3, <1>4, <1>5, <1>7, NewlyIndexed
  <1> QED
    BY <1>6, <1>7

\* Every transaction is a step of the contract.
LEMMA ChainStep == SubgraphNext => [Next]_vars
  BY DEF SubgraphNext, StartBlockReached, Unheard, RequestVoluntarily, Initiate, DisputeStep,
         Stake, TimeOut, Accept, Counter, Propose, Next, UsersNext, PartyNext, UserNext, vars

\* Every step keeps the invariant.
LEMMA IndexStep == SubgraphInv /\ [SubgraphNext]_subgraphVars => SubgraphInv'
  <1> SUFFICES ASSUME SubgraphInv, [SubgraphNext]_subgraphVars PROVE SubgraphInv'
    OBVIOUS
  <1>1. IInv /\ StakesInv /\ PendingWhileOpen /\ IndexInv /\ burned \in Nat
    BY DEF SubgraphInv, IInv, ILRMTypeOK
  <1>2. [Next]_vars
    BY ChainStep DEF subgraphVars
  <1>3. IInv' /\ StakesInv'
    BY <1>1, <1>2, NextInv, StakesStep
  <1>4. CASE UNCHANGED <<disputes, index, heard, burned>> /\ (listening => listening')
    <2>1. PendingWhileOpen'
      BY <1>1, <1>4 DEF PendingWhileOpen
    <2>2. burned' \in Nat /\ burned <= burned'
      BY <1>1, <1>4
    <2> QED
      BY <1>1, <1>3, <1>4, <2>1, <2>2, UnindexedStep DEF SubgraphInv
  <1>5. ASSUME NEW p \in Accounts, NEW c \in Accounts, RequestVoluntarily(p, c)
        PROVE  SubgraphInv'
    BY <1>3, <1>5, VoluntaryIndexed DEF SubgraphInv
  <1>6. ASSUME NEW p \in Accounts, NEW c \in Accounts, NEW base \in Stakes,
               NEW t \in FallbackTerms, Initiate(p, c, base, t)
        PROVE  SubgraphInv'
    BY <1>3, <1>6, InitiateIndexed DEF SubgraphInv
  <1>7. ASSUME NEW d \in DisputeIds, DisputeStep(d)
        PROVE  SubgraphInv'
    <2>1. CASE Stake(d)
      BY <1>3, <2>1, StakeIndexed DEF SubgraphInv
    <2>2. CASE TimeOut(d)
      BY <1>3, <2>2, TimeOutIndexed DEF SubgraphInv
    <2>3. CASE \E r \in Roles : Accept(d, r)
      BY <1>3, <2>3, AcceptIndexed DEF SubgraphInv
    <2>4. CASE \E r \in Roles, value \in MsgValues : Counter(d, r, value)
      BY <1>3, <2>4, CounterIndexed DEF SubgraphInv
    <2>5. CASE \E text \in Proposals : Propose(d, text)
      BY <1>3, <2>5, ProposeIndexed DEF SubgraphInv
    <2> QED
      BY <1>7, <2>1, <2>2, <2>3, <2>4, <2>5 DEF DisputeStep
  <1>8. CASE StartBlockReached
    BY <1>4, <1>8 DEF StartBlockReached, vars, ilrmVars, tokenVars
  <1>9. CASE Unheard
    BY <1>4, <1>9 DEF Unheard, Quietly, ilrmVars, tokenVars
  <1>10. CASE UNCHANGED subgraphVars
    BY <1>4, <1>10 DEF subgraphVars, vars, ilrmVars, tokenVars
  <1> QED
    BY <1>5, <1>6, <1>7, <1>8, <1>9, <1>10 DEF SubgraphNext

\* The contract as deployed and an empty store.
LEMMA IndexInit == SubgraphInit => SubgraphInv
  <1> SUFFICES ASSUME SubgraphInit PROVE SubgraphInv
    OBVIOUS
  <1>1. Init /\ index = EmptyStore /\ heard = 0
    BY DEF SubgraphInit
  <1>2. IInv /\ StakesInv
    BY <1>1, InitInv, StakesInit
  <1>3. PendingWhileOpen /\ burned = 0
    BY <1>1 DEF Init, PendingWhileOpen, NoDispute
  <1>4. /\ DOMAIN index.disputes = {} /\ DOMAIN index.parties = {} /\ DOMAIN index.daily = {}
        /\ index.protocol = NewProtocol /\ StoreFields \subseteq DOMAIN index
    BY <1>1 DEF EmptyStore, StoreFields
  <1>5. IsTable(index.parties, PartyCounters) /\ IsTable(index.daily, DailyCounters)
    BY <1>4, FS_EmptySet DEF IsTable
  <1>6. StoreOK
    BY <1>1, <1>4, <1>5, NewCounters DEF StoreOK, IsStore, Blank, Zeros
  <1>7. Indexed = {}
    BY <1>4 DEF Indexed
  <1>8. /\ Unresolved = {} /\ \A p, outcome : Ended(p, outcome) = {}
        /\ Cardinality({}) = 0
    BY <1>7, FS_EmptySet DEF Unresolved, Ended, InvolvedIn
  <1>9. /\ \A f : Sum(index.parties, f) = 0 /\ Sum(index.daily, f) = 0
        /\ \A p, f : At(index.parties, p, f) = 0
    BY <1>4, SumEmpty DEF Sum, SumFunction, At
  <1>10. \A f \in ProtocolCounters : index.protocol[f] = 0
    BY <1>4, NewCounters DEF Zeros
  <1>11. Tallied
    <2> DEFINE total == index.protocol
    <2>1. /\ total.totalDisputes = 0 /\ total.activeDisputes = 0 /\ total.resolvedDisputes = 0
          /\ total.timedOutDisputes = 0 /\ total.totalValueBurned = 0
          /\ total.totalCounterProposals = 0
      BY <1>10 DEF ProtocolCounters
    <2>2. Cardinality(Indexed) = 0 /\ Cardinality(Unresolved) = 0 /\ heard = 0
          /\ \A p, outcome : Cardinality(Ended(p, outcome)) = 0
      BY <1>1, <1>7, <1>8
    <2> HIDE DEF total
    <2> QED
      BY <1>3, <1>9, <2>1, <2>2 DEF Tallied, total
  <1> QED
    BY <1>2, <1>3, <1>6, <1>7, <1>11 DEF SubgraphInv, IndexInv, Mirrored

\* The contract's invariants, and that the index mirrors its disputes and
\* its metrics balance, hold in every state.
THEOREM IndexInvariance == SubgraphSpec => []SubgraphInv
  BY IndexInit, IndexStep, PTL DEF SubgraphSpec

\* What the subgraph shows of a dispute is what the contract holds, for any
\* number of disputes and whatever block indexing starts at.
THEOREM DisputesMirroredHolds == SubgraphSpec => []DisputesMirrored
  <1>1. SubgraphInv => DisputesMirrored
    BY DEF SubgraphInv, IndexInv, Mirrored, DisputesMirrored
  <1> QED
    BY <1>1, IndexInvariance, PTL

\* The totals, the days and the parties' tallies agree with the disputes and with
\* one another, and what is shown as burnt never exceeds what was.
THEOREM MetricsAddUpHolds == SubgraphSpec => []MetricsAddUp
  <1>1. SubgraphInv => MetricsAddUp
    <2> SUFFICES ASSUME SubgraphInv PROVE MetricsAddUp
      OBVIOUS
    <2>1. Tallied /\ DOMAIN index.parties \subseteq Accounts
      BY DEF SubgraphInv, IndexInv, StoreOK, IsStore
    <2>2. \A p \in DOMAIN index.parties :
             /\ index.parties[p].disputesResolved = With(InvolvedIn(p), "AcceptedProposal")
             /\ index.parties[p].disputesTimedOut = With(InvolvedIn(p), "TimeoutWithBurn")
      BY <2>1 DEF Tallied, At, With, Ended
    <2> QED
      BY <2>1, <2>2 DEF Tallied, MetricsAddUp, Unresolved
  <1> QED
    BY <1>1, IndexInvariance, PTL
=============================================================================

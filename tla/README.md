# Formal models of NatLangChain ILR

TLA+ specifications of the IP & Licensing Reconciliation module: the contracts
under `contracts/`, the SDK, the subgraph's ILRM handlers and the deployment script, read
together with the tests and the documents beside them. TLC checks the models on
small instances; TLAPS proves the central invariants for every value of the
constants.

    tlc -workers 2 -config ILRM_safety.cfg MC_ILRM
    tlapm ILRM_proofs.tla

`PROJECT.json` lists the runs, the hazards and the properties that answer to
each, the source lines behind every definition, and one plausible mistake per
property that the property catches.

## 1. Inventory

The core is a set of Solidity contracts. Calls are transactions: one step,
committed as a whole or reverted without a trace. What makes them hard is not
threads but *order*: any account may call any function at any time, between any
two days, and a contract's transaction runs through other contracts. Around them
run TypeScript clients on an event loop, where the hard part is what happens
between an `await` and its continuation, and which timer or socket a callback
belongs to; an indexer fed by the contracts' events; and a script that deploys.

| Component | State | Operations | Talks to |
| --- | --- | --- | --- |
| `ILRM` | disputes, stakes, cooldown per pair, incentive reserve, booked ETH, pause flag | initiate, deposit stake, submit/accept proposal, counter-propose, enforce timeout, reserves, treasury, pause | registry (freeze, unfreeze, fallback), oracle (verify), stake token |
| `AssetRegistry` | owner, status and dispute of each asset, list and index per owner, freeze list per dispute, licences | register, transfer, grant, revoke; freeze, unfreeze, apply fallback (authorised callers) | called by ILRM, MultiPartyILRM |
| `MultiPartyILRM` | parties, stakes, votes and quorum rule per dispute | create, join, stake, propose, accept, reject, counter, enforce timeout | registry, oracle, token |
| `Oracle` | registered keys, nonce and processed flag per dispute | submit, verify, reset, cancel | ILRM both ways |
| `Treasury` | subsidised disputes, usage and window per participant, caps, reserve, harassment scores | deposit, request subsidy, scores, withdrawals, pause | reads ILRM, moves tokens |
| `L3Bridge`, `L3StateVerifier` | bridged disputes, state commitments, commit-reveal fraud proofs | bridge, commit, finalise, challenge, settle, deprecate | ILRM may bridge disputes |
| `BatchQueue`, `L3DisputeBatcher`, `DummyTransactionGenerator` | queues, batches, escrowed value | queue, cancel, release, execute | calls ILRM |
| `GovernanceTimelock` | scheduled operations, delays, pending list | schedule, execute, cancel, emergency pause | all contracts |
| `ComplianceCouncil` | members, warrants, votes, signatures | request, vote, appeal, sign | escrowed data off chain |
| `DIDRegistry`, `IdentityVerifier` | identities, nonces | register, rotate, attest, verify | gate ILRM callers (optional) |
| `boundary-daemon.ts` | socket, buffer, reconnect timer and attempts, pending requests, audit log | connect, disconnect, reconnect, check policy, block | an external policy daemon |
| `boundary-siem.ts`, `errors.ts` (handler) | event queue, flush timer, posts and retries; alert socket | connect, disconnect, handle, flush, retry, receive alerts | an external SIEM, the daemon client |
| `errors.ts` (breaker, retry) | breaker's state and counters | execute, retry | any service |
| `config.ts` | the manager's clients and handler | initialize, shutdown | the two clients |
| `shamir.ts`, `threshold-bls.ts`, `ecies.ts` | none: pure functions | split, combine; deal, sign, aggregate; encrypt, decrypt | `viewing-keys.ts` |
| `viewing-keys.ts`, `ComplianceEscrow` | escrows, requests, votes, submitted shares | create, request, vote, submit, execute | each other |
| `fido2.ts`, `FIDOVerifier` | credentials, signature counters, challenges used, number of active keys | create, sign, register, revoke, verify | each other |
| Subgraph (`ilrm.ts`) | disputes, parties, days, protocol totals | one handler per event | events of `ILRM` |
| `deploy.js` | addresses saved per network | deploy, link, save | all contracts |

What makes each correct, and what is hard about it:

* **ILRM** - every stake leaves the contract exactly once and every token is
  accounted for; nobody is bound by a dispute that he ignores; agreement needs
  both parties' consent to the text they are bound by; there is an end whatever
  the parties do. Hard: proposals, acceptances and counter-proposals in any order;
  extensions that move deadlines while acceptance and timeout race; disputes of
  one initiator competing for the same assets and for one incentive reserve;
  registry calls that revert inside a resolution.
* **AssetRegistry** - an asset is frozen for one dispute, which can release it;
  the list and the index of each owner agree through swap-and-pop removals; a
  frozen asset stays put. Hard: two authorised callers keyed by bare dispute ids,
  id zero doubling as "none", overlapping freezes.
* **MultiPartyILRM** - the same with n parties: votes belong to one text, quorum
  is of the parties there are, late joiners included, remainders are not lost.
* **Oracle** - one proposal per dispute until reset, no signature used twice.
* **Treasury** - a subsidy once per participant and dispute, under three caps.
* **L3Bridge** - only unchallenged roots become final, the chain of roots neither
  forks nor loses a final root, whoever commits a fraud proof in time can reveal it,
  bonds stay there for those who posted them, settlements once. Hard: a challenge
  takes two transactions while anyone may finalise; roots finalise in any order;
  the owner pauses and changes the period in between.
* **Daemon client** - no permission that the daemon did not give, a record of each
  decision, and it recovers. Hard: closes of replaced sockets, timers that are never
  cancelled, late answers, lines cut in half.
* **SIEM client and error handler** - an accepted event is never lost in silence and
  handling always returns. Hard: batches overtaking each other's retries, disconnect
  in the middle, two alert sockets sharing one counter.
* **Breaker** - an outcome that comes late does not leave it in a state it should have
  left. Hard: calls that start under one state and end under another.
* **Manager** - the clients it has are those it is configured to have, and what
  survives an initialize that throws.
* **Secrets and signatures** - the threshold is where a secret appears, no share
  later and none earlier; a quorum signs for the group; a reveal follows the holders'
  votes and opens what was escrowed. Hard: field arithmetic at its edges, shares
  altered on their way, holders listed twice.
* **Hardware keys** - assertions count once and in order, for authenticators that
  count and those that do not, over revocation and registration anew.
* **Subgraph** - what it shows of a dispute is the contract's, and its totals, days
  and parties add up. Hard: indexing that starts late, events that say less than the
  contract did, ids shared by requests of several parties.
* **Deployment** - saved addresses are those of contracts that end up linked. Hard:
  a run cut short between two transactions.
* **Batching, governance, council, identity** - queued value comes back exactly once;
  no operation before its delay; no credential used twice.

The hazards found in the code, with their lines, are in `PROJECT.json`.

## 2. Plan

In order of what matters most to users' money and rights:

1. *(done)* `Block`, `AssetRegistry`, `RegistryProps` - the clock and the registry.
2. *(done)* `ILRM`, composed with the registry by EXTENDS because its transactions
   change both; `ILRMProps`; the abstract `Escrow` that it implements.
3. *(done)* `MultiPartyILRM` over the same registry module.
4. *(done)* `Registry_proofs`, `ILRM_proofs`; `FiniteAlgebra`, the facts about sums
   that the accounts rest on, and later about fields.
5. *(done)* `Oracle` composed with `ILRM`: nonces, resets, the double verification.
6. *(done)* `Treasury` beside the disputes of `ILRM`; `Treasury_proofs`.
7. *(done)* `L3Bridge` and the abstract `Rollup` that it implements; `L3Bridge_proofs`.
8. *(done)* `MultiParty_proofs`: votes, quorum and freezes for n parties.
9. *(done)* `DaemonClient`, `SiemClient`, `SiemAlerts`, `Breaker`, `SecurityManager`:
   the SDK's clients with the outside failing in every way; `Sdk_proofs`.
10. *(done)* `Shamir`, `ThresholdBls`, `Ecies`, `ViewingEscrow`, `Fido`: the SDK's
    cryptography at the level at which it can go wrong in protocol.
11. *(done)* `IlrmIndex` and `Subgraph`, composed with `ILRM` by EXTENDS;
    `Subgraph_proofs`; `Deployment`.

What is left would be `BatchQueue` with `L3DisputeBatcher`, `ComplianceCouncil` and
`DIDRegistry`; section 8 says why they come last. Parts that share no state share a
run: `MC_Contracts` and `MC_Sdk` choose one part at the start and leave the others
still, which asks the same as a run for each. Every safety property
that a run checks is proved as well; section 7 says from what, and what stays with the
runs.

## 3. The modules and the code

`Block` is the clock. All contract deadlines are multiples of a day, so a day is
the unit, and a transaction is one step that happens at one time: a revert leaves
no trace, so a `require` is a guard and a failing call is no step. Reentrancy is
excluded by `nonReentrant` on every function by which a party or the registry moves
stakes, assets or subsidies.

`AssetRegistry` keeps what `AssetRegistry.sol` keeps: `_assets` as one function per
field, the owners' lists and the one-based index, freeze lists, licences.
`FreezeAssets`, `UnfreezeAssets`, `ApplyFallbackLicense` are not actions but
conjuncts: whoever calls them builds them into a transaction. They carry the
guards of the registry, so a dispute whose resolution reverts *in the registry*
has no step - the reason for the dead end of section 6. `RegistrySpec` closes the
module with callers that use them in any order, the most general ILRM.

`ILRM` has one action per external function: `InitiateBreachDispute`,
`DepositStake`, `SubmitLLMProposal`, `AcceptProposal`, `CounterPropose`,
`EnforceTimeout`, `DepositTokenReserves`, `ReceiveEther`, `WithdrawTreasury`,
`Pause`, `Unpause`; internal functions (`_resolveAccepted`, `_resolveTimeout`,
`_resolveNonParticipation`, `_getEscalatedStake`) are operators of their own. The
stake token is external: balances of accounts (`wallet`), of the contract (`held`),
of the burn address (`burned`). Two history variables record what the code does not
keep and the properties need: the day a dispute began, and what each party accepted
in which round. `ILRMProps` states the properties; `Escrow` is the abstract
specification of the stakes alone, and `AbstractEscrow` the refinement mapping.

`MultiPartyILRM` is the same for n parties: a dispute is one record with the sets
of parties, stakers, acceptors and rejectors and the two counters that the contract
keeps beside the flags. `MultiPartyProps` states its properties.

`Oracle` extends `ILRM`: `SubmitProposal` is the one transaction that runs through
both contracts. Signatures are records (who, which dispute, which text, which
nonce); any operator can sign anything.

`Treasury` extends `ILRM`, because eligibility is read from the dispute when the
request is made. Three caps meet in `Capped`; the fixed windows that the contract
resets lazily are `WindowOver` and `StartOfWindow`; `CalculateSubsidy` is the view,
written down separately as in the code. History: every grant with its day.
`TreasuryProps` states the properties.

`L3Bridge` stands alone: nothing it does reads ILRM, and only the address set as
ILRM may bridge a dispute (no contract here makes that call). One action per
external function; settlements one by one and in batches are one action over a set
of disputes. Any data that hashes to a root counts as a fraud proof against it, as
in `_verifyFraudProof`, so a proof is a root and a salt; the commitment does not say
which root it is against, so it may be registered on another. The first root's
parent is whatever the sequencer says. History: the period in force when a fraud
proof was committed, and what the owner withdrew. `Rollup` is the abstract
specification; `Refutations` and `Since` in `L3BridgeProps` map the contract to it.
The unit of time is the reveal delay. Nothing in the contract refuses bytes32(0), its
own mark for no root, as a root, so `StateRoots` has it beside the others; only a fraud
proof that hashes to it is taken not to exist. Committing it makes the contract forget
its chain (section 6), so the two properties of the chain, `NoForks` and
`FinalIsInChain`, end where it has been committed; all others hold beyond.

`DaemonClient` has one action per callback of the event loop: `OnConnect`,
`OnConnectTimeout`, `OnClose`, `OnReconnectTimer`, `OnRequestTimeout` and so on, with the
promise continuations that run before the next callback inside the same step. A
socket is a name that is free again once closed. The daemon is external: it accepts,
answers in any order, hangs, dies and returns; while it is down its socket file may be
there or not, each time somebody looks (`MayBeMissing`). The history variables `gaveUp`
and `stranded` tell apart the two ways reconnection ends: at its limit, which is emitted,
and at a retry that finds no socket file, which only writes a line to the console and
arms nothing.

`SiemClient` is `ErrorHandler.handle` together with the queue and the posts of
`BoundarySIEM`; `SiemAlerts` is its other half, the alert socket, which shares no state
with the queue. `ErrorClasses` holds what of an error decides its fate, for it and for
`Breaker`, which is `CircuitBreaker` inside `withRetry`, called by several callers.
`SecurityManager` names a client after the call of `initialize` that made it, so that
one that nobody refers to any more can still be talked about.

`Shamir` computes: the exclusive or bit by bit, the shifts of `gfMultiplyNoTable`, log
and antilog tables, `split`, `combine`, over a field of 16
elements in which, as in the code's field of 256, 3 generates and 2 does not. The
constructor's comment that 3 generates is `GeneratorAssumption`.
`ThresholdBls` represents a point by its logarithm modulo a small prime, so that the
Feldman check, partial signatures and Lagrange interpolation are the code's
formulas, with one share perhaps altered. `Ecies` is symbolic. `ViewingEscrow` is the SDK's
calls and `ComplianceEscrow` in one - a holder submits through the SDK, which names the
index of the share that it seals, or calls the contract itself (`SubmitDirectly`), which
looks at the index and never at what is sealed -, `Fido` is `fido2.ts` and `FIDOVerifier` in one: the
interesting state is on both sides. `Deployment` is a script that may stop at any
statement, a chain that mines what was sent, and the next run.

`IlrmIndex` has one operator per handler of the subgraph, from an entity store and an
event to a store. `Subgraph` extends `ILRM`: each step is a transaction and the
handling of its events in their order; `SubgraphProps` says what a reader may rely on. The handlers read nothing but event and store,
so a lagging indexer shows an earlier state of this module.

An operator that nothing refers to, above the definition whose place it would
take, is a mistake that the code could contain (`CountersLeftInclusive` above
`CountersLeft`). `PROJECT.json` pairs each property with the mistake it catches.

## 4. The runs

Amounts are small but keep the arithmetic alive: stakes of 10 halve evenly and
escalate to 15, whose burn leaves a remainder; 5 in the multi-party runs leaves
dust among three. Windows are scaled to 1 or 2 days with their order kept. `Horizon`
bounds the days; an initiation that could not reach its deadline before the horizon
is left out, so every deadline of every dispute is within the model.

| Run | Instance | Shows |
| --- | --- | --- |
| `ilrm_safety` | 2 parties, 2 assets, 2 disputes, one counter-proposal, one extension | `TypeOK`, `FreezeLock`, `SilenceIsFree`, `ConsentIsCurrent`, `SettledInTime`, `FallbackOnExit`. Two disputes of one initiator compete for the same assets; either direction occurs |
| `ilrm_funds` | as above with one asset, incentive reserve, ETH; fair time, no symmetry | `FundsAccounted`, `ImplementsEscrow`, `DisputesWithAssetsResolve`. The reserve covers one incentive of two |
| `contracts` | either the registry: 2 accounts, 2 assets, 2 authorised contracts sharing ids 0 and 1; or the bridge: 3 roots besides bytes32(0), one fraud proof committed, two calls of the owner, ILRM or a sender of ETH, periods of 3, 2 and a refused 1, the reveal due exactly one unit after the commitment | `OwnershipIndexed`, `FrozenOnOneList`, `LicensesCounted`, `FreezeHolds` under arbitrary callers; `ImplementsRollup`, `NoForks`, `FinalIsInChain`, `RevealNotOvertaken`, `SettlementsCounted` (with the bridge's types). Two assets are what swap-and-pop needs: one removed, one moved. Three roots are what it takes to refute on top of two that became final in the wrong order; a second refutation comes through `SubmitFraudProof` |
| `multiparty` | 3 accounts, 2 texts, two configurations: simple majority with late joining, custom quorum of half without | `StakesAccounted` (with the types), `VotesAgree`, `QuorumConsents`, `FreezeBindsStakers` |
| `treasury` | 2 parties, 3 disputes, two ways to cap, any owner change | `SubsidizedOnce`, `WindowsHold` (a counter is the sum of its window's grants, and any stretch as long as a window holds at most two caps), `TreasuryAccounted`, `QuotedIsGranted`. Three grants to one participant are the least that could overrun two windows |
| `subgraph` | 2 disputes of two parties, one escalated to an odd stake, indexing from the first block or later, 2 proposals, 1 voluntary request | `DisputesMirrored`, `MetricsAddUp`. The odd stake is what makes a shared burn lose a token |
| `sdk` | one part at a time. Daemon: 2 sockets, one policy check, one block, a daemon that allows, denies or fails. SIEM: 4 errors of different fates, batches of 2, one retry, two connects or disconnects; 2 alert sockets. Breaker: 3 callers, threshold 2, two trials, one retry. Manager: 2 calls of initialize, 1 of shutdown. Shamir: up to 3 shares of 2 secrets. BLS: order 5, 3 participants. Escrow: three holders, or three places held by two; 2 requests. Keys: one that counts, one that does not, 3 signatures, 3 registrations. Deployment: 3 networks, 2 runs | `DecisionsAccounted`, `Recovers`; `EventsAccounted`, `HandlersReturn`, `AlertsResume`; `BreakerConsistent`; `ManagerConsistent`; `SecretByQuorum`; `QuorumActs`; `HoldersDecide`; `FidoKeys`; `DeploymentsLinked` |
| `ilrm_dead_end`, `ilrm_consent`, `multiparty_fallback`, `oracle_delivers`, `bridge_bonds` | the smallest instance that shows it | section 6 |

Named bounds: `Horizon`, `MaxTreasury`, `MaxReserves`, `MaxInflows` (accumulated
amounts), `MaxNonce`, `MaxChanges` (calls of the treasury owner's setters, the
connection to ILRM included), `MaxCommits` (fraud
proofs committed), in the bridge `MaxCalls` (calls of others than sequencer and
challengers), `RegistryHorizon` (days of the registry beside the bridge's), `ZeroCompany` (roots
committed in a behaviour that commits bytes32(0) as well), `MaxProposals` and
`MaxRequests` (what the subgraph hears of), and the finite `DisputeIds`. In the SDK:
`MaxFailures` (failures of the daemon), its `MaxCalls` (the same constant: calls of
connect and disconnect), `MaxSessions`, `MaxDials`, `MaxShares`, `MaxSigned`, `MaxKeys`,
`MaxRuns`. Two sockets are enough for one that is replaced while its callbacks are
still to come; two overlapping calls are what `initialize` needs to race with itself;
three callers let one fail late while another is a trial and a third is refused; three
shares with thresholds up to three hold the cases below, at and above the
threshold. Symmetry over accounts, assets and
roots is used in safety runs only. Deadlock is not checked: when the horizon is reached and every
dispute is settled, there is nothing left that anyone could do.

## 5. Fairness

`ilrm_funds`, `ilrm_dead_end` and `oracle_delivers` use it for the contracts. Days pass (weak
fairness of `Tick`). `enforceTimeout` is `external` without a caller check, so
any party whose stake is locked can call it once it no longer reverts: weak fairness
per dispute. Nothing is assumed of the parties, the oracle, the sponsors or the
owner in the two-party runs; in particular the owner may pause forever.
`oracle_delivers` assumes in addition that operators submit what is accepted, because
the question is what the contracts do with a submission.

In `sdk` fairness is the event loop's: timers that are armed fire, a socket that is
closing reports its close, a socket that is dialling opens or fails. For the daemon
client no more is assumed than that something of this happens as long as there is
something to do (`SocketDue`), in whatever order. The daemon accepts
a connection as long as it is up, and may go down again; it need never answer a
request, because the request's own timer ends it. A post is answered or times out; the
client's timer covers the wait for the headers and is cleared before the body is read
(`boundary-siem.ts:354`, `360`), so that for a body which stalls the run relies on the
timeout that Node's `fetch` has of its own.
`SiemClient` takes from `DaemonClient` that every policy check returns (`Recovers`). For
`Deployment`, the chain mines what was sent; nobody need ever run the script again.

The registry's owner could revoke the contract's authorisation. Liveness is
therefore stated for behaviours in which it stays authorised.

## 6. What disagrees

* `ilrm_dead_end` - `unfreezeAssets` requires a non-empty freeze list. A dispute
  whose initiator has no active asset (none, or all frozen by an earlier dispute)
  can be opened, staked and negotiated, but no resolution of it ever succeeds. The
  tests call resolution "mathematically guaranteed".
* `ilrm_consent` - a replaced proposal inherits the acceptance of the one before.
  Only `counterPropose` clears the flags. What does hold is `ConsentIsCurrent`: an
  acceptance never outlives its round.
* `multiparty_fallback` - the multi-party exits delete the freeze list before the
  fallback licence is applied to it. The two-party contract has the order right, and
  there the same property is checked and proved.
* `oracle_delivers` - the oracle raises the nonce before ILRM asks it to verify the
  same signature again.
* `bridge_bonds` - rewards for fraud proofs are paid from the whole balance, in which
  other challengers' bonds are held, and not from forfeited bonds alone. A later
  reveal then reverts for lack of funds and refutes nothing.

Also met while modelling, with no run of its own. In the bridge: a refuted root
that is not the last leaves its successors standing, and when they are refuted in
turn the next commitment builds on the refuted root, although the comment says that
the chain is rebuilt "from a valid point"; a commitment that lapses unrevealed is
never cleared and keeps other challengers of its root out; `latestFinalizedRoot`
moves back when an older root is finalised later; `deprecate` is called
irreversible but `setBridgeStatus` and `unpause` undo it; ILRM never calls
`bridgeDisputeToL3`; and `submitStateCommitment` takes bytes32(0) for a root like any
other (l.288-293), after which `latestCommittedRoot` says that there is none and the next
commitment may name any predecessor (l.297-304), forks included, although the comment above
says that they are prevented. In the contracts otherwise: the "rolling" participant cap of
`Treasury.sol` is a sequence of fixed windows, so the bound over a stretch as long
as a window is twice the cap (`WindowsHold` states and checks exactly that);
`depositBurn` and `updateHarassmentScore` of the treasury, open to ILRM alone, are
called by no contract; a counter-proposal is accepted after the deadline has passed and moves
it, as long as nobody has enforced it.

In the subgraph: a new proposal resets the acceptances shown (`ilrm.ts:221-227`), which
the contract keeps; the initiator's stake "will be set by StakeDeposited"
(`ilrm.ts:127`), an event that is never emitted for the initiator; all voluntary
requests share one id, and none of them ever ceases to be active; the other four
files subscribe to events whose signatures are not those the contracts emit. In the
SDK: `disconnect` of the daemon client sets a flag to "prevent auto-reconnect"
(`boundary-daemon.ts:279`), and the close that follows schedules a connection all the
same; a block that the daemon carried out is reported as an error when its answer is
lost; a retry that finds no socket file is the last one, whatever attempts are left, and
emits nothing (`boundary-daemon.ts:229-231`, `318-320`); `verifyShare` compares the public
half of a share only. In the verifier of hardware keys, `P256_P` (`FIDOVerifier.sol:39`) is not
the prime of P-256, so that genuine keys fail the check of `registerKey` at line 111 (the
check is not modelled), and a call that answers false uses up its challenge all the same.
In the escrow, an account listed twice has two shares and one vote: a request may then stay
pending with nobody left to vote, and its two shares can reach a coordinator over two
requests. `deploy.js` reports its
links as set when they are sent.

## 7. What is proved

For every number of accounts, assets, disputes, roots, callers and every value of the
constants, from the named assumptions on constants alone. Where a property counts or
sums over a set, that set is assumed finite: accounts, ids and dispute numbers have at
most 256 bits in the code.

* **Sums and fields** (`FiniteAlgebra`). The community modules define the sum of a
  function over a finite set by recursion, one chosen element at a time. The module shows
  that the recursion has a solution and does not depend on the choices, and derives what
  the accounts need: the sum changes by what one entry changes, is a natural number if
  the entries are, splits over two sets. The same is then shown of a fold with the
  table of any commutative and associative operation (`FoldRemove`, `FoldCongruence`,
  `FoldReindexed`), and of every recursive function whose argument falls in some rank
  (`RecursionExists`, `AlongTheRanks`). On these rests the algebra of secret sharing: over a
  field given by its tables, the values of a polynomial at as many points as it has
  coefficients determine the first of these (`InterpolatesAtZero`), and any values
  whatever belong to some polynomial of that length (`Interpolates`); the integers
  modulo a prime are such a field (`PrimeField`), in which a power inverts
  (`Fermat`). The library's induction theorems cannot be used here, so each induction
  looks for a smallest counterexample, among the natural numbers or the subsets of a
  finite set: `LeastNumber` rests on the library's fact that `<` is well founded.
* **Registry** (`Registry_proofs`). The inductive invariant `RegInv` is typing,
  `OwnershipIndexed`, `FrozenOnOneList` and `UnownedActive`: without the last one a
  registration could overwrite a frozen asset. `SwapAndPopProperty` and
  `PushIndexed` are the two facts about lists that everything rests on.
  `LicensesCounted` is inductive with the types: each call changes the set of active
  grants by one pair at most, and the counter by as much.
* **Freezes and types of ILRM** (`ILRM_proofs`, first part). `IInv` adds
  `DisputesWellFormed` (ids in order, unused ids zero, two distinct parties),
  `HeldByInitiator` (only an open dispute holds assets, and its initiator's) and
  `EtherBacked`. `FreezeLock` follows from `HeldByInitiator` and the registry's
  `FrozenOnOneList`.
* **Rounds** (`ILRM_proofs`, second part). `RoundsInv` ties each flag to an acceptance
  in the present round and `startTime` to the day of initiation plus the extensions
  granted; `ConsentIsCurrent` and the step property `SettledInTime` follow.
* **Settlement** (`ILRM_proofs`, third part). `FallbackOnExit` as a step property;
  `SilenceIsFree` from `StakesInv` (existing disputes carry the initiator's stake,
  silent accounts keep their tokens); and `EscrowImplemented`: initial states map to
  initial states, and each action of the contract to the escrow's pay-in, match,
  settlement or a stutter. `FundsAccounted` follows from `BooksInv`: what the contract
  holds beyond its reserve is the sum of the stakes of unsettled disputes, and
  no token appears or is lost. Each kind of step moves one dispute's share of that sum.
* **Many parties** (`MultiParty_proofs`). The inductive invariant is typing, the
  registry's, `DisputesSound` - of each dispute that votes and counters agree, that an
  acceptance is of the text and the round on the table, and that a dispute resolved by
  quorum had one -, `IdsInOrder` and `HeldByStakers`. `VotesAgree`,
  `QuorumConsents` and `FreezeBindsStakers` follow; `StakesAccounted` from `BooksInv`,
  in which each dispute's total is one base stake for each that staked, and the
  refund loop pays exactly that total.
* **Treasury** (`Treasury_proofs`). `TreasuryTypeOK` and `SubsidizedOnce` over the
  steps of both contracts; the contract's steps enter through `PartiesStay`: who
  disputes with whom never changes. `TreasuryAccounted` from `TreasuryBooks`, a sum over
  the set of grants. `WindowsHold` from `UsageInv`: the counter lies between what was
  granted since the day after the window started and since that day (`UsedIsTotal`), and
  what was granted from one window before that start on exceeds the counter by the largest
  cap at most (`OneWindowBefore`) - so a stretch of one more window from any grant on
  meets at most two windows of the counter. `QuotedIsGranted` is a step
  property.
* **Bridge** (`L3Bridge_proofs`). `BInv` is typing, `FinalUnrefuted` (a final root
  was committed and is not refuted) and `CommittedInTime` (a registered fraud proof
  can be revealed before the period of its day is over). `RollupImplemented` maps
  each step to the abstract rollup; `RevealNotOvertaken` follows from
  `CommittedInTime`. `ChainInv` says that the chain the next commitment extends holds
  every committed root that nobody refuted; what lies behind a root is the least set
  closed under `parent`, so that facts about it are proved by naming a closed set. A
  refutation of the last root falls back along `parent` and loses only that root; any
  other leaves the chain as it is. `FinalIsInChain` and `NoForks` follow. `ChainInv` is
  stated, as they are, of bridges on which bytes32(0) was never committed; a step that
  commits it leaves nothing to show.
  `SettlementsCounted` from `CountsInv`, which numbers the l3 ids without gaps.
* **SDK** (`Sdk_proofs`), each part with an invariant of its own.
  `BreakerInv`: the breaker's type and consistency are together inductive.
  `CallsInv`: nothing travels for a call that does not wait, the result being recorded is
  the daemon's own or the fallback, and an answer to a record means that it was logged.
  `SiemInv` adds to `EventsAccounted` that who waits for a post is in it (`PostOK`) and
  that an error that has not come up is nowhere (`NewNowhere`). `ManagerInv`: as long as initialisations and shutdowns do not
  overlap, one is at work at a time and every client belongs to it or to the manager; the exception
  for initialisations that threw is the property's own. `FidoInv`: of each key, the
  counters it signed, those accepted and the one kept are in order. `EscrowInv`: votes
  are counted as the voters are, a genuine share that is submitted is that of a place of
  its sender, whatever index the call names, and who combines shares learned them from
  senders that hold as many places as there are shares, so that reaching the threshold
  takes the holders of a quorum of places. `SiemAssumption` includes that
  the two marks in the model are no error of the caller's.
* **Threshold keys** (`Sdk_proofs`), for every prime order and any number of participants below
  it. `modPow` is the power (`ModPowIsPower`), so `modInverse` inverts by Fermat; then
  `computeLagrangeCoefficient` is the weight of a point (`CoefficientIsWeight`) and a
  sum of values with their coefficients is the polynomial's value at zero.
  `BlsInv` says that the coefficients and shares are in range, each share has its own index and,
  unless it was altered, the value it was dealt. `QuorumActs` follows: verified
  parts are values of one polynomial, which its interpolation at zero turns into the
  group's; and a list of unaltered shares, cut to the threshold as
  `decryptViewingKey` does, gives back the key's secret whatever its order.
* **Secret sharing** (`Sdk_proofs`), for every field that satisfies `ShamirAssumption`
  and `GeneratorAssumption`, every secret and threshold. `XorTable` is a group in
  which the bits above and below a place do not mix (`XorSplits`), hence doubling
  with reduction, and multiplication by 3, are linear (`DoubledLinear`, `TripledLinear`).
  As the powers of 3 reach every element, they do so once each and come back to 1
  (`ExpBijective`, `ExpCycles`), and the logarithm tables invert
  them; so multiplication through the tables is commutative, associative and, being
  repeated multiplication by 3, linear: the tables are those of a field
  (`TablesAreField`), and nothing of the reduction polynomial was used but that 3
  generates. `gfDivide` inverts `gfMultiply`, `combine` interpolates at zero
  (`CombineInterpolates`), `evaluatePolynomial` is Horner's rule. `ShamirInv`
  says that the shares dealt are those of the secret for some coefficients, and a
  combined value that of some of them. `QuorumReconstructs` follows by interpolation;
  `BelowQuorumBlind` because the shares known and any other secret at zero, together as many
  points as the threshold, lie on a polynomial of that length.
  `GeneratorAssumption` is the constructor's own comment (shamir.ts:56-58); the runs evaluate it for
  the field of 16, while for 0x11b its recursion is too deep for TLC and it is taken
  from the code.
* **Subgraph** (`Subgraph_proofs`). `SubgraphInv` is the contract's `IInv` and
  `StakesInv`, `PendingWhileOpen` (an outcome comes with the resolution) and `IndexInv`: the
  store is well typed (`StoreOK`), shows what the contract holds (`Mirrored`), and its
  counters are those of the disputes shown (`Tallied`). Each handler is summed up by what it
  books for the two parties, the day and the protocol (`Booked`) and by the entity it
  saves (`Saved`); a block whose bookings are what its step did to the disputes keeps the
  tallies. The steps of the subgraph are steps of the contract, so the contract's invariants are
  cited and not proved again. `DisputesMirrored` and `MetricsAddUp` follow, from
  whatever block indexing starts.

Only model-checked:

* Liveness (`DisputesWithAssetsResolve`, `Recovers`, `AlertsResume`, `HandlersReturn`,
  and `DeploymentsLinked`, which says what holds in the end): out of the prover's reach.
* The violated properties of section 6: a run shows the behaviour, nothing is proved.

## 8. What is not modelled

* `BatchQueue`, `L3DisputeBatcher`, `DummyTransactionGenerator`: a queue released in
  an order drawn from block hashes, and traffic that only counts. What matters of them
  is what an observer can infer, which is no property of single behaviours.
* `GovernanceTimelock`: a thin layer over a library that is not in the repository, where
  operations, roles and delays live.
* `ComplianceCouncil`: its end depends on a pairing check left to precompiles. The
  escrow that its requests reveal is in `ViewingEscrow`.
* `DIDRegistry`, `IdentityVerifier`, `identity-proof.ts`, the circuits: registers that
  nothing else here reads, and zero-knowledge proofs.
* `L3StateVerifier`: Merkle proofs and a cache that its owner fills.
* The subgraph's other four files, for the reason in section 6; mocks,
  `interact.js`, dashboards.

Within the modelled contracts: ownership transfer (two steps, changes nobody's
stakes), `initiateVoluntaryRequest` but for its event (it burns ETH and writes no
storage), `updateHarassmentScore` in ILRM (a value that nothing reads), evidence hashes,
`totalAssets` and `lastModified`, the bridge's signatures, batch limits and block
numbers, the text of licences, ETH held by the treasury, plain token transfers between
accounts, and a stake token that misbehaves (the tests and the deployment use
OpenZeppelin's); ERC-4337 paths of `FIDOVerifier`. Within the SDK: formatting of events,
wrappers that fill in a context, statistics, parsing of the environment, encodings,
hash-to-curve and curve arithmetic. A composed run of the daemon client with the SIEM
client is replaced by the assumption that the latter takes from the former (section
5), which `Recovers` checks.

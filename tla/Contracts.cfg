\* The registry under two authorised callers that share two dispute ids, and the
\* bridge with three roots and one fraud proof committed.
CONSTANTS
  alice = alice
  bob = bob
  Accounts = {alice, bob}
  a1 = a1
  a2 = a2
  Assets = {a1, a2}
  OwnTerms = {"own"}
  FallbackTerms = {"fallback"}
  Licensees = {"lee"}
  Durations = {1}
  Ilrms = {"ILRM", "MultiPartyILRM"}
  DisputeIds = {0, 1}
  NoOne = NoOne
  Nobody = Nobody
  MAX_ASSETS_PER_OWNER = 3
  r1 = r1
  r2 = r2
  r3 = r3
  Roots = {r1, r2, r3}
  NoRoot = NoRoot
  c1 = c1
  Challengers = {c1}
  Salts = {1}
  L2Ids = {1}
  Periods = {1, 2}
  DEFAULT_CHALLENGE_PERIOD = 3
  MinPeriod = 2
  MIN_REVEAL_DELAY = 1
  MAX_REVEAL_WINDOW = 0
  Bond = 2
  Sums = {1}
  MaxCommits = 1
  MaxCalls = 2
  Horizon = 4
SPECIFICATION ContractsSpec
SYMMETRY ContractSymmetry
INVARIANTS
  OwnershipIndexed
  FrozenOnOneList
  LicensesCounted
  NoForks
  FinalIsInChain
  SettlementsCounted
PROPERTIES
  FreezeHolds
  ImplementsRollup
  RevealNotOvertaken
CHECK_DEADLOCK FALSE

\* The money of the two-party protocol and its end: two disputes, incentive reserves, ETH,
\* and fair time (no symmetry: it is unsound for liveness).
CONSTANTS
  alice = alice
  bob = bob
  Accounts = {alice, bob}
  Sponsors = {"dao"}
  a1 = a1
  Assets = {a1}
  OwnTerms = {"own"}
  FallbackTerms = {"fallback"}
  Licensees = {}
  Durations = {}
  ThisILRM = "ILRM"
  Ilrms = {"ILRM"}
  NoOne = NoOne
  Proposals = {"p1"}
  NoProposal = ""
  DisputeIds = {0, 1}
  Stakes = {10}
  Deposits = {1}
  MsgValues = {1, 2}
  InitialTokens = 40
  MaxTreasury = 1
  MaxReserves = 1
  MAX_ASSETS_PER_OWNER = 2
  MAX_COUNTERS = 1
  STAKE_WINDOW = 1
  RESOLUTION_TIMEOUT = 1
  COOLDOWN_PERIOD = 1
  MAX_TIME_EXTENSION = 1
  Horizon = 4
SPECIFICATION FairSpec
INVARIANTS
  FundsAccounted
PROPERTIES
  ImplementsEscrow
  DisputesWithAssetsResolve
CHECK_DEADLOCK FALSE

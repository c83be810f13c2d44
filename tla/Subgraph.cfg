\* The subgraph beside ILRM: two disputes, one of them escalated to an odd stake.
CONSTANTS
  alice = alice
  bob = bob
  Accounts = {alice, bob}
  Sponsors = {}
  a1 = a1
  Assets = {a1}
  OwnTerms = {"own"}
  FallbackTerms = {"fallback"}
  Licensees = {}
  Durations = {}
  ThisILRM = "ILRM"
  Ilrms = {"ILRM"}
  NoOne = NoOne
  Proposals = {"p1"}
  NoProposal = ""
  DisputeIds = {0, 1}
  Stakes = {10}
  Deposits = {}
  MsgValues = {1}
  InitialTokens = 40
  MaxTreasury = 0
  MaxReserves = 0
  MAX_ASSETS_PER_OWNER = 1
  MAX_COUNTERS = 1
  STAKE_WINDOW = 0
  RESOLUTION_TIMEOUT = 1
  COOLDOWN_PERIOD = 1
  MAX_TIME_EXTENSION = 0
  Horizon = 3
  Voluntary = 99
  MaxProposals = 2
  MaxRequests = 1
SPECIFICATION SubgraphSpec
SYMMETRY Symmetry
INVARIANTS
  DisputesMirrored
  MetricsAddUp
CHECK_DEADLOCK FALSE

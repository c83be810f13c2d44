\* A new proposal after the first acceptance: who agreed to what.
CONSTANTS
  alice = alice
  bob = bob
  Accounts = {alice, bob}
  Sponsors = {"dao"}
  a1 = a1
  Assets = {a1}
  OwnTerms = {"own"}
  FallbackTerms = {"fallback"}
  Licensees = {}
  Durations = {}
  ThisILRM = "ILRM"
  Ilrms = {"ILRM"}
  NoOne = NoOne
  Proposals = {"p1", "p2"}
  NoProposal = ""
  DisputeIds = {0}
  Stakes = {10}
  Deposits = {}
  MsgValues = {1, 2}
  InitialTokens = 40
  MaxTreasury = 1
  MaxReserves = 1
  MAX_ASSETS_PER_OWNER = 2
  MAX_COUNTERS = 1
  STAKE_WINDOW = 1
  RESOLUTION_TIMEOUT = 2
  COOLDOWN_PERIOD = 1
  MAX_TIME_EXTENSION = 1
  Horizon = 5
SPECIFICATION Spec
INVARIANT
  MutualConsent
CHECK_DEADLOCK FALSE

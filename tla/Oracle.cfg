\* A staked dispute, a registered operator and every signature it may give.
CONSTANTS
  alice = alice
  bob = bob
  Accounts = {alice, bob}
  Sponsors = {"dao"}
  a1 = a1
  Assets = {a1}
  OwnTerms = {"own"}
  FallbackTerms = {"fallback"}
  Licensees = {}
  Durations = {}
  ThisILRM = "ILRM"
  Ilrms = {"ILRM"}
  NoOne = NoOne
  Proposals = {"p1"}
  NoProposal = ""
  DisputeIds = {0}
  Stakes = {10}
  Deposits = {}
  MsgValues = {}
  InitialTokens = 40
  MaxTreasury = 0
  MaxReserves = 0
  MAX_ASSETS_PER_OWNER = 2
  MAX_COUNTERS = 0
  STAKE_WINDOW = 1
  RESOLUTION_TIMEOUT = 1
  COOLDOWN_PERIOD = 1
  MAX_TIME_EXTENSION = 1
  Horizon = 4
  Operators = {"llm"}
  MaxNonce = 2
SPECIFICATION OracleSpec
PROPERTIES
  OracleDelivers
CHECK_DEADLOCK FALSE

\* Subsidies: three disputes between two parties, two ways to cap.
CONSTANTS
  alice = alice
  bob = bob
  Accounts = {alice, bob}
  Sponsors = {"dao"}
  Assets = {}
  OwnTerms = {"own"}
  FallbackTerms = {"fallback"}
  Licensees = {}
  Durations = {}
  ThisILRM = "ILRM"
  Ilrms = {"ILRM"}
  NoOne = NoOne
  Proposals = {}
  NoProposal = ""
  DisputeIds = {0, 1, 2}
  Stakes = {1}
  Deposits = {5}
  MsgValues = {}
  InitialTokens = 5
  MaxTreasury = 0
  MaxReserves = 0
  MAX_ASSETS_PER_OWNER = 2
  MAX_COUNTERS = 0
  STAKE_WINDOW = 0
  RESOLUTION_TIMEOUT = 1
  COOLDOWN_PERIOD = 1
  MAX_TIME_EXTENSION = 0
  Horizon = 4
  CapChoices <- MCCaps
  Reserves = {4}
  Scores = {101}
  Requests = {1, 2}
  MaxInflows = 5
  MaxChanges = 2
SPECIFICATION TreasurySpec
SYMMETRY TreasurySymmetry
INVARIANTS
  SubsidizedOnce
  WindowsHold
  TreasuryAccounted
PROPERTIES
  QuotedIsGranted
CHECK_DEADLOCK FALSE

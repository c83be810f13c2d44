\* Safety of the two-party protocol: two disputes between two parties over two
\* assets, initiated on one of two days.
CONSTANTS
  alice = alice
  bob = bob
  Accounts = {alice, bob}
  Sponsors = {"dao"}
  a1 = a1
  a2 = a2
  Assets = {a1, a2}
  OwnTerms = {"own"}
  FallbackTerms = {"fallback"}
  Licensees = {}
  Durations = {}
  ThisILRM = "ILRM"
  Ilrms = {"ILRM"}
  NoOne = NoOne
  Proposals = {"p1"}
  NoProposal = ""
  DisputeIds = {0, 1}
  Stakes = {10}
  Deposits = {}
  MsgValues = {1, 2}
  InitialTokens = 40
  MaxTreasury = 0
  MaxReserves = 0
  MAX_ASSETS_PER_OWNER = 2
  MAX_COUNTERS = 1
  STAKE_WINDOW = 1
  RESOLUTION_TIMEOUT = 2
  COOLDOWN_PERIOD = 1
  MAX_TIME_EXTENSION = 1
  Horizon = 6
SPECIFICATION Spec
SYMMETRY Symmetry
INVARIANTS
  TypeOK
  FreezeLock
  SilenceIsFree
  ConsentIsCurrent
PROPERTIES
  SettledInTime
  FallbackOnExit
CHECK_DEADLOCK FALSE

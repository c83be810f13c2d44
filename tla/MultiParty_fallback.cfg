\* The order of the two registry calls in an exit without quorum.
CONSTANTS
  alice = alice
  bob = bob
  carol = carol
  Accounts = {alice, bob, carol}
  a1 = a1
  Assets = {a1}
  OwnTerms = {"own"}
  FallbackTerms = {"fallback"}
  Licensees = {}
  Durations = {}
  ThisMP = "MultiPartyILRM"
  Ilrms = {"MultiPartyILRM"}
  Configs <- MCConfigs
  NoOne = NoOne
  Proposals = {"p1", "p2"}
  NoProposal = ""
  DisputeIds = {0}
  BaseStakes = {5}
  MsgValues = {1}
  InitialTokens = 5
  MaxTreasury = 0
  MAX_ASSETS_PER_OWNER = 2
  MAX_COUNTERS = 1
  MAX_TIME_EXTENSION = 1
  Horizon = 5
SPECIFICATION Spec
PROPERTY
  FallbackOnExit
CHECK_DEADLOCK FALSE

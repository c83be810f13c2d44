\* One dispute among two parties, a third joining or not.
CONSTANTS
  alice = alice
  bob = bob
  carol = carol
  Accounts = {alice, bob, carol}
  a1 = a1
  Assets = {a1}
  OwnTerms = {"own"}
  FallbackTerms = {"fallback"}
  Licensees = {}
  Durations = {}
  ThisMP = "MultiPartyILRM"
  Ilrms = {"MultiPartyILRM"}
  Configs <- MCConfigs
  NoOne = NoOne
  Proposals = {"p1", "p2"}
  NoProposal = ""
  DisputeIds = {0}
  BaseStakes = {5}
  MsgValues = {1, 2}
  InitialTokens = 5
  MaxTreasury = 1
  MAX_ASSETS_PER_OWNER = 2
  MAX_COUNTERS = 1
  MAX_TIME_EXTENSION = 1
  Horizon = 5
SPECIFICATION Spec
SYMMETRY MCSymmetry
INVARIANTS
  StakesAccounted
  VotesAgree
  QuorumConsents
  FreezeBindsStakers
CHECK_DEADLOCK FALSE

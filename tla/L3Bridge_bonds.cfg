\* Two roots challenged at the same time.
CONSTANTS
  r1 = r1
  r2 = r2
  Roots = {r1, r2}
  NoRoot = NoRoot
  c1 = c1
  Challengers = {c1}
  Nobody = Nobody
  Salts = {1}
  L2Ids = {1}
  Periods = {1, 2}
  DEFAULT_CHALLENGE_PERIOD = 3
  MinPeriod = 2
  MIN_REVEAL_DELAY = 1
  MAX_REVEAL_WINDOW = 0
  Bond = 2
  Sums = {1}
  MaxCommits = 2
  MaxCalls = 0
  Horizon = 4
SPECIFICATION BridgeSpec
SYMMETRY BridgeSymmetry
INVARIANTS
  BondsBacked
CHECK_DEADLOCK FALSE

\* The parts of the SDK and the deployment script, each on its own.
CONSTANTS
  Sockets = {s1, s2}
  NoSocket = NoSocket
  Destroyed = Destroyed
  Checks = {check}
  Blocks = {block}
  Verdicts = {"ALLOW", "DENY"}
  UnixSocket = TRUE
  MAX_RECONNECT_ATTEMPTS = 1
  MaxCalls = 2
  MaxFailures = 1
  Raised <- MCRaised
  batchSize = 2
  maxRetries = 1
  MaxSessions = 2
  AlertSockets = {w1, w2}
  NoAlerts = NoAlerts
  maxReconnectAttempts = 2
  MaxDials = 2
  Callers = {c1, c2, c3}
  failureThreshold = 2
  resetTimeout = 2
  halfOpenRequests = 2
  callRetries = 1
  Inits = {i1, i2}
  Shutdowns = {h1}
  None = None
  Bits = 4
  GF_PRIMITIVE = 31
  Secrets = {0, 9}
  MaxShares = 3
  order = 5
  participants = 3
  Thresholds = {1, 2, 3}
  ann = ann
  ben = ben
  cem = cem
  Accounts = {ann, ben, cem}
  HolderLists <- MCHolderLists
  EscrowThresholds = {2}
  Requests = {r1, r2}
  Coordinators = {k1}
  MadeUpIndices = {1}
  Credentials = {yubikey, passkey}
  Counting = {yubikey}
  MaxSigned = 3
  MaxKeys = 3
  Networks = {"localhost", "sepolia", "mainnet"}
  MaxRuns = 2
SPECIFICATION SdkSpec
INVARIANTS
  DecisionsAccounted
  EventsAccounted
  BreakerConsistent
  ManagerConsistent
  SecretByQuorum
  QuorumActs
  HoldersDecide
  FidoKeys
PROPERTIES
  Recovers
  AlertsResume
  DeploymentsLinked
  HandlersReturn
CHECK_DEADLOCK FALSE

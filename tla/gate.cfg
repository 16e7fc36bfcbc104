\* A request in three copies meets two processes that start together; one incident.
SPECIFICATION Spec
CONSTANTS
  n1 = n1  c1 = c1  c2 = c2  c3 = c3  a1 = a1
  p1 = p1  p2 = p2  k1 = k1
  Processes = {p1, p2}
  NFiles = 2
  LimitKeys = {a1}
  Unit = 2
  Refill = 1
  Burst = 1
  GCInterval = 1
  Nonces = {n1}
  NonceTTL = 4
  SecretKeys = {k1}
  NoKey = NoKey
  Copies = {c1, c2, c3}
  NonceOf <- ThreeCopies
  Source <- OneSource
  TPS = 2
  Skew = 1
  Drifts = {0, 1}
  AuthTime = 1
  MaxInFlight = 2
  RedisURL = TRUE
  FailClosed = {TRUE, FALSE}
  WindowTicks = 4
  WindowRate = 1
  MaxClock = 5
  MaxFaults = 1
INVARIANTS TypeOK ServingOnMigrated HandledOnce ReplayMeansKnown LegacyReadable SharedBudget
PROPERTY LimitsAsPromised
SYMMETRY Symmetry
CHECK_DEADLOCK FALSE

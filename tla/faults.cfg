\* Statements fail, answers are lost, handlers are cut short, the limiter refuses, low block
\* thresholds; a SIM moves to another device (embedded engine, SQLite).
SPECIFICATION Spec
CONSTANTS
  d1 = d1  d2 = d2  n1 = n1  n2 = n2  l1 = l1  l2 = l2  m1 = m1  m2 = m2  k1 = k1  k2 = k2
  None = None
  Backend = "sqlite"
  Devices = {d1, d2}
  Numbers = {n1, n2}
  Lines = {l1}
  Fleet <- MovedLine
  Provisioned = {n1}
  Senders = {m1, m2}
  Codes = {k1}
  Digits <- FourAndThree
  Calls = {c1}
  Reports = {r1, r2}
  MaxPending = 2
  Requests <- ClaimRequests
  Signals <- FaultSignals
  EnabledChannels = {}
  TTL = 1
  MaxAttempts = 2
  FailWindow = 1
  FailThreshold = 2
  FloodWindow = 2
  FloodThreshold = 2
  BlockDuration = 1
  LimiterDenies = TRUE
  Faults = TRUE
  MaxClock = 2
  Sweeper = FALSE
  Retention = 0
  Removable = {d1}
INVARIANTS Provenance SingleUse BlocksEarned
PROPERTY SessionsKeepPromises
SYMMETRY Symmetry
CHECK_DEADLOCK FALSE

\* A voice start meets a line whose pending sessions are all SMS.
SPECIFICATION Spec
CONSTANTS
  d1 = d1  d2 = d2  n1 = n1  n2 = n2  l1 = l1  l2 = l2  m1 = m1  m2 = m2  k1 = k1  k2 = k2
  None = None
  Backend = "postgres"
  Devices = {d1}
  Numbers = {n1}
  Lines = {l1}
  Fleet <- OneLine
  Provisioned = {n1}
  Senders = {m1, m2}
  Codes = {k1, k2}
  Digits <- FourAndThree
  Calls = {c1, c2}
  Reports = {r1, r2}
  MaxPending = 1
  Requests <- MixedRequests
  Signals <- SmsSignals
  EnabledChannels = {}
  TTL = 1
  MaxAttempts = 2
  FailWindow = 2
  FailThreshold = 3
  FloodWindow = 2
  FloodThreshold = 4
  BlockDuration = 1
  LimiterDenies = FALSE
  Faults = FALSE
  MaxClock = 1
  Sweeper = TRUE
  Retention = 0
  Removable = {}
INVARIANT BusyMeansVoice
CHECK_DEADLOCK FALSE

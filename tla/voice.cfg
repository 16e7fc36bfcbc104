\* Missed calls and DTMF compete for two lines, whose device an operator may remove (Postgres).
SPECIFICATION Spec
CONSTANTS
  d1 = d1  d2 = d2  n1 = n1  n2 = n2  l1 = l1  l2 = l2  m1 = m1  m2 = m2  k1 = k1  k2 = k2
  None = None
  Backend = "postgres"
  Devices = {d1}
  Numbers = {n1, n2}
  Lines = {l1, l2}
  Fleet <- TwoLines
  Provisioned = {n1, n2}
  Senders = {m1, m2}
  Codes = {k1, k2}
  Digits <- TwelveAndMore
  Calls = {c1, c2}
  Reports = {r1, r2}
  MaxPending = 2
  Requests <- VoiceRequests
  Signals <- VoiceSignals
  EnabledChannels = {"call", "dtmf"}
  TTL = 1
  MaxAttempts = 2
  FailWindow = 2
  FailThreshold = 3
  FloodWindow = 2
  FloodThreshold = 4
  BlockDuration = 1
  LimiterDenies = FALSE
  Faults = FALSE
  MaxClock = 1
  Sweeper = TRUE
  Retention = 0
  Removable = {d1}
INVARIANTS Provenance OneVoicePerLine InstructionsWork
PROPERTY SessionsKeepPromises
SYMMETRY Symmetry
CHECK_DEADLOCK FALSE

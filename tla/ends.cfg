\* A phone that is paired twice, whose device is removed, or whose buffer overflows, with one fault;
\* or a page with two losses whose webhooks are sent, or whose starts are left behind.
SPECIFICATION EndsSpec
CONSTANTS
  Events = {1, 2, 3}
  MaxPairings = 2
  LateNumbers = {1}
  MaxEntries = 2
  MaxFaults = 1
  n1 = n1  n2 = n2
  Sessions = {1, 2, 3}
  Numbers = {n1, n2}
  None = None
  WebhookURL = TRUE
  MaxAttempts = 2
  MaxLosses = 2
INVARIANTS PhoneTypeOK EventsKept OwnNumberOnly AppTypeOK WaitIsServed OutcomeOnce HeardIsTrue
PROPERTIES BufferDrains NumberHeals VerifiedStays PageSettles
CHECK_DEADLOCK FALSE

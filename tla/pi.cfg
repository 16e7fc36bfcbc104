\* Three signals in turn beside the daemon: a buffer of two, two failed posts, a power failure.
SPECIFICATION FairSpec
CONSTANTS
  Signals = {1, 2, 3}
  MaxHooks = 1
  MaxItems = 2
  MaxOutages = 2
  MaxCrashes = 1
INVARIANTS TypeOK SentOrKept DrainedInOrder
PROPERTY QueueDrains
CHECK_DEADLOCK FALSE

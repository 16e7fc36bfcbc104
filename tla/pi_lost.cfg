\* A hook adds its signal while the daemon is sending what it read before.
SPECIFICATION Spec
CONSTANTS
  Signals = {1, 2}
  MaxHooks = 1
  MaxItems = 2
  MaxOutages = 1
  MaxCrashes = 0
INVARIANT NoReportForgotten
CHECK_DEADLOCK FALSE

CONSTANTS
  MaxRuns = 1
  MaxSilent = 1
  Unreported = {"api"}
SPECIFICATION Spec
CHECK_DEADLOCK FALSE
INVARIANT EveryCheckIsMade

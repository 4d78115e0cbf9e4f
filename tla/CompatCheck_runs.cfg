CONSTANTS
  MaxRuns = 2
  MaxSilent = 1
  Unreported = {"old jar", "build", "sources", "libraries", "api", "smoke old", "smoke new"}
SPECIFICATION Spec
CHECK_DEADLOCK FALSE
 
INVARIANT GreenJobMeansTested

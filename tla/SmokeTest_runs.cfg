SPECIFICATION FairSpec
CONSTANTS
  Expected <- MCExpected
  Jars <- MCJars
  MaxPolls = 2
  MaxRuns = 2
  MaxKills = 1
INVARIANTS
  PassMeansExercised
  GoodJarPasses
  NothingLeftRunning
PROPERTY SmokeEnds
CHECK_DEADLOCK FALSE

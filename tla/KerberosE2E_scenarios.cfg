SPECIFICATION ScriptSpec
CONSTANTS
  Flows <- E2eFlows
  Outcomes = {"valid", "rejected"}
INVARIANTS
  GreenMeansAllPassed
  ButtonPassesAllScenarios
  PassedMeansTested

SPECIFICATION Spec
CONSTANTS
  MaxAge = 2
  Lifespan = 4
  Timeout = 4
  Delays = {0, 1, 4}
  Pauses = {1, 3}
  Mappers = {"right", "syncs_always", "syncs_once", "never_leaves", "compares_characters", "writes_two_lines", "always_INFO", "warns"}
  MaxDisturb = 1
INVARIANTS
  PromptCallsAuthorized
  GreenMeansMapperRight
  RightMapperIsGreen

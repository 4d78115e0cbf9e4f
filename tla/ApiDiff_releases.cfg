SPECIFICATION Spec
CONSTANTS
  ByName <- MCByName
  Outer <- MCOuter
  Programs <- MCPrograms
  Releases <- MCReleases
  Edits <- MCEdits
  MaxEdits = 2
  MaxDiff = 8
  MinDiff = 2
  Budget = 8
  Heads = {1, 10}
  Frames = {2}
  DiffSizes = {0, 5, 9}
  Notices = {1, 3}
INVARIANTS
  TypeOK
  PassMeansNothingBreaks
  PassMeansNothingNew
  ReferencesJudgedRight
  OverridesJudgedRight
  EveryRowNamesOurClass
  IssueFits
  NothingOmittedThatFits
CHECK_DEADLOCK FALSE

SPECIFICATION Spec
CONSTANTS
  s1 = s1
  s2 = s2
  v1 = v1
  v2 = v2
  colour = colour
  None = None
  Sha <- MCSha
  Value <- MCValue
  Folded <- MCFolded
  Scenarios <- MCScenarios
  ReleasesPerPage = 2
  MaxListPages = 2
INVARIANTS TypeOK AnswersAreTrue UndisturbedIsVerified
CHECK_DEADLOCK FALSE

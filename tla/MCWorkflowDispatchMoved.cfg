SPECIFICATION Spec
CONSTANTS
  d1 = d1
  d2 = d2
  run1 = run1
  run2 = run2
  run3 = run3
  Others = Others
  None = None
  Calls <- MCCalls
  Runs <- MCRuns
  HistoryMax = 2
  MaxMoves = 1
PROPERTY CompletedRunIsReleased
CHECK_DEADLOCK FALSE

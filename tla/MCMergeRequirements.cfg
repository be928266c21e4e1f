SPECIFICATION Spec
CONSTANTS
  h0 = h0
  h1 = h1
  b0 = b0
  b1 = b1
  lint = lint
  unit = unit
  app1 = app1
  app2 = app2
  w1 = w1
  w2 = w2
  alice = alice
  bob = bob
  None = None
  AnyApp = AnyApp
  Expected = h0
  Contexts <- MCContexts
  Apps <- MCApps
  Heads <- MCHeads
  Bases <- MCBases
  Fresh <- MCFresh
  Workflows <- MCWorkflows
  Reviewers <- MCReviewers
  Writers <- MCWriters
  RepositoryMethods <- MCRepositoryMethods
  RulePool <- MCRulePool
  ClassicPool <- MCClassicPool
  Starts <- MCStarts
  HardMax = 3
  PageMax = 2
  MaxMoves = 2
  MaxFaults = 1
INVARIANT TypeOK PolicyCoversWhatHeld NoFailingCheckHidden MissingCheckWasMissing SatisfiedReviewsStood
CHECK_DEADLOCK FALSE

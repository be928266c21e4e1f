SPECIFICATION Spec
CONSTANTS
  approve = approve
  comment = comment
  changes = changes
  preflight = preflight
  h0 = h0
  h1 = h1
  bot = bot
  app = app
  owner = owner
  author = author
  None = None
  Submissions <- MCSubmissions
  Preflights <- MCPreflights
  Action <- MCAction
  ExpectedHead <- MCExpectedHead
  ExpectedLogin <- MCExpectedLogin
  Heads <- MCHeads
  FirstHead = h0
  Logins <- MCLogins
  Deployments <- MCDeployments
  MaxIssues = 2
  MaxPushes = 2
INVARIANTS TypeOK VerifiedReviewIsOwn PreflightIsHonest
PROPERTIES ImplementsContract SentByProvenActor
CHECK_DEADLOCK FALSE

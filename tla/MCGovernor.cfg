SPECIFICATION FairDiagnosticsSpec
CONSTANTS
  w1 = w1
  w2 = w2
  r1 = r1
  s1 = s1
  d1 = d1
  d2 = d2
  None = None
  Calls <- MCDiagnosedCalls
  Writes <- MCWrites
  RetrySafe <- MCRetrySafe
  Diagnostics <- MCDiagnostics
  MinInterval = 2
  Mixes <- MCMixes
  RetryAfters <- MCRetryAfters
  ResetOffsets <- MCResetOffsets
  Skews <- MCSkews
  Spacing = 2
  MaxReadAttempts = 3
  BackoffBase = 1
  BackoffMax = 2
  Fallback = 2
  MaxTime = 2
INVARIANT TypeOK
PROPERTIES WritesAreSpaced CooldownIsRespected PortSpec EveryCallIsAnswered RefreshesAreSpaced EveryDiagnosticEnds
CHECK_DEADLOCK FALSE

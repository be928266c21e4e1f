SPECIFICATION Spec
CONSTANTS
  guardedSet = guardedSet
  blindSet = blindSet
  create = create
  v0 = v0
  v1 = v1
  v2 = v2
  None = None
  Calls <- MCCalls
  Guarded <- MCGuarded
  Creates <- MCCreates
  Texts <- MCTexts
  Values <- MCValues
  Initial = v0
  Expected <- MCExpected
  Requested <- MCRequested
  MaxIssues = 2
  MaxEdits = 1
INVARIANT KnownFailureIsReal
CHECK_DEADLOCK FALSE

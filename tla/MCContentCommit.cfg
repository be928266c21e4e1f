SPECIFICATION FilesSpec
CONSTANTS
  commit_files = commit_files
  patch_files = patch_files
  Others = Others
  None = None
  Calls <- MCCalls
  Patches <- MCPatches
  MaxReads = 3
  MaxIssues = 2
  MaxPushes = 1
  Char = {"a", "b", "c"}
  Requests <- MCRequests
  MaxFileBytes = 4
  MaxCommitBytes = 6
INVARIANTS TypeOK CommitsFollowExpectedHead ChangeLandsOnce VerdictsStayTrue PatchesAreExact
CHECK_DEADLOCK FALSE

CONSTANTS
  None = None
  Job <- MCJob
  Item <- MCItem
  Width <- MCWidth
  Visible <- MCVisible
  Replacement = "rep"
  Newline = "nl"
  HardMaxBytes = 5
  ChunkBytes = 3
  MaxLogJobs = 3
  JobsPerPage = 2
  MaxAttempts = 2
  Scenarios <- MCScenarios
  HardPerPage = 2
  SearchWindow = 3
  Interval = 2
  Timeout = 3
  HardFilesPerPage = 2
  MaxArchiveBytes = 3
  MaxEntries = 3
  MaxUncompressedBytes = 3
  MaxFileBytes = 2
  BaseSha <- MCBase
  HeadSha <- MCHead
  Object <- MCObject
  HardRecords = 4
  CommitsMax = 3
  FilesSaturated = 4
  TreeSaturated = 4
SPECIFICATION Spec
CHECK_DEADLOCK FALSE
INVARIANTS
  TypeOK
  SelectionMatchesWhole
  LogsAreWholeAndFinal
  EvidenceIsPinned
  NothingIsMissed
  ArchiveIsTree
PROPERTY WatchEnds

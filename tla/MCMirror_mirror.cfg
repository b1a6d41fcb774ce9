SPECIFICATION RestartSpec
CONSTANTS
  IndexIds = {1, 2}
  Master = 255
  ArchiveIds = {1, 2, 3}
  LastBuild = 2
  Listing <- mcListing
  Selection <- mcAllIndices
  MaxRetries = 1
  CommitBatch = 2
INVARIANTS TypeOK CrashSafe DoneIsComplete
PROPERTIES StoredRowsStay RunEnds EventuallyMirrored

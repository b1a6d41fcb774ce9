CONSTANTS
  old = old
  new = new
  FileIds <- Files
  LiveBuild = new
  Tables <- BuildTables
  IndexIds <- OneIndex
  ArchiveIds <- OneArchive
  Builds <- TwoBuilds
SPECIFICATION Spec
INVARIANT LiveGroupsFitTable
CHECK_DEADLOCK FALSE

CONSTANTS
  old = old
  new = new
  FileIds <- Files
  LiveBuild = new
  Tables <- BuildTables
  IndexIds <- TwoIndices
  ArchiveIds <- OneArchive
  Builds <- TwoBuilds
SPECIFICATION FairSpec
INVARIANTS TypeOK ResolverEverywhere
PROPERTIES ImplementsCacheSource RetryRecovers
\* A client whose files all fail to open has nothing left to call.
CHECK_DEADLOCK FALSE

CONSTANTS
  new = new
  old = old
  IndexIds <- Indices
  ArchiveIds <- TwoArchives
  FileIds <- TwoFiles
  Builds <- TwoBuilds
  LiveBuild = new
  Tables <- BuildTables
  Decodes <- FileContents
  Jobs <- CommandLines
  Mapping <- TypeDefaults
  MapsIndex = 3
  WmeIndex = 3
  ModelOf <- ItemModel
SPECIFICATION mcSpec
INVARIANTS DumpTypeOK DumpIsWhole OutDirIsCurrent FailedRunKeepsFile MemoryBounded

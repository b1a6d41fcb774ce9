CONSTANTS
  new = new
  IndexIds <- Indices
  ArchiveIds <- ThreeArchives
  FileIds <- Files
  Builds <- OneBuild
  LiveBuild = new
  Tables <- BuildTables
  Types <- AllTypes
  Mapping <- TypeDefaults
  MapIndex = 3
  Ids <- AskedIds
  ModelOf <- ItemModel
  GameVals <- Groups
  Decodes <- FileContents
  Limits <- DumpLimits
SPECIFICATION mcSpec
INVARIANTS CallTypeOK DumpIsComplete ListedIdsResolve
PROPERTY HandleKeepsEntries

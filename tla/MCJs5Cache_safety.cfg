CONSTANTS
  IndexIds <- TwoIndices
  ArchiveIds <- TwoArchives
  FileIds <- Files
  LastBuild = 2
  Tables <- BuildTables
SPECIFICATION Spec
INVARIANTS TypeOK MisreadsOnlyAfterUpdate
PROPERTY ImplementsCacheSource
\* With everything read and the connection gone no call changes anything.
CHECK_DEADLOCK FALSE

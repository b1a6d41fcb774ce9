SPECIFICATION IndexSpec
CHECK_DEADLOCK FALSE
CONSTANTS
  Inflate <- mcInflate
  Indices <- mcIndices
  Blobs <- mcBlobs
  PackedGroups <- mcPacked
  WrittenTables <- mcTables
  Asked = {0, 2, 9}
INVARIANTS TablesAreExact FilesReadBack

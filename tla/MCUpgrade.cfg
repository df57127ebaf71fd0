SPECIFICATION SnapshotSpec
CONSTANTS
  Writers = {w1} SnapshotReaders = {} Paths <- MCPaths
  Versions = {"v0", "v1", "v2"} Empty = "v0" Built <- MCBuilt
  MaxFaults = 0 MaxEdits = 1 NoWriter = NoWriter
PROPERTIES UnknownFilesStay
CHECK_DEADLOCK FALSE

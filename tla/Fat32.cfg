SPECIFICATION Spec
CONSTANTS
  ClusterCount = 4
  ClusterSize = 2
  SlotsPerCluster = 5
  FatCount = 2
  ActiveFat = 0
  MirrorFats = TRUE
  FsInfo <- ExactInfo
  Folder <- D
  Parts <- SomeParts
  Stem <- SomeStem
  ShortChecksum <- SomeChecksum
  MaxAlias = 3
  LongCapacity = 20
  Paths <- SomePaths
  Moves <- SomeMoves
  Bytes = {1}
  Junk = 9
  Sizes = {0,1,2,3}
  Cycles = FALSE
  Tolerated = {"torn","zeroes","unfilled","undone","alias"}
  FaultKinds = {"cut"}
  Faulty = {"create", "write", "truncate", "remove", "concatenate"}
  MaxFaults = 1
  Reorders = FALSE
INVARIANTS ChainsSound BooksBalance
PROPERTY ImplementsTree

SPECIFICATION Spec
CONSTANTS
  BlockCount = 3
  InodeCount = 3
  BlockSize = 2
  DirUnits = 4
  MaxExtents = 2
  MaxExtentLength = 2
  MaxLinks = 65535
  CountModulus = 16
  Paths <- SomePaths
  Bytes = {1}
  Junk = 9
  MaxSize = 3
  Reach = 2
  Handles = {1}
  Shared = FALSE
  Cycles = FALSE
  Tolerated = {"torn","leftover"}
  FaultKinds = {"cut"}
  Faulty = {"create","openat","write","truncate","remove","mkdir","concatenate"}
  MaxFaults = 1
  Reorders = FALSE
INVARIANTS BlocksExclusive NamesLive BooksBalance
PROPERTY ImplementsTree

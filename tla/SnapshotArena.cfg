SPECIFICATION Spec
CONSTANTS
  ArenaBegin = 7
  ArenaEnd = 150
  ExtentCapacity = 5
  MaxLive = 4
  Requests <- MCRequests
  WordMax = 255
INVARIANTS
  LiveDisjoint
  DoubleReleaseRefused
  NeverHalts
  IInv

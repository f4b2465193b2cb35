CONSTANTS
  MaxPid = 3
  NestedCapacity = 2
  WaitableCapacity = 1
  Opens <- TerminalOpens
  Services = {}
  Signals = {2, 9, 17}
  Installable <- Catching
  Closes = {2}
  Masks <- SomeMasks
  MaxCalls = 3
SPECIFICATION SignalsSpec
INVARIANTS
  Uncatchable
PROPERTIES
  SignalsKept
  GroupReached
  StaleCopySpared
CHECK_DEADLOCK FALSE

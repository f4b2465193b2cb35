CONSTANTS
  Capacity = 3
  PidModulus = 5
  Status = {0}
  Forks = {FALSE, TRUE}
  Waits <- AllSelectors
  Signalled = {2, 3}
SPECIFICATION FairSpec
INVARIANTS
  TableInvariant
  ExitsKept
  ParentsAlive
  SuspensionsEnd
PROPERTY
  RunnableRuns

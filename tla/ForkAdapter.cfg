CONSTANTS
  MaxPid = 5
  NestedCapacity = 3
  WaitableCapacity = 2
  Opens <- SshOpens
  Services = {2}
SPECIFICATION Spec
INVARIANTS
  EveryProcessKept
  ReferencesExact
  AncestryOrdered
  ParkAnswersForkOnce
CHECK_DEADLOCK FALSE

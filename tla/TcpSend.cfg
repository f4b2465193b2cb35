CONSTANTS
  SequenceSpace = 32
  Capacity = 2
  ReassemblyCapacity = 2
  TransmitCapacity = 2
  Mss = 2
  InitialReceive = 30
  InitialSend = 30
  InboundLength = 0
  OutboundLength = 3
  Windows = {0, 1, 3}
  Interval = 1
  Clock = FALSE
  MaxReferences = 2
SPECIFICATION Spec
INVARIANTS
  FlightRetained
  FinAfterData
  StateMatchesFins

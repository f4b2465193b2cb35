CONSTANTS
  SequenceSpace = 32
  Capacity = 3
  ReassemblyCapacity = 2
  TransmitCapacity = 2
  Mss = 2
  InitialReceive = 30
  InitialSend = 30
  InboundLength = 4
  OutboundLength = 0
  Windows = {1}
  Interval = 1
  Clock = FALSE
  MaxReferences = 1
SPECIFICATION Spec
INVARIANTS
  StreamInOrder
  AcknowledgementOwed

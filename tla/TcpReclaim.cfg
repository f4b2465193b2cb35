CONSTANTS
  SequenceSpace = 32
  Capacity = 2
  ReassemblyCapacity = 2
  TransmitCapacity = 2
  Mss = 2
  InitialReceive = 30
  InitialSend = 30
  InboundLength = 0
  OutboundLength = 1
  Windows = {0, 1}
  Interval = 1
  Clock = TRUE
  MaxReferences = 1
SPECIFICATION FairSpec
PROPERTIES
  SlotReclaimed

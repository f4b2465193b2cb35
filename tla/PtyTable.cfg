CONSTANTS
  TableCapacity = 1
  BufferCapacity = 2
  GenerationMax = 2
  Byte = {"x", "nl", "intr"}
  Modes <- EditingModes
  Process <- SessionLeader
  MaxCount = 2
  MaxLog = 5
  MaxHeld = 2
SPECIFICATION Spec
INVARIANTS
  EndsCounted
  TerminalOwned
  StreamsFaithful

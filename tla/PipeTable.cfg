CONSTANTS
  TableCapacity = 1
  BufferCapacity = 3
  AtomicCapacity = 2
  GenerationMax = 2
  Byte = {0, 1}
  MaxCount = 4
  MaxHeld = 2
SPECIFICATION Spec
INVARIANTS
  PipeInv
  HandlesResolve
PROPERTIES
  ImplementsStreams

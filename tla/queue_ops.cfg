SPECIFICATION Spec
CONSTANTS
  Byte = {a, b}
  Garbage = Garbage
  kMaxCirBufferSize = 3
  UInt32Mod = 8
  MaxRequest = 4
INVARIANTS
  TypeOK
  StatusAgreesWithSpace
  AddReportsWhatFitted
  RemoveReportsWhatWasThere
  DirectReadStable
PROPERTY
  ImplementsFifo

SPECIFICATION FairSpec
CONSTANTS
  a = a
  b = b
  Sessions = {s1}
  Readers = {r}
  Watchers = {}
  Pollers = {}
  Testers = {d}
  Nobody = Nobody
  Byte = {a}
  Garbage = Garbage
  kMaxCirBufferSize = 2
  UInt32Mod = 4
  OpenMode = "any"
  Messages <- LongMessages
  ReadSizes = {1}
  WatchArgs <- NoArgs
  SetArgs <- NoArgs
  FlowArgs <- NoFlows
  MaxSends = 1
  MaxRefs = 2
CHECK_DEADLOCK FALSE
INVARIANTS
  TypeOK
  OneInRXSection
  NoOverRelease
PROPERTIES
  DataDrains
  CallsReturn

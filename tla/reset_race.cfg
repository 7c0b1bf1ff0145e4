SPECIFICATION Spec
CONSTANTS
  a = a
  b = b
  Sessions = {s1}
  Readers = {r}
  Watchers = {}
  Pollers = {}
  Testers = {d}
  Nobody = Nobody
  Byte = {a}
  Garbage = Garbage
  kMaxCirBufferSize = 2
  UInt32Mod = 4
  OpenMode = "serial"
  Messages <- OneMessage
  ReadSizes = {1}
  WatchArgs <- NoArgs
  SetArgs <- NoArgs
  FlowArgs <- NoFlows
  MaxSends = 2
  MaxRefs = 2
CHECK_DEADLOCK FALSE
INVARIANT MatchMeansEmptyOrFull

SPECIFICATION StatusSpec
CONSTANTS
  a = a
  b = b
  Sessions = {s1}
  Readers = {r}
  Watchers = {}
  Pollers = {p}
  Testers = {d}
  Nobody = Nobody
  Byte = {a}
  Garbage = Garbage
  kMaxCirBufferSize = 3
  UInt32Mod = 8
  OpenMode = "quiescent"
  Messages <- LongMessages
  ReadSizes = {1}
  WatchArgs <- NoArgs
  SetArgs <- SetLevel
  FlowArgs <- NoFlows
  MaxSends = 1
  MaxRefs = 1
CHECK_DEADLOCK FALSE
INVARIANT StatusCurrent

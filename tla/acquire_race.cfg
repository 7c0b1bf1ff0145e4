SPECIFICATION Spec
CONSTANTS
  a = a
  b = b
  Sessions = {s1, s2}
  Readers = {}
  Watchers = {}
  Pollers = {}
  Testers = {}
  Nobody = Nobody
  Byte = {a}
  Garbage = Garbage
  kMaxCirBufferSize = 1
  UInt32Mod = 4
  OpenMode = "any"
  Messages <- NoMessages
  ReadSizes = {}
  WatchArgs <- NoArgs
  SetArgs <- NoArgs
  FlowArgs <- NoFlows
  MaxSends = 0
  MaxRefs = 2
CHECK_DEADLOCK FALSE
INVARIANT NoReferenceLeaks

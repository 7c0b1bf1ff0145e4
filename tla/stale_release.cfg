SPECIFICATION Spec
CONSTANTS
  a = a
  b = b
  Sessions = {s1}
  Readers = {}
  Watchers = {}
  Pollers = {p}
  Testers = {}
  Nobody = Nobody
  Byte = {a}
  Garbage = Garbage
  kMaxCirBufferSize = 1
  UInt32Mod = 4
  OpenMode = "serial"
  Messages <- NoMessages
  ReadSizes = {}
  WatchArgs <- NoArgs
  SetArgs <- NoArgs
  FlowArgs <- NoFlows
  MaxSends = 0
  MaxRefs = 2
CHECK_DEADLOCK FALSE
INVARIANT ReleasedPortIsFree

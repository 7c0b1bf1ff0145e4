SPECIFICATION Spec
CONSTANTS
  a = a
  b = b
  Sessions = {s1, s2}
  Readers = {r}
  Watchers = {}
  Pollers = {}
  Testers = {d}
  Nobody = Nobody
  Byte = {a, b}
  Garbage = Garbage
  kMaxCirBufferSize = 3
  UInt32Mod = 8
  OpenMode = "quiescent"
  Messages <- TwoMessages
  ReadSizes = {1, 2}
  WatchArgs <- NoArgs
  SetArgs <- NoArgs
  FlowArgs <- NoFlows
  MaxSends = 2
  MaxRefs = 2
CHECK_DEADLOCK FALSE
INVARIANTS
  ExclusiveOwner
  QueueCoherent
PROPERTIES
  DeliversInOrder
  PortChangesHands

SPECIFICATION Spec
CONSTANTS
  a = a
  b = b
  Sessions = {s1, s2}
  Readers = {}
  Watchers = {w1, w2, w3}
  Pollers = {}
  Testers = {}
  Nobody = Nobody
  Byte = {a}
  Garbage = Garbage
  kMaxCirBufferSize = 1
  UInt32Mod = 4
  OpenMode = "quiescent"
  Messages <- NoMessages
  ReadSizes = {}
  WatchArgs <- AllWatchArgs
  SetArgs <- SetAndClear
  FlowArgs <- AllFlows
  MaxSends = 0
  MaxRefs = 2
CHECK_DEADLOCK FALSE
SYMMETRY Symmetry
INVARIANTS
  RefsBalanced
  TesterSeesState
  NoLostWakeup

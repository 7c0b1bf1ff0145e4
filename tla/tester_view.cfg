SPECIFICATION FairSpec
CONSTANTS
  UInt32Mod = 1048576
  DEFAULT_AUTO = 7
  EventArgs <- Args
  MaxEvents = 4
CHECK_DEADLOCK FALSE
INVARIANTS
  TypeOK
  ConfigLegal
  ReadsBack
  DisplayCurrent
PROPERTY
  DisplayCatchesUp

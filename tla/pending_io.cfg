SPECIFICATION Spec
CONSTANTS
  Clients = {c1}
  NULL = NULL
CHECK_DEADLOCK FALSE
INVARIANT PendingIODefersStop

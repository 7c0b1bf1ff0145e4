SPECIFICATION FairSpec
CONSTANTS
  Clients = {c1, c2, c3}
  NULL = NULL
CHECK_DEADLOCK FALSE
INVARIANTS
  TypeOK
  PublishedIsReady
  OpenerIsAlive
  NoPointerLeftBehind
PROPERTY
  UnloadCompletes

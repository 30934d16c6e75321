SPECIFICATION Spec
CONSTANTS
  MaxConnects = 2
  MaxMessages = 2
INVARIANTS
  TypeOK
  OfflineAfterwards
  SessionServed
  NothingOutlivesStop
PROPERTY
  StopEnds
CHECK_DEADLOCK FALSE

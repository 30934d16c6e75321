SPECIFICATION Spec
CONSTANTS
  Jobs = {j1, j2, j3, j4}
  Keys = {k1, k2}
  None = None
INVARIANTS
  QueueInv
  TypeOK
  OneAtATime
  DrainedWhenWaitReturns
PROPERTIES
  EveryJobLeaves
  ImplementsSerial
CHECK_DEADLOCK FALSE

SPECIFICATION WriteSpec
CONSTANTS
  a = a
  b = b
  da = da
  db = db
  dx = dx
  ip1 = ip1
  ip2 = ip2
  None = None
  Macs = {a, b}
  RawMacs = {"a", "b"}
  Normalize <- MCNormalize
  IPs = {ip1, ip2}
  Channels = {0, 1}
  Names = {}
  Hardware <- MCHardware
  Devices = {da, db}
  MacOf <- MCMacOf
  HardwareOf <- RxAndOdd
  Tunings <- AllOnZero
  MaxDisturbances = 1
  MayLose = TRUE
  MaySettle = FALSE
  Callers = {"poller", "rescan", a, b}
  MacOrder <- MCMacOrder
  ScanOrder <- MCScanOrder
  Concurrency = 1
  Inventories <- KnownBoth
  MaxRescans = 0
  MayStop = FALSE
  Requests = {1, 256}
  Attempts = 2
  MaxCommands = 1
INVARIANTS
  WriteTypeOK
  VerifiedBeforeWrite
  WriteInv
  UnknownRoleIsRefused
  MatchedIsTrue
CHECK_DEADLOCK FALSE

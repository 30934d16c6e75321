SPECIFICATION WriteSpec
CONSTANTS
  a = a
  b = b
  da = da
  db = db
  dx = dx
  ip1 = ip1
  ip2 = ip2
  None = None
  Macs = {a}
  RawMacs = {"a"}
  Normalize <- MCNormalize
  IPs = {ip1}
  Channels = {0, 1}
  Names = {}
  Hardware <- MCHardware
  Devices = {da}
  MacOf <- MCMacOf
  HardwareOf <- RxAndTx
  Tunings <- AllOnZero
  MaxDisturbances = 0
  MayLose = TRUE
  MaySettle = FALSE
  Callers = {"poller", "rescan", a}
  MacOrder <- MCMacOrder
  ScanOrder <- MCScanOrder
  Concurrency = 1
  Inventories <- KnownBoth
  MaxRescans = 1
  MayStop = TRUE
  Requests = {1}
  Attempts = 2
  MaxCommands = 1
PROPERTIES
  StopDrains
  EveryCallReturns
  EveryCommandSettles
CHECK_DEADLOCK FALSE

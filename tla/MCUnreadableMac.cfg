SPECIFICATION WriteSpec
CONSTANTS
  a = a
  b = b
  da = da
  db = db
  dx = dx
  ip1 = ip1
  ip2 = ip2
  None = None
  Macs = {a}
  RawMacs = {"a", "junk"}
  Normalize <- MCNormalize
  IPs = {ip1, ip2}
  Channels = {0, 1}
  Names = {}
  Hardware <- MCHardware
  Devices = {da, dx}
  MacOf <- MCMacOf
  HardwareOf <- RxAndTx
  Tunings <- AllOnZero
  MaxDisturbances = 2
  MayLose = FALSE
  MaySettle = FALSE
  Callers = {"poller", "rescan", a}
  MacOrder <- MCMacOrder
  ScanOrder <- MCScanOrder
  Concurrency = 1
  Inventories <- KnownBoth
  MaxRescans = 0
  MayStop = FALSE
  Requests = {1, 256}
  Attempts = 2
  MaxCommands = 1
INVARIANT
  VerifiedBeforeWrite
CHECK_DEADLOCK FALSE

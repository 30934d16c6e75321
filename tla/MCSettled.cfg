SPECIFICATION Spec
CONSTANTS
  a = a
  b = b
  da = da
  db = db
  ip1 = ip1
  ip2 = ip2
  None = None
  Macs = {a, b}
  RawMacs = {"a", "b"}
  Normalize <- MCNormalize
  IPs = {ip1, ip2}
  Channels = {0}
  Names = {}
  Hardware <- MCHardware
  Devices = {da, db}
  MacOf <- MCMacOf
  HardwareOf <- MCHardwareOf
  Tunings <- AllOnZero
  MaxDisturbances = 2
  MayLose = TRUE
  MaySettle = TRUE
  Callers = {"poller", "rescan"}
  MacOrder <- MCMacOrder
  ScanOrder <- MCScanOrder
  Concurrency = 2
  Inventories <- MCInventories
  MaxRescans = 0
  MayStop = TRUE
INVARIANTS
  OneOnlinePerAddress
PROPERTIES
  SilentBecomesUnavailable
  MovedIsFoundAgain
CHECK_DEADLOCK FALSE

SPECIFICATION PersistSpec
CONSTANTS
  a = a
  ip1 = ip1
  None = None
  Macs = {a}
  RawMacs = {"a"}
  Normalize <- MCNormalize
  IPs = {ip1}
  Channels = {0, 1}
  Names = {"Hall"}
  Hardware <- MCHardware
  Inventories <- MCInventories
  RawNames <- MCRawNames
  MaxNameLength = 64
  MaxCommands = 3
  MaxSaves = 2
INVARIANTS
  PersistTypeOK
  NamesSurvive
  RowIsLatest
PROPERTIES
  KnownBecomesStored

SPECIFICATION Spec
CONSTANTS
  a = a
  b = b
  ip1 = ip1
  ip2 = ip2
  None = None
  Macs = {a, b}
  RawMacs = {"a", "A", "b", "junk"}
  Normalize <- MCNormalize
  IPs = {ip1, ip2}
  Channels = {0, 1}
  Names = {"Encoder", "Hall"}
  Hardware <- MCHardware
  Inventories <- MCInventories
  ShownNames <- MCShownNames
  ReportedName <- MCReportedName
  IdLabel <- MCIdLabel
  Labels <- MCLabels
  Disambiguated <- MCDisambiguated
  Rank <- MCRank
INVARIANTS
  TypeOK
  AtMostOneOnlinePerIP
  DisplacementIsAChange
  EachSelectableAndShown
PROPERTIES
  ChangesAreReported

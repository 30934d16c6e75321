SPECIFICATION Spec
CONSTANTS
  a = a
  b = b
  ip1 = ip1
  ip2 = ip2
  None = None
  Macs = {a, b}
  RawMacs = {"a", "b"}
  Normalize <- MCNormalize
  IPs = {ip1}
  Channels = {0, 1}
  Names = {"Encoder"}
  Hardware <- MCHardware
  Inventories <- MCInventories
  ShownNames <- MCShownNames
  ReportedName <- MCReportedName
  IdLabel <- MCIdLabel
  Labels <- MCLabels
  Disambiguated <- MCDisambiguated
  Rank <- MCRank
INVARIANTS
  LabelsUnique

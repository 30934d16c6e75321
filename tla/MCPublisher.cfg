SPECIFICATION PublisherSpec
CONSTANTS
  tx = tx
  rx = rx
  ip1 = ip1
  None = None
  Macs = {tx, rx}
  RawMacs = {"t", "r"}
  Normalize <- MCNormalize
  IPs = {ip1}
  Channels = {0, 1}
  Names = {"Hall"}
  Hardware <- MCHardware
  Answers <- MCAnswers
  Inventories <- MCInventories
  ShownNames <- MCShownNames
  ReportedName <- MCReportedName
  IdLabel <- MCIdLabel
  Labels <- MCLabels
  Disambiguated <- MCDisambiguated
  Rank <- MCRank
  MaxChanges = 2
  MaxDisturbances = 1
INVARIANTS
  PublisherTypeOK
  StateShown
  EntitiesShown
  SourcesShown
  ControllerShown
CHECK_DEADLOCK FALSE

SPECIFICATION StartupSpec
CONSTANTS
  SchemaVersion = 3
  Newest = 4
  Width = 6
  MinScanPrefix = 4
  PrivateBlocks <- MCPrivateBlocks
  Configs <- MCConfigs
INVARIANTS
  VersionTellsSchema
  OpenMeansCurrent
  OnlyNewerRefused
  TargetsExact

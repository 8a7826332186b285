CONSTANTS
  Missing = Missing
  Torn = Torn
  NoDir = NoDir
  MaxDay = 2
  KeepOptions <- MCKeepOptions
  SizeValues = 8
  MaxWrites = 2
  MaxBack = 1
  MaxCrashes = 1
  MaxFaults = 1
SPECIFICATION LiveSpec
INVARIANTS
  BackupTypeOK
  UnspoiledAreExact
  SafetyNet
PROPERTIES
  PruneKeepsNewest
  LeftoversDoNotBlock

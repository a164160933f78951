SPECIFICATION FairSpec
CONSTANTS
  Org = "ours"
  Histories <- AllHistories
  Urns <- ArchivalUrls
  PolicyOf <- XACML
  MaxRuns = 3
  MaxFaults = 2
  NoRow = NoRow
  NoFile = NoFile
  NoSum = NoSum
INVARIANTS
  TypeOK
  RunAccountsForExport
  PolicyIsUnanimous
  NamedIsStored
PROPERTIES
  LinkKeepsItsContent
  RerunIsQuiet
  EveryRunEnds
CHECK_DEADLOCK FALSE

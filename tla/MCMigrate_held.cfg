SPECIFICATION Spec
CONSTANTS
  Org = "ours"
  Histories <- HeldSeries
  Urns <- ArchivalUrls
  PolicyOf <- XACML
  MaxRuns = 3
  MaxFaults = 2
  NoRow = NoRow
  NoFile = NoFile
  NoSum = NoSum
INVARIANTS
  HoldIsNoCrash
CHECK_DEADLOCK FALSE

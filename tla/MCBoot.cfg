SPECIFICATION FairSpec
CONSTANTS
  p1 = p1
  p2 = p2
  Procs = {p1, p2}
  Packages <- PackageList
  Plans <- AllPlans
  ServeSet = {"mp_element"}
  GuardAttempts = 2
  MaxFaults = 1
  NoProc = NoProc
  NoSum = NoSum
  Files = {1, 2}
  Versions = {"v1", "v2"}
  Bad = Bad
  NoFile = NoFile
  Mounts <- Lagging
  MaxEdits = 1
INVARIANTS
  TypeOK
  LedgerTruthful
  
  ServesItsRelease
  MountsAgreeThenRow
PROPERTIES
  EveryBootServes

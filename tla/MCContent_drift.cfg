SPECIFICATION Spec
CONSTANTS
  Events = {e1}
  SeriesIds = {s1}
  Source = source
  Encoded = encoded
  EngagePlayer = engage
  OtherChannel = other
  roleA = roleA
  roleB = roleB
  Roles = {roleA, roleB}
  Policies <- OnePolicy
  Titles = {t1}
  Sessions = {x1, x2}
  MaxTx = 2
  NoRow = NoRow
  NoSeries = NoSeries
  InitialSeries = NoSeries
INVARIANTS
  NeverDrifts
CHECK_DEADLOCK FALSE

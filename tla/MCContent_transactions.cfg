SPECIFICATION Spec
CONSTANTS
  Events = {e1, e2}
  SeriesIds = {s1, s2}
  Source = source
  Encoded = encoded
  EngagePlayer = engage
  OtherChannel = other
  roleA = roleA
  roleB = roleB
  Roles = {roleA, roleB}
  Policies <- SomePolicies
  Titles = {t1, t2}
  Sessions = {x1, x2}
  MaxTx = 3
  NoRow = NoRow
  NoSeries = NoSeries
  InitialSeries = s1
SYMMETRY Symmetry
INVARIANTS
  TypeOK
  SerialProjection
  PublishedElementsExist
  VersionsSerialized
  
  ListedIsDelivered
  GrantedIsListed
  
CHECK_DEADLOCK FALSE

SPECIFICATION Spec
CONSTANTS
  platform = platform
  f1 = f1
  f2 = f2
  k1 = k1
  k2 = k2
  k3 = k3
  Logins = {f1, f2}
  Idp = idp
  Issuers = {platform, idp}
  Registrations <- OnePlatform
  From <- FromPlatform
  Kids = {k1, k2, k3}
  SignerOf <- Signers
  InitialKeys <- FirstKeys
  Replicas = {r1, r2}
  Requests = {q1, q2}
  FlowTTL = 2
  TokenTTL = 2
  JwksTTL = 1
  SessionTTL = 1
  Skew = 0
  MaxFetch = 1
  MaxTime = 3
  MaxPosts = 2
  MaxFaults = 1
  MaxRotations = 1
  None = None
SYMMETRY Symmetry
INVARIANTS
  TypeOK
  OneLaunchPerLogin
  RolloverSucceeds
  TrustEnds
CHECK_DEADLOCK FALSE

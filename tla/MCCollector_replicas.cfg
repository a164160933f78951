SPECIFICATION Spec
CONSTANTS
  Digests = {d1}
  Writers = {u1, u2}
  Replicas = {r1, r2}
  Grace = 2
  Gap = 1
  MaxTime = 4
  NoDigest = NoDigest
  NoRow = NoRow
INVARIANTS
  SafeAcrossReplicas
CHECK_DEADLOCK FALSE

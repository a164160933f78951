SPECIFICATION FSpec
CONSTANTS
  w1 = w1
  w2 = w2
  Workflows = {w1, w2}
  NumOps = 1
  ClassOf <- Encode
  Implemented = {0}
  Replicas = {r1}
  Workers = {p1}
  MaxAttempts = 2
  MaxFaults = 0
  NoOwner = NoOwner
  Dispatch = Dispatch
  Stated <- TwoSpecs
  Default <- DefaultTwo
  Capacity <- RoomForOne
  MaxSlots = 2
PROPERTIES
  StaysAssigned

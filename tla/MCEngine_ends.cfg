SPECIFICATION FairSpec
CONSTANTS
  Workflows = {w1}
  NumOps = 3
  ClassOf <- WorkerInlineUnclear
  Implemented = {0, 1}
  Replicas = {r1}
  Workers = {p1}
  MaxAttempts = 2
  MaxFaults = 1
  NoOwner = NoOwner
  Dispatch = Dispatch
INVARIANTS
  OneWinnerPerAttempt
  ExactlyOnce
PROPERTIES
  ZombieIsFenced
  EndIsFinal
  EveryWorkflowEnds

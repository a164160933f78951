SPECIFICATION Spec
CONSTANTS
  Workflows = {w1}
  NumOps = 2
  ClassOf <- WorkerThenInline
  Implemented = {0, 1}
  Replicas = {r1, r2}
  Workers = {p1}
  MaxAttempts = 2
  MaxFaults = 0
  NoOwner = NoOwner
  Dispatch = Dispatch
SYMMETRY Symmetry
INVARIANTS
  TypeOK
  WorkflowFollowsTasks
PROPERTIES
  ImplementsWorkflowAbs

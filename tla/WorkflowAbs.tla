---------------------------- MODULE WorkflowAbs ----------------------------
(***************************************************************************)
(* What the engine promises of a workflow, with no tasks, leases, owners   *)
(* or processes in it: its operations take effect in the order of the      *)
(* definition and once each, and it ends SUCCEEDED after the last of them  *)
(* or FAILED before it (src/internal/engine/INVARIANTS.md, I3 and I7).     *)
(***************************************************************************)
EXTENDS Integers

CONSTANTS Workflows, NumOps

Ops == 0 .. NumOps - 1

VARIABLES
  status,   \* state of the workflow row, "none" before it is created
  done      \* how often each operation took effect

Init ==
  /\ status = [w \in Workflows |-> "none"]
  /\ done = [w \in Workflows |-> [i \in Ops |-> 0]]

Create(w) ==
  /\ status[w] = "none"
  /\ status'[w] = "RUNNING"
  /\ done'[w] = done[w]

\* The next operation in order takes effect.
Commit(w) ==
  /\ status[w] = "RUNNING"
  /\ status'[w] = status[w]
  /\ \E i \in Ops :
       /\ \A j \in Ops : j < i <=> done[w][j] = 1
       /\ done'[w] = [done[w] EXCEPT ![i] = 1]

Succeed(w) ==
  /\ status[w] = "RUNNING"
  /\ \A i \in Ops : done[w][i] = 1
  /\ status'[w] = "SUCCEEDED"
  /\ done'[w] = done[w]

Fail(w) ==
  /\ status[w] = "RUNNING"
  /\ \E i \in Ops : done[w][i] = 0
  /\ status'[w] = "FAILED"
  /\ done'[w] = done[w]

\* One statement of the engine may move several workflows.
Next ==
  \A w \in Workflows :
    \/ Create(w) \/ Commit(w) \/ Succeed(w) \/ Fail(w)
    \/ status'[w] = status[w] /\ done'[w] = done[w]

Spec == Init /\ [][Next]_<<status, done>>
=============================================================================

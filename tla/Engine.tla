------------------------------- MODULE Engine -------------------------------
(***************************************************************************)
(* The workflow engine of ocng: src/internal/engine.                       *)
(*                                                                         *)
(* Replicas of ocng-core each run the orchestrator pass Step every 500 ms  *)
(* over the same Postgres tables.  A workflow walks its operations in      *)
(* order; each operation is one row of table task, which an execution (a   *)
(* goroutine of a core replica or of a resident worker) wins, keeps under  *)
(* a lease and finishes, or which the reaper takes back.                   *)
(*                                                                         *)
(* An action is one SQL statement or transaction together with the Go      *)
(* code up to the next one, which is the grain at which the processes      *)
(* interleave.  Time is abstracted to one bit per row: "lease_expires <    *)
(* now()" may become true at any moment.                                   *)
(*                                                                         *)
(* A definition marked "mutant" is the one below it with a bug in it; no   *)
(* action uses it.                                                         *)
(***************************************************************************)
EXTENDS Integers, Sequences, FiniteSets

CONSTANTS
  Workflows,    \* ids of the workflows the engine is given
  NumOps,       \* jsonb_array_length(definition->'operations')
  ClassOf,      \* execution class of each operation (class.go)
  Implemented,  \* operations some executor has an implementation of
  Replicas,     \* ocng-core processes, each with an orchestrator loop
  Workers,      \* resident ocng-worker processes
  MaxAttempts,  \* Options.MaxAttempts
  MaxFaults,    \* bound: crashes and failed statements in a behaviour
  NoOwner,      \* owner is null
  Dispatch      \* the owner string "engine-dispatch" of failUnrunnable

Ops == 0 .. NumOps - 1
Tasks == Workflows \X Ops
Procs == Replicas \cup Workers
Attempts == 1 .. MaxAttempts

\* An execution is named by its process, its task and the attempt its
\* process read off the row when it decided to run the task.
Execs == Procs \X Tasks \X Attempts
Owners == (Procs \X Tasks \X (0 .. MaxAttempts)) \cup {NoOwner, Dispatch}

ASSUME NumOpsAssumption == NumOps \in Nat \ {0}
ASSUME MaxAttemptsAssumption == MaxAttempts \in Nat \ {0}
ASSUME MaxFaultsAssumption == MaxFaults \in Nat
ASSUME ClassAssumption == ClassOf \in [Ops -> {"worker", "inline", "unclear"}]
ASSUME ImplementedAssumption ==
  /\ Implemented \subseteq Ops
  /\ \A i \in Implemented : ClassOf[i] # "unclear"
ASSUME ProcsAssumption == Replicas \cap Workers = {}
ASSUME OwnerAssumption ==
  /\ NoOwner # Dispatch
  /\ {NoOwner, Dispatch} \cap (Procs \X Tasks \X (0 .. MaxAttempts)) = {}

VARIABLES
  (* table workflow *)
  wfState,      \* "none" until CreateWorkflow inserted the row
  currentOp,
  (* table task; the row of <<w, i>> is absent while state is "none" *)
  state,
  owner,
  attempt,
  expired,      \* lease_expires < now()
  (* the orchestrator pass of each replica *)
  opc,          \* the statement of Step the replica runs next
  found,        \* rows the statement's snapshot matched, still to be written
  queue,        \* rows returned by reap or assign, still to be provisioned
  (* the executions: local state of goroutines *)
  pc,
  cancelled,    \* renewErr was sent and workCtx cancelled
  (* history, read by properties only *)
  won,          \* the attempt at which the execution won StartTask, 0 if none
  starts,       \* number of StartTask calls won per task
  effects,      \* the attempts whose mutation was committed, in order
  (* bound *)
  faults

tables == <<wfState, currentOp, state, owner, attempt, expired>>
orchestrator == <<opc, found, queue>>
execution == <<pc, cancelled, won>>
history == <<starts, effects>>
vars == <<tables, orchestrator, execution, history, faults>>

-----------------------------------------------------------------------------
(* Types and initial state *)

WfStates == {"none", "RUNNING", "SUCCEEDED", "FAILED"}
TaskStates == {"none", "ASSIGNED", "RUNNING", "FINISHED", "FAILED"}
Terminal == {"FINISHED", "FAILED"}
StepPoints == {"idle", "failExhausted", "provisionReaped", "advanceScan",
               "advanceApply", "failWorkflows", "assignScan", "assignInsert",
               "provisionCreated"}
ExecPoints == {"none", "claim", "work", "complete", "fail"}

\* Every variable keeps its type (engine.go, schema.sql check constraints).
TypeOK ==
  /\ wfState \in [Workflows -> WfStates]
  /\ currentOp \in [Workflows -> 0 .. NumOps]
  /\ state \in [Tasks -> TaskStates]
  /\ owner \in [Tasks -> Owners]
  /\ attempt \in [Tasks -> Attempts]
  /\ expired \in [Tasks -> BOOLEAN]
  /\ opc \in [Replicas -> StepPoints]
  /\ found \in [Replicas -> SUBSET Tasks]
  /\ queue \in [Replicas -> SUBSET (Tasks \X Attempts)]
  /\ pc \in [Execs -> ExecPoints]
  /\ cancelled \in [Execs -> BOOLEAN]
  /\ won \in [Execs -> 0 .. MaxAttempts]
  /\ starts \in [Tasks -> Nat]
  /\ effects \in [Tasks -> Seq(0 .. MaxAttempts)]
  /\ faults \in 0 .. MaxFaults

Init ==
  /\ wfState = [w \in Workflows |-> "none"]
  /\ currentOp = [w \in Workflows |-> 0]
  /\ state = [t \in Tasks |-> "none"]
  /\ owner = [t \in Tasks |-> NoOwner]
  /\ attempt = [t \in Tasks |-> 1]
  /\ expired = [t \in Tasks |-> FALSE]
  /\ opc = [r \in Replicas |-> "idle"]
  /\ found = [r \in Replicas |-> {}]
  /\ queue = [r \in Replicas |-> {}]
  /\ pc = [x \in Execs |-> "none"]
  /\ cancelled = [x \in Execs |-> FALSE]
  /\ won = [x \in Execs |-> 0]
  /\ starts = [t \in Tasks |-> 0]
  /\ effects = [t \in Tasks |-> <<>>]
  /\ faults = 0

-----------------------------------------------------------------------------
(* Rows and executions *)

Wf(t) == t[1]
OpIndex(t) == t[2]
Class(t) == ClassOf[OpIndex(t)]
Runnable(t) == OpIndex(t) \in Implemented

Proc(x) == x[1]
Task(x) == x[2]

\* The owner string: one per execution in core, one per task in a worker
\* process, one for everybody in failUnrunnable.
OwnerOf(x) ==
  CASE Class(Task(x)) = "worker"  -> <<Proc(x), Task(x), 0>>
    [] Class(Task(x)) = "inline"  -> x
    [] Class(Task(x)) = "unclear" -> Dispatch

Live == {"work", "complete", "fail"}
HeldOrFinished(t) == state[t] \in {"ASSIGNED", "RUNNING", "FINISHED"}  \* mutant
Held(t) == state[t] \in {"ASSIGNED", "RUNNING"}

StartableHeld(t) == state[t] \in {"ASSIGNED", "RUNNING"}                \* mutant
Startable(t) == state[t] = "ASSIGNED"

OwnsAnyone(x) == state[Task(x)] = "RUNNING"                             \* mutant
Owns(x) == state[Task(x)] = "RUNNING" /\ owner[Task(x)] = OwnerOf(x)

\* The worker's inflight map: a goroutine of process p is on task t.
NeverInflight(p, t) == FALSE                                            \* mutant
Inflight(p, t) == \E k \in Attempts : pc[<<p, t, k>>] # "none"

\* The execution returns; nothing of it is left.
Exit(x) ==
  /\ pc' = [pc EXCEPT ![x] = "none"]
  /\ cancelled' = [cancelled EXCEPT ![x] = FALSE]
  /\ won' = [won EXCEPT ![x] = 0]

-----------------------------------------------------------------------------
(* Requests and time *)

CreateWorkflow(w) ==
  /\ wfState[w] = "none"
  /\ wfState' = [wfState EXCEPT ![w] = "RUNNING"]
  /\ UNCHANGED <<currentOp, state, owner, attempt, expired>>
  /\ UNCHANGED <<orchestrator, execution, history, faults>>

\* now() passes lease_expires of a row that is not terminal.
Expire(t) ==
  /\ Held(t)
  /\ ~expired[t]
  /\ expired' = [expired EXCEPT ![t] = TRUE]
  /\ UNCHANGED <<wfState, currentOp, state, owner, attempt>>
  /\ UNCHANGED <<orchestrator, execution, history, faults>>

-----------------------------------------------------------------------------
(* Step: reap, advance, assign *)

ReapableForever == {t \in Tasks : Held(t) /\ expired[t]}                 \* mutant
ReapableStarted ==                                                      \* mutant
  {t \in Tasks : state[t] = "RUNNING" /\ expired[t] /\ attempt[t] < MaxAttempts}
Reapable == {t \in Tasks : Held(t) /\ expired[t] /\ attempt[t] < MaxAttempts}
Exhausted == {t \in Tasks : Held(t) /\ expired[t] /\ attempt[t] >= MaxAttempts}

ReapExpired(r) ==
  /\ opc[r] = "idle"
  /\ opc' = [opc EXCEPT ![r] = "failExhausted"]
  /\ state' = [t \in Tasks |-> IF t \in Reapable THEN "ASSIGNED" ELSE state[t]]
  /\ owner' = [t \in Tasks |-> IF t \in Reapable THEN NoOwner ELSE owner[t]]
  /\ attempt' = [t \in Tasks |-> IF t \in Reapable THEN attempt[t] + 1 ELSE attempt[t]]
  /\ expired' = [t \in Tasks |-> IF t \in Reapable THEN FALSE ELSE expired[t]]
  /\ queue' = [queue EXCEPT ![r] = {<<t, attempt[t] + 1>> : t \in Reapable}]
  /\ UNCHANGED <<wfState, currentOp, found, execution, history, faults>>

FailExhausted(r) ==
  /\ opc[r] = "failExhausted"
  /\ opc' = [opc EXCEPT ![r] = "provisionReaped"]
  /\ state' = [t \in Tasks |-> IF t \in Exhausted THEN "FAILED" ELSE state[t]]
  /\ UNCHANGED <<wfState, currentOp, owner, attempt, expired>>
  /\ UNCHANGED <<found, queue, execution, history, faults>>

\* failUnrunnable runs inside the loop: the next row waits for its return.
Dispatching(r) ==
  \E t \in Tasks : Class(t) = "unclear" /\ Inflight(r, t)

\* One iteration of the loop that provisions the rows reap or assign
\* returned.  The adapter of the VM topology provisions nothing for a
\* worker-class task; an inline or unrunnable one gets an execution.
Provision(r) ==
  /\ opc[r] \in {"provisionReaped", "provisionCreated"}
  /\ ~Dispatching(r)
  /\ \E q \in queue[r] :
       /\ queue' = [queue EXCEPT ![r] = @ \ {q}]
       /\ pc' = IF Class(q[1]) = "worker" THEN pc
                ELSE [pc EXCEPT ![<<r, q[1], q[2]>>] = "claim"]
  /\ UNCHANGED <<tables, opc, found, cancelled, won, history, faults>>

ProvisionDone(r) ==
  /\ queue[r] = {}
  /\ ~Dispatching(r)
  /\ \/ /\ opc[r] = "provisionReaped"
        /\ opc' = [opc EXCEPT ![r] = "advanceScan"]
     \/ /\ opc[r] = "provisionCreated"
        /\ opc' = [opc EXCEPT ![r] = "idle"]
  /\ UNCHANGED <<tables, found, queue, execution, history, faults>>

\* The update of advance matches rows under its snapshot ...
AdvanceScan(r) ==
  /\ opc[r] = "advanceScan"
  /\ opc' = [opc EXCEPT ![r] = "advanceApply"]
  /\ found' = [found EXCEPT ![r] =
       {t \in Tasks : /\ wfState[Wf(t)] = "RUNNING"
                      /\ currentOp[Wf(t)] = OpIndex(t)
                      /\ state[t] = "FINISHED"}]
  /\ UNCHANGED <<tables, queue, execution, history, faults>>

\* ... and re-evaluates its WHERE on the newest version of the workflow row
\* when it locks it (read committed).
StillRunning(t) == wfState[Wf(t)] = "RUNNING"                           \* mutant
StillMatches(t) ==
  /\ wfState[Wf(t)] = "RUNNING"
  /\ currentOp[Wf(t)] = OpIndex(t)

AdvanceApply(r) ==
  LET moved == {Wf(t) : t \in {u \in found[r] : StillMatches(u)}}
  IN
  /\ opc[r] = "advanceApply"
  /\ opc' = [opc EXCEPT ![r] = "failWorkflows"]
  /\ found' = [found EXCEPT ![r] = {}]
  /\ currentOp' = [w \in Workflows |->
       IF w \in moved THEN currentOp[w] + 1 ELSE currentOp[w]]
  /\ wfState' = [w \in Workflows |->
       IF w \in moved /\ currentOp[w] + 1 >= NumOps THEN "SUCCEEDED" ELSE wfState[w]]
  /\ UNCHANGED <<state, owner, attempt, expired>>
  /\ UNCHANGED <<queue, execution, history, faults>>

FailWorkflows(r) ==
  /\ opc[r] = "failWorkflows"
  /\ opc' = [opc EXCEPT ![r] = "assignScan"]
  /\ wfState' = [w \in Workflows |->
       IF /\ wfState[w] = "RUNNING"
          /\ \E t \in Tasks : /\ Wf(t) = w
                              /\ OpIndex(t) = currentOp[w]
                              /\ state[t] = "FAILED"
       THEN "FAILED" ELSE wfState[w]]
  /\ UNCHANGED <<currentOp, state, owner, attempt, expired>>
  /\ UNCHANGED <<found, queue, execution, history, faults>>

\* The not-exists read of assignSQL, under the statement's snapshot.
AssignScan(r) ==
  /\ opc[r] = "assignScan"
  /\ opc' = [opc EXCEPT ![r] = "assignInsert"]
  /\ found' = [found EXCEPT ![r] =
       {t \in Tasks : /\ wfState[Wf(t)] = "RUNNING"
                      /\ currentOp[Wf(t)] = OpIndex(t)
                      /\ state[t] = "none"}]
  /\ UNCHANGED <<tables, queue, execution, history, faults>>

\* on conflict (workflow_id, op_index) do nothing: the unique index lets
\* through the rows that are still absent, and only they are returned.
InsertableUnchecked(r) == found[r]                                      \* mutant
Insertable(r) == {t \in found[r] : state[t] = "none"}

AssignInsert(r) ==
  LET new == Insertable(r)
  IN
  /\ opc[r] = "assignInsert"
  /\ opc' = [opc EXCEPT ![r] = "provisionCreated"]
  /\ found' = [found EXCEPT ![r] = {}]
  /\ state' = [t \in Tasks |-> IF t \in new THEN "ASSIGNED" ELSE state[t]]
  /\ owner' = [t \in Tasks |-> IF t \in new THEN NoOwner ELSE owner[t]]
  /\ attempt' = [t \in Tasks |-> IF t \in new THEN 1 ELSE attempt[t]]
  /\ expired' = [t \in Tasks |-> IF t \in new THEN FALSE ELSE expired[t]]
  /\ queue' = [queue EXCEPT ![r] = {<<t, 1>> : t \in new}]
  /\ UNCHANGED <<wfState, currentOp, execution, history, faults>>

-----------------------------------------------------------------------------
(* The task lifecycle: ExecuteTask and the statements it calls *)

\* A worker takes up a row its poll read as ASSIGNED, however long ago, when
\* no local slot is on it.
Discover(p, t) ==
  /\ p \in Workers
  /\ Class(t) = "worker" /\ Runnable(t)
  /\ state[t] # "none"
  /\ ~Inflight(p, t)
  /\ pc' = [pc EXCEPT ![<<p, t, attempt[t]>>] = "claim"]
  /\ UNCHANGED <<tables, orchestrator, cancelled, won, history, faults>>

StartTask(x) ==
  LET t == Task(x)
  IN
  /\ pc[x] = "claim"
  /\ \/ /\ Startable(t)
        /\ state' = [state EXCEPT ![t] = "RUNNING"]
        /\ owner' = [owner EXCEPT ![t] = OwnerOf(x)]
        /\ expired' = [expired EXCEPT ![t] = FALSE]
        /\ pc' = [pc EXCEPT ![x] = IF Runnable(t) THEN "work" ELSE "fail"]
        /\ won' = [won EXCEPT ![x] = attempt[t]]
        /\ starts' = [starts EXCEPT ![t] = @ + 1]
        /\ UNCHANGED cancelled
     \/ /\ ~Startable(t)
        /\ Exit(x)
        /\ UNCHANGED <<state, owner, expired, starts>>
  /\ UNCHANGED <<wfState, currentOp, attempt, orchestrator, effects, faults>>

\* A tick of the renewal goroutine; a lost lease cancels the work.
RenewLease(x) ==
  /\ pc[x] \in Live /\ Runnable(Task(x))
  /\ ~cancelled[x]
  /\ \/ /\ Owns(x)
        /\ expired' = [expired EXCEPT ![Task(x)] = FALSE]
        /\ UNCHANGED cancelled
     \/ /\ ~Owns(x)
        /\ cancelled' = [cancelled EXCEPT ![x] = TRUE]
        /\ UNCHANGED expired
  /\ UNCHANGED <<wfState, currentOp, state, owner, attempt>>
  /\ UNCHANGED <<orchestrator, pc, won, history, faults>>

\* The body returns with a result or an error, and renewErr is read once.
BodyReturns(x) ==
  /\ pc[x] = "work"
  /\ \/ cancelled[x] /\ Exit(x)
     \/ /\ ~cancelled[x]
        /\ \E next \in {"complete", "fail"} : pc' = [pc EXCEPT ![x] = next]
        /\ UNCHANGED <<cancelled, won>>
  /\ UNCHANGED <<tables, orchestrator, history, faults>>

\* The mutation and the terminal write, in one transaction.
CompleteTask(x) ==
  LET t == Task(x)
  IN
  /\ pc[x] = "complete"
  /\ \/ /\ Owns(x)
        /\ state' = [state EXCEPT ![t] = "FINISHED"]
        /\ effects' = [effects EXCEPT ![t] = Append(@, won[x])]
     \/ /\ ~Owns(x)
        /\ UNCHANGED <<state, effects>>
  /\ Exit(x)
  /\ UNCHANGED <<wfState, currentOp, owner, attempt, expired>>
  /\ UNCHANGED <<orchestrator, starts, faults>>

FailTask(x) ==
  LET t == Task(x)
  IN
  /\ pc[x] = "fail"
  /\ state' = IF Owns(x) THEN [state EXCEPT ![t] = "FAILED"] ELSE state
  /\ Exit(x)
  /\ UNCHANGED <<wfState, currentOp, owner, attempt, expired>>
  /\ UNCHANGED <<orchestrator, history, faults>>

-----------------------------------------------------------------------------
(* Faults *)

\* A process dies and is restarted: its goroutines and its pass are gone.
Crash(p) ==
  /\ faults < MaxFaults
  /\ faults' = faults + 1
  /\ pc' = [x \in Execs |-> IF Proc(x) = p THEN "none" ELSE pc[x]]
  /\ cancelled' = [x \in Execs |-> IF Proc(x) = p THEN FALSE ELSE cancelled[x]]
  /\ won' = [x \in Execs |-> IF Proc(x) = p THEN 0 ELSE won[x]]
  /\ opc' = [r \in Replicas |-> IF r = p THEN "idle" ELSE opc[r]]
  /\ found' = [r \in Replicas |-> IF r = p THEN {} ELSE found[r]]
  /\ queue' = [r \in Replicas |-> IF r = p THEN {} ELSE queue[r]]
  /\ UNCHANGED <<tables, history>>

\* A statement of the pass returns an error: Step gives up the rest of the
\* pass, the rows it still had to provision included.
StepError(r) ==
  /\ faults < MaxFaults
  /\ faults' = faults + 1
  /\ opc[r] \notin {"idle", "provisionReaped", "provisionCreated"}
  /\ opc' = [opc EXCEPT ![r] = "idle"]
  /\ found' = [found EXCEPT ![r] = {}]
  /\ queue' = [queue EXCEPT ![r] = {}]
  /\ UNCHANGED <<tables, execution, history>>

\* A statement of an execution returns an error.  At a renewal it cancels
\* the work; anywhere else, the mutation of CompleteTask included, the
\* execution returns and the row keeps its state until the lease expires.
ExecError(x) ==
  /\ faults < MaxFaults
  /\ faults' = faults + 1
  /\ \/ /\ pc[x] = "work" /\ ~cancelled[x]
        /\ cancelled' = [cancelled EXCEPT ![x] = TRUE]
        /\ UNCHANGED <<pc, won>>
     \/ /\ pc[x] \in {"claim", "complete", "fail"}
        /\ Exit(x)
  /\ UNCHANGED <<tables, orchestrator, history>>

-----------------------------------------------------------------------------
Step(r) ==
  \/ ReapExpired(r)
  \/ FailExhausted(r)
  \/ Provision(r)
  \/ ProvisionDone(r)
  \/ AdvanceScan(r)
  \/ AdvanceApply(r)
  \/ FailWorkflows(r)
  \/ AssignScan(r)
  \/ AssignInsert(r)

Execute(x) ==
  \/ StartTask(x)
  \/ BodyReturns(x)
  \/ CompleteTask(x)
  \/ FailTask(x)

Next ==
  \/ \E w \in Workflows : CreateWorkflow(w)
  \/ \E t \in Tasks : Expire(t)
  \/ \E r \in Replicas : Step(r)
  \/ \E p \in Workers, t \in Tasks : Discover(p, t)
  \/ \E x \in Execs : Execute(x) \/ RenewLease(x)
  \/ \E p \in Procs : Crash(p)
  \/ \E r \in Replicas : StepError(r)
  \/ \E x \in Execs : ExecError(x)

Spec == Init /\ [][Next]_vars

\* The ticker of every replica keeps firing, time passes, and a body
\* returns.  Nothing is assumed of the workers' polls.
Fairness ==
  /\ \A r \in Replicas : WF_vars(Step(r))
  /\ \A t \in Tasks : WF_vars(Expire(t))
  /\ \A x \in Execs : WF_vars(Execute(x))

FairSpec == Spec /\ Fairness

-----------------------------------------------------------------------------
(* Properties *)

\* StartTask has one winner per attempt: over the whole run a task is started
\* at most as often as it was assigned, and two executions alive at the same
\* time never hold the same attempt (engine.go:430-446, invariant I2).
OneWinnerPerAttempt ==
  /\ \A t \in Tasks : starts[t] <= attempt[t]
  /\ \A x, y \in Execs :
       /\ x # y /\ Task(x) = Task(y)
       /\ pc[x] \in Live /\ pc[y] \in Live
       => won[x] # won[y]

\* The mutation of an operation is committed if and only if its task is
\* FINISHED, exactly once, and by the winner of the attempt the row is at:
\* nothing of a reaped, raced or crashed execution survives
\* (engine.go:464-497, invariant I3).
ExactlyOnce ==
  \A t \in Tasks :
    effects[t] = IF state[t] = "FINISHED" THEN <<attempt[t]>> ELSE <<>>

\* The workflow row and the task rows agree: an operation has a row only when
\* the workflow reached it, every operation behind current_op FINISHED, a
\* SUCCEEDED workflow is past its last operation and a FAILED one stands at
\* its failed task, whatever the replicas interleave (engine.go:304-352).
WorkflowFollowsTasks ==
  \A w \in Workflows :
    /\ \A i \in Ops :
         /\ state[<<w, i>>] # "none" => wfState[w] # "none" /\ i <= currentOp[w]
         /\ i < currentOp[w] => state[<<w, i>>] = "FINISHED"
    /\ wfState[w] = "SUCCEEDED" <=> currentOp[w] = NumOps
    /\ wfState[w] = "FAILED" => state[<<w, currentOp[w]>>] = "FAILED"

\* A terminal task row and an ended workflow never change again, though only
\* the task table has a trigger to say so (schema.sql:48-63).
EndIsFinal ==
  [][/\ \A t \in Tasks : state[t] \in Terminal =>
          UNCHANGED <<state[t], owner[t], attempt[t], expired[t], effects[t]>>
     /\ \A w \in Workflows : wfState[w] \in {"SUCCEEDED", "FAILED"} =>
          UNCHANGED <<wfState[w], currentOp[w]>>]_vars

\* A RUNNING row is failed or renewed only by the execution that won its
\* current attempt, or failed by the reaper once its last lease expired: an
\* execution that lost its lease can do neither.  (The executions of
\* failUnrunnable share one owner string, so one of an earlier attempt may
\* stand in for a later one; both only ever write FAILED.)
ZombieIsFenced ==
  [][\A t \in Tasks : Class(t) # "unclear" /\ state[t] = "RUNNING" =>
       /\ state'[t] = "FAILED" =>
            \/ expired[t] /\ attempt[t] = MaxAttempts
            \/ \E x \in Execs : /\ Task(x) = t /\ won[x] = attempt[t]
                                /\ pc[x] = "fail" /\ pc'[x] = "none"
       /\ state'[t] = "RUNNING" /\ expired[t] /\ ~expired'[t] =>
            \E x \in Execs : /\ Task(x) = t /\ won[x] = attempt[t]
                             /\ pc[x] \in Live]_vars

\* Every workflow created ends, though processes crash, statements fail, a
\* provisioning is lost and no worker may ever come (engine.go:254-330).
EveryWorkflowEnds ==
  \A w \in Workflows :
    wfState[w] = "RUNNING" ~> wfState[w] \in {"SUCCEEDED", "FAILED"}

\* What the engine promises of a workflow: its operations take effect once
\* each, in order, and only while it runs.
Abs == INSTANCE WorkflowAbs WITH
         status <- wfState,
         done <- [w \in Workflows |-> [i \in Ops |-> Len(effects[<<w, i>>])]]

\* Every step of the engine is a step of the abstract workflow or leaves it
\* alone.
ImplementsWorkflowAbs == Abs!Spec

\* "an unsupported op must not strand ASSIGNED until lease exhaustion"
\* (worker.go:139-140): a task of an operation nobody implements reaches
\* FAILED through an execution that won it, not through the reaper alone.
UnsupportedFailsLoudly ==
  \A t \in Tasks : ~Runnable(t) /\ state[t] = "FAILED" => starts[t] > 0
=============================================================================

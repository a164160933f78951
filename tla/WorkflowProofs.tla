--------------------------- MODULE WorkflowProofs ---------------------------
(***************************************************************************)
(* Proofs about the workflow rows of Engine: they follow their tasks, an   *)
(* end is final, and the engine implements WorkflowAbs.                    *)
(***************************************************************************)
EXTENDS EngineProofs

-----------------------------------------------------------------------------
(* What a step can do to a task row and to a workflow row *)

\* A row that is not terminal may move; an absent one is inserted by assign.
Moves(t) ==
  \/ UNCHANGED <<state[t], owner[t], attempt[t], expired[t], effects[t]>>
  \/ Held(t) /\ state'[t] \in {"ASSIGNED", "RUNNING", "FINISHED", "FAILED"}
  \/ /\ state[t] = "none" /\ state'[t] = "ASSIGNED"
     /\ \E r \in Replicas : opc[r] = "assignInsert" /\ t \in found[r]

\* advance moves a RUNNING workflow on, or to its end.
Advances(w) ==
  /\ wfState[w] = "RUNNING"
  /\ \E r \in Replicas, t \in Tasks :
       /\ opc[r] = "advanceApply" /\ t \in found[r]
       /\ Wf(t) = w /\ OpIndex(t) = currentOp[w]
  /\ currentOp'[w] = currentOp[w] + 1
  /\ wfState'[w] = IF currentOp[w] + 1 >= NumOps THEN "SUCCEEDED" ELSE "RUNNING"

Fails(w) ==
  /\ wfState[w] = "RUNNING" /\ wfState'[w] = "FAILED"
  /\ currentOp'[w] = currentOp[w]
  /\ \E t \in Tasks : Wf(t) = w /\ OpIndex(t) = currentOp[w] /\ state[t] = "FAILED"

Creates(w) ==
  wfState[w] = "none" /\ wfState'[w] = "RUNNING" /\ currentOp'[w] = currentOp[w]

Stays(w) == UNCHANGED <<wfState[w], currentOp[w]>>

\* What a replica has found is kept, given up, or read off the rows.
Finds(r) ==
  \/ opc'[r] \notin {"advanceApply", "assignInsert"}
  \/ opc'[r] = opc[r] /\ found'[r] = found[r]
  \/ /\ opc'[r] = "advanceApply"
     /\ \A t \in found'[r] : state[t] = "FINISHED"
     /\ UNCHANGED <<state, wfState, currentOp>>
  \/ /\ opc'[r] = "assignInsert"
     /\ \A t \in found'[r] : wfState[Wf(t)] = "RUNNING" /\ currentOp[Wf(t)] = OpIndex(t)
     /\ UNCHANGED <<state, wfState, currentOp>>

LEMMA TaskSteps ==
  ASSUME TypeOK, [Next]_vars, NEW t \in Tasks
  PROVE  Moves(t)
<1> USE DEF Moves, TypeOK, Held
<1>1. ASSUME NEW r \in Replicas, Step(r)
      PROVE  Moves(t)
  <2>1. CASE ReapExpired(r)
    BY <2>1 DEF ReapExpired, Reapable, history
  <2>2. CASE FailExhausted(r)
    BY <2>2 DEF FailExhausted, Exhausted, history
  <2>3. CASE AssignInsert(r)
    BY <2>3 DEF AssignInsert, Insertable, history
  <2>4. CASE UNCHANGED <<state, owner, attempt, expired, effects>>
    BY <2>4
  <2> QED
    BY <1>1, <2>1, <2>2, <2>3, <2>4
       DEF Step, Provision, ProvisionDone, AdvanceScan, AdvanceApply,
           FailWorkflows, AssignScan, tables, history
<1>2. ASSUME NEW x \in Execs, Execute(x) \/ RenewLease(x)
      PROVE  Moves(t)
  <2>1. Task(x) \in Tasks
    BY ExecParts
  <2>2. CASE StartTask(x)
    BY <2>1, <2>2 DEF StartTask, Startable
  <2>3. CASE CompleteTask(x)
    BY <2>1, <2>3 DEF CompleteTask, Owns
  <2>4. CASE FailTask(x)
    BY <2>1, <2>4 DEF FailTask, Owns, history
  <2>5. CASE RenewLease(x)
    BY <2>1, <2>5 DEF RenewLease, Owns, history
  <2>6. CASE BodyReturns(x)
    BY <2>6 DEF BodyReturns, tables, history
  <2> QED
    BY <1>2, <2>2, <2>3, <2>4, <2>5, <2>6 DEF Execute
<1>3. ASSUME NEW u \in Tasks, Expire(u)
      PROVE  Moves(t)
  BY <1>3 DEF Expire, history
<1>4. CASE UNCHANGED <<state, owner, attempt, expired, effects>>
  BY <1>4
<1> QED
  BY <1>1, <1>2, <1>3, <1>4
     DEF Next, vars, CreateWorkflow, Discover, Crash, StepError, ExecError, tables, history

LEMMA WorkflowSteps ==
  ASSUME TypeOK, [Next]_vars, NEW w \in Workflows
  PROVE  \/ Stays(w)
         \/ UNCHANGED <<state, effects>> /\ (Creates(w) \/ Advances(w) \/ Fails(w))
<1> USE DEF Stays, tables, history
<1>0. wfState \in [Workflows -> WfStates]
  BY DEF TypeOK
<1>1. ASSUME NEW v \in Workflows, CreateWorkflow(v)
      PROVE  Stays(w) \/ (UNCHANGED <<state, effects>> /\ Creates(w))
  BY <1>0, <1>1 DEF CreateWorkflow, Creates
<1>2. ASSUME NEW r \in Replicas, AdvanceApply(r)
      PROVE  Stays(w) \/ (UNCHANGED <<state, effects>> /\ Advances(w))
  <2> DEFINE moved == {Wf(t) : t \in {u \in found[r] : StillMatches(u)}}
  <2>1. /\ opc[r] = "advanceApply"
        /\ currentOp'[w] = IF w \in moved THEN currentOp[w] + 1 ELSE currentOp[w]
        /\ wfState'[w] = IF w \in moved /\ currentOp[w] + 1 >= NumOps
                         THEN "SUCCEEDED" ELSE wfState[w]
        /\ UNCHANGED <<state, effects>>
    BY <1>2 DEF AdvanceApply
  <2>2. CASE w \in moved
    <3>1. PICK t \in found[r] : StillMatches(t) /\ Wf(t) = w
      BY <2>2
    <3>2. t \in Tasks
      BY DEF TypeOK
    <3> QED
      BY <2>1, <2>2, <3>1, <3>2 DEF StillMatches, Advances
  <2>3. CASE w \notin moved
    BY <2>1, <2>3
  <2> QED
    BY <2>2, <2>3
<1>3. ASSUME NEW r \in Replicas, FailWorkflows(r)
      PROVE  Stays(w) \/ (UNCHANGED <<state, effects>> /\ Fails(w))
  <2>1. /\ UNCHANGED <<currentOp, state, effects>>
        /\ wfState'[w] =
             IF /\ wfState[w] = "RUNNING"
                /\ \E t \in Tasks : Wf(t) = w /\ OpIndex(t) = currentOp[w] /\ state[t] = "FAILED"
             THEN "FAILED" ELSE wfState[w]
    BY <1>3 DEF FailWorkflows
  <2> QED
    BY <2>1 DEF Fails
<1>4. CASE UNCHANGED <<wfState, currentOp>>
  BY <1>4
<1> QED
  BY <1>1, <1>2, <1>3, <1>4
     DEF Next, vars, Step, Execute, ReapExpired, FailExhausted, Provision, ProvisionDone,
         AdvanceScan, AssignScan, AssignInsert, StartTask, BodyReturns, CompleteTask,
         FailTask, RenewLease, Expire, Discover, Crash, StepError, ExecError

LEMMA FoundSteps ==
  ASSUME TypeOK, [Next]_vars, NEW r \in Replicas
  PROVE  Finds(r)
<1> USE DEF Finds, TypeOK, orchestrator
<1>1. ASSUME NEW s \in Replicas, Step(s)
      PROVE  Finds(r)
  <2>1. CASE AdvanceScan(s)
    BY <2>1 DEF AdvanceScan, tables
  <2>2. CASE AssignScan(s)
    BY <2>2 DEF AssignScan, tables
  <2>3. CASE \/ ReapExpired(s) \/ FailExhausted(s) \/ Provision(s) \/ ProvisionDone(s)
             \/ AdvanceApply(s) \/ FailWorkflows(s) \/ AssignInsert(s)
    BY <2>3 DEF ReapExpired, FailExhausted, Provision, ProvisionDone,
                AdvanceApply, FailWorkflows, AssignInsert
  <2> QED
    BY <1>1, <2>1, <2>2, <2>3 DEF Step
<1>2. CASE UNCHANGED <<opc, found>>
  BY <1>2
<1>3. ASSUME NEW p \in Procs, Crash(p)
      PROVE  Finds(r)
  BY <1>3 DEF Crash
<1>4. ASSUME NEW s \in Replicas, StepError(s)
      PROVE  Finds(r)
  BY <1>4 DEF StepError
<1> QED
  BY <1>1, <1>2, <1>3, <1>4
     DEF Next, vars, CreateWorkflow, Expire, Discover, Execute, RenewLease, StartTask,
         BodyReturns, CompleteTask, FailTask, ExecError

-----------------------------------------------------------------------------
(* Workflow rows follow task rows *)

\* What a replica has found stays true enough until it writes: a FINISHED task
\* stays so, and a workflow never goes back behind an operation.
FoundHolds ==
  \A r \in Replicas :
    /\ opc[r] = "advanceApply" => \A t \in found[r] : state[t] = "FINISHED"
    /\ opc[r] = "assignInsert" => \A t \in found[r] :
         wfState[Wf(t)] # "none" /\ OpIndex(t) <= currentOp[Wf(t)]

LEMMA Pairs ==
  \A w \in Workflows, i \in Ops :
    <<w, i>> \in Tasks /\ Wf(<<w, i>>) = w /\ OpIndex(<<w, i>>) = i
BY DEF Tasks, Wf, OpIndex

LEMMA Indices ==
  ASSUME TypeOK
  PROVE  /\ NumOps \in Int
         /\ \A i \in Ops : i \in Int /\ 0 <= i /\ i < NumOps
         /\ \A w \in Workflows :
              /\ currentOp[w] \in Int /\ 0 <= currentOp[w] /\ currentOp[w] <= NumOps
              /\ currentOp[w] # NumOps => currentOp[w] \in Ops
BY NumOpsAssumption DEF TypeOK, Ops

LEMMA FoundHoldsStep ==
  ASSUME TypeOK, TypeOK', FoundHolds, [Next]_vars
  PROVE  FoundHolds'
<1>1. \A t \in Tasks : state[t] = "FINISHED" => state'[t] = "FINISHED"
  BY TaskSteps DEF Moves, Held
<1>2. \A w \in Workflows :
        /\ wfState[w] # "none" => wfState'[w] # "none"
        /\ currentOp[w] <= currentOp'[w] /\ currentOp'[w] \in Int
  <2>1. \A w \in Workflows : currentOp[w] \in Int
    BY Indices
  <2> QED
    BY <2>1, WorkflowSteps DEF Stays, Creates, Advances, Fails
<1>3. \A r \in Replicas : \A t \in found'[r] :
        t \in Tasks /\ Wf(t) \in Workflows /\ OpIndex(t) \in Int /\ currentOp[Wf(t)] \in Int
  <2>1. \A r \in Replicas : \A t \in found'[r] : t \in Tasks
    BY DEF TypeOK
  <2> QED
    BY <2>1, Indices, TaskParts
<1>4. ASSUME NEW r \in Replicas, opc'[r] = "advanceApply", NEW t \in found'[r]
      PROVE  state'[t] = "FINISHED"
  BY <1>1, <1>3, <1>4, FoundSteps DEF Finds, FoundHolds
<1>5. ASSUME NEW r \in Replicas, opc'[r] = "assignInsert", NEW t \in found'[r]
      PROVE  wfState'[Wf(t)] # "none" /\ OpIndex(t) <= currentOp'[Wf(t)]
  <2>1. CASE opc'[r] = opc[r] /\ found'[r] = found[r]
    <3>1. wfState[Wf(t)] # "none" /\ OpIndex(t) <= currentOp[Wf(t)]
      BY <1>5, <2>1 DEF FoundHolds
    <3> QED
      BY <1>2, <1>3, <2>1, <3>1
  <2>2. CASE /\ \A u \in found'[r] : wfState[Wf(u)] = "RUNNING" /\ currentOp[Wf(u)] = OpIndex(u)
             /\ UNCHANGED <<state, wfState, currentOp>>
    BY <1>3, <1>5, <2>2
  <2> QED
    BY <1>5, <2>1, <2>2, FoundSteps DEF Finds
<1> QED
  BY <1>4, <1>5 DEF FoundHolds

LEMMA FollowsStep ==
  ASSUME TypeOK, TypeOK', FoundHolds, WorkflowFollowsTasks, [Next]_vars
  PROVE  WorkflowFollowsTasks'
<1> SUFFICES ASSUME NEW w \in Workflows
             PROVE  /\ \A i \in Ops :
                         /\ state'[<<w, i>>] # "none" => wfState'[w] # "none" /\ i <= currentOp'[w]
                         /\ i < currentOp'[w] => state'[<<w, i>>] = "FINISHED"
                    /\ wfState'[w] = "SUCCEEDED" <=> currentOp'[w] = NumOps
                    /\ wfState'[w] = "FAILED" => state'[<<w, currentOp'[w]>>] = "FAILED"
  BY DEF WorkflowFollowsTasks
<1>1. /\ \A i \in Ops :
           /\ state[<<w, i>>] # "none" => wfState[w] # "none" /\ i <= currentOp[w]
           /\ i < currentOp[w] => state[<<w, i>>] = "FINISHED"
      /\ wfState[w] = "SUCCEEDED" <=> currentOp[w] = NumOps
      /\ wfState[w] = "FAILED" => state[<<w, currentOp[w]>>] = "FAILED"
  BY DEF WorkflowFollowsTasks
<1>2. /\ NumOps \in Int
      /\ \A i \in Ops : i \in Int /\ 0 <= i /\ i < NumOps
      /\ currentOp[w] \in Int /\ 0 <= currentOp[w] /\ currentOp[w] <= NumOps
      /\ currentOp[w] # NumOps => currentOp[w] \in Ops
  BY Indices
<1>3. \A i \in Ops : <<w, i>> \in Tasks /\ Wf(<<w, i>>) = w /\ OpIndex(<<w, i>>) = i
  BY Pairs
<1>4. CASE Stays(w)
  <2>1. \A i \in Ops :
          \/ state'[<<w, i>>] = state[<<w, i>>]
          \/ Held(<<w, i>>) /\ state'[<<w, i>>] # "none"
          \/ /\ state[<<w, i>>] = "none" /\ state'[<<w, i>>] = "ASSIGNED"
             /\ wfState[w] # "none" /\ i <= currentOp[w]
    BY <1>3, TaskSteps DEF Moves, FoundHolds
  <2>2. \A i \in Ops : Held(<<w, i>>) => state[<<w, i>>] \in {"ASSIGNED", "RUNNING"}
    BY DEF Held
  <2> QED
    BY <1>1, <1>2, <1>4, <2>1, <2>2 DEF Stays
<1>5. CASE UNCHANGED state /\ Creates(w)
  BY <1>1, <1>5 DEF Creates
<1>6. CASE UNCHANGED state /\ Advances(w)
  <2>1. PICK r \in Replicas, t \in Tasks :
          /\ opc[r] = "advanceApply" /\ t \in found[r]
          /\ Wf(t) = w /\ OpIndex(t) = currentOp[w]
    BY <1>6 DEF Advances
  <2>2. currentOp[w] \in Ops /\ t = <<w, currentOp[w]>>
    BY <2>1, TaskParts
  <2>3. state[<<w, currentOp[w]>>] = "FINISHED"
    BY <2>1, <2>2 DEF FoundHolds
  <2>4. /\ wfState[w] = "RUNNING" /\ currentOp'[w] = currentOp[w] + 1
        /\ wfState'[w] = IF currentOp[w] + 1 >= NumOps THEN "SUCCEEDED" ELSE "RUNNING"
    BY <1>6 DEF Advances
  <2>5. \A i \in Ops : i < currentOp[w] + 1 => i < currentOp[w] \/ i = currentOp[w]
    BY <1>2
  <2> QED
    BY <1>1, <1>2, <1>6, <2>2, <2>3, <2>4, <2>5
<1>7. CASE UNCHANGED state /\ Fails(w)
  <2>1. PICK t \in Tasks : Wf(t) = w /\ OpIndex(t) = currentOp[w] /\ state[t] = "FAILED"
    BY <1>7 DEF Fails
  <2>2. t = <<w, currentOp[w]>>
    BY <2>1, TaskParts
  <2> QED
    BY <1>1, <1>7, <2>1, <2>2 DEF Fails
<1> QED
  BY <1>4, <1>5, <1>6, <1>7, WorkflowSteps

LEMMA FollowsInit == Init => FoundHolds /\ WorkflowFollowsTasks
<1> SUFFICES ASSUME Init
             PROVE  FoundHolds /\ WorkflowFollowsTasks
  OBVIOUS
<1>1. FoundHolds
  BY DEF Init, FoundHolds
<1>2. \A w \in Workflows : wfState[w] = "none" /\ currentOp[w] = 0
  BY DEF Init
<1>3. /\ \A w \in Workflows, i \in Ops : state[<<w, i>>] = "none"
      /\ \A i \in Ops : ~(i < 0)
  <2>1. \A w \in Workflows, i \in Ops : state[<<w, i>>] = "none"
    BY Pairs DEF Init
  <2>2. \A i \in Ops : ~(i < 0)
    BY NumOpsAssumption DEF Ops
  <2> QED
    BY <2>1, <2>2
<1>4. NumOps # 0
  BY NumOpsAssumption
<1> QED
  BY <1>1, <1>2, <1>3, <1>4 DEF WorkflowFollowsTasks

\* Workflow rows and task rows agree, whatever the replicas' passes
\* interleave (engine.go:304-352).
THEOREM RowsAgree == Spec => []WorkflowFollowsTasks
<1>1. Init => FoundHolds /\ WorkflowFollowsTasks
  BY FollowsInit
<1>2. TypeOK /\ TypeOK' /\ FoundHolds /\ WorkflowFollowsTasks /\ [Next]_vars
      => FoundHolds' /\ WorkflowFollowsTasks'
  BY FoundHoldsStep, FollowsStep
<1> QED
  BY <1>1, <1>2, TypeCorrect, PTL DEF Spec

\* A terminal task row and an ended workflow never change again
\* (schema.sql:48-63).
THEOREM EndsAreFinal == Spec => EndIsFinal
<1>1. TypeOK /\ [Next]_vars =>
        [/\ \A t \in Tasks : state[t] \in Terminal =>
              UNCHANGED <<state[t], owner[t], attempt[t], expired[t], effects[t]>>
         /\ \A w \in Workflows : wfState[w] \in {"SUCCEEDED", "FAILED"} =>
              UNCHANGED <<wfState[w], currentOp[w]>>]_vars
  <2> SUFFICES ASSUME TypeOK, [Next]_vars
               PROVE  /\ \A t \in Tasks : state[t] \in Terminal =>
                           UNCHANGED <<state[t], owner[t], attempt[t], expired[t], effects[t]>>
                      /\ \A w \in Workflows : wfState[w] \in {"SUCCEEDED", "FAILED"} =>
                           UNCHANGED <<wfState[w], currentOp[w]>>
    OBVIOUS
  <2>1. \A t \in Tasks : state[t] \in Terminal => Moves(t) /\ ~Held(t) /\ state[t] # "none"
    BY TaskSteps DEF Terminal, Held
  <2>2. \A w \in Workflows : Stays(w) \/ Creates(w) \/ Advances(w) \/ Fails(w)
    BY WorkflowSteps
  <2> QED
    BY <2>1, <2>2 DEF Moves, Stays, Creates, Advances, Fails
<1> QED
  BY <1>1, TypeCorrect, PTL DEF Spec, EndIsFinal

-----------------------------------------------------------------------------
(* Zombies *)

\* Who may fail or renew a RUNNING row.
MayFail(t) ==
  \/ expired[t] /\ attempt[t] = MaxAttempts
  \/ \E x \in Execs : /\ Task(x) = t /\ won[x] = attempt[t]
                      /\ pc[x] = "fail" /\ pc'[x] = "none"

MayRenew(t) ==
  \E x \in Execs : Task(x) = t /\ won[x] = attempt[t] /\ pc[x] \in Live

Fenced(t) ==
  /\ state'[t] = "FAILED" => MayFail(t)
  /\ state'[t] = "RUNNING" /\ expired[t] /\ ~expired'[t] => MayRenew(t)

\* The owner check of a statement stands for the attempt check it has not.
LEMMA OwnerIsWinner ==
  ASSUME IInv, NEW x \in Execs, pc[x] \in Live, Owns(x), Class(Task(x)) # "unclear"
  PROVE  won[x] = attempt[Task(x)]
BY DEF IInv, Fence

LEMMA FencedStep ==
  ASSUME IInv, [Next]_vars, NEW t \in Tasks, Class(t) # "unclear", state[t] = "RUNNING"
  PROVE  Fenced(t)
<1> USE DEF Fenced
<1>0. /\ state \in [Tasks -> TaskStates] /\ expired \in [Tasks -> BOOLEAN]
      /\ pc \in [Execs -> ExecPoints]
      /\ attempt[t] \in Attempts
  BY DEF IInv, TypeOK
<1>1. ASSUME NEW r \in Replicas, Step(r)
      PROVE  Fenced(t)
  <2>1. CASE ReapExpired(r)
    BY <1>0, <2>1 DEF ReapExpired, Reapable
  <2>2. CASE FailExhausted(r)
    <3>1. t \in Exhausted => expired[t] /\ attempt[t] = MaxAttempts
      BY <1>0, MaxAttemptsAssumption DEF Exhausted, Attempts
    <3> QED
      BY <2>2, <3>1 DEF FailExhausted, MayFail
  <2>3. CASE AssignInsert(r)
    BY <1>0, <2>3 DEF AssignInsert, Insertable
  <2>4. CASE UNCHANGED <<state, expired>>
    BY <2>4
  <2> QED
    BY <1>1, <2>1, <2>2, <2>3, <2>4
       DEF Step, Provision, ProvisionDone, AdvanceScan, AdvanceApply,
           FailWorkflows, AssignScan, tables
<1>2. ASSUME NEW x \in Execs, Execute(x) \/ RenewLease(x)
      PROVE  Fenced(t)
  <2>1. Task(x) \in Tasks
    BY ExecParts
  <2>2. CASE StartTask(x)
    BY <1>0, <2>1, <2>2 DEF StartTask, Startable
  <2>3. CASE CompleteTask(x)
    BY <1>0, <2>1, <2>3 DEF CompleteTask
  <2>4. CASE FailTask(x)
    <3>1. CASE Owns(x) /\ Task(x) = t
      <4>1. pc[x] = "fail" /\ pc'[x] = "none" /\ UNCHANGED expired
        BY <1>0, <2>4 DEF FailTask, Exit
      <4>2. won[x] = attempt[t]
        BY <3>1, <4>1, OwnerIsWinner DEF Live
      <4> QED
        BY <3>1, <4>1, <4>2 DEF MayFail
    <3>2. CASE ~(Owns(x) /\ Task(x) = t)
      BY <1>0, <2>1, <2>4, <3>2 DEF FailTask
    <3> QED
      BY <3>1, <3>2
  <2>5. CASE RenewLease(x)
    <3>1. CASE Owns(x) /\ Task(x) = t
      <4>1. pc[x] \in Live /\ UNCHANGED state
        BY <2>5 DEF RenewLease
      <4>2. won[x] = attempt[t]
        BY <3>1, <4>1, OwnerIsWinner
      <4> QED
        BY <3>1, <4>1, <4>2 DEF MayRenew
    <3>2. CASE ~(Owns(x) /\ Task(x) = t)
      BY <1>0, <2>1, <2>5, <3>2 DEF RenewLease
    <3> QED
      BY <3>1, <3>2
  <2>6. CASE BodyReturns(x)
    BY <2>6 DEF BodyReturns, tables
  <2> QED
    BY <1>2, <2>2, <2>3, <2>4, <2>5, <2>6 DEF Execute
<1>3. ASSUME NEW u \in Tasks, Expire(u)
      PROVE  Fenced(t)
  BY <1>0, <1>3 DEF Expire
<1>4. CASE UNCHANGED <<state, expired>>
  BY <1>4
<1> QED
  BY <1>1, <1>2, <1>3, <1>4
     DEF Next, vars, CreateWorkflow, Discover, Crash, StepError, ExecError, tables

\* An execution that lost its lease can neither fail nor renew the row.
THEOREM ZombiesAreFenced == Spec => ZombieIsFenced
<1>1. IInv /\ [Next]_vars =>
        [\A t \in Tasks : Class(t) # "unclear" /\ state[t] = "RUNNING" =>
           /\ state'[t] = "FAILED" =>
                \/ expired[t] /\ attempt[t] = MaxAttempts
                \/ \E x \in Execs : /\ Task(x) = t /\ won[x] = attempt[t]
                                    /\ pc[x] = "fail" /\ pc'[x] = "none"
           /\ state'[t] = "RUNNING" /\ expired[t] /\ ~expired'[t] =>
                \E x \in Execs : /\ Task(x) = t /\ won[x] = attempt[t]
                                 /\ pc[x] \in Live]_vars
  BY FencedStep DEF Fenced, MayFail, MayRenew
<1> QED
  BY <1>1, LeaseInvariant, PTL DEF Spec, ZombieIsFenced

-----------------------------------------------------------------------------
(* The engine implements WorkflowAbs *)

\* What the refinement mapping gives for the abstract variable done.
Done == [w \in Workflows |-> [i \in Ops |-> Len(effects[<<w, i>>])]]

\* A task has taken effect if and only if it is FINISHED.
LEMMA DoneIsFinished ==
  ASSUME ExactlyOnce, NEW w \in Workflows, NEW i \in Ops
  PROVE  Done[w][i] = IF state[<<w, i>>] = "FINISHED" THEN 1 ELSE 0
<1>1. effects[<<w, i>>] = IF state[<<w, i>>] = "FINISHED"
                          THEN <<attempt[<<w, i>>]>> ELSE <<>>
  BY Pairs DEF ExactlyOnce
<1>2. Len(<<attempt[<<w, i>>]>>) = 1 /\ Len(<<>>) = 0
  OBVIOUS
<1>3. Done[w][i] = Len(effects[<<w, i>>])
  BY DEF Done
<1>4. CASE state[<<w, i>>] = "FINISHED"
  BY <1>1, <1>2, <1>3, <1>4
<1>5. CASE state[<<w, i>>] # "FINISHED"
  BY <1>1, <1>2, <1>3, <1>5
<1> QED
  BY <1>4, <1>5

\* Only the completing transaction of an owner commits anything.
LEMMA WhoCommits ==
  ASSUME [Next]_vars
  PROVE  UNCHANGED effects \/ \E x \in Execs : CompleteTask(x) /\ Owns(x)
<1>1. \A x \in Execs : CompleteTask(x) /\ ~Owns(x) => UNCHANGED effects
  BY DEF CompleteTask
<1> QED
  BY <1>1
     DEF Next, vars, CreateWorkflow, Expire, Discover, Crash, StepError, ExecError,
         Step, ReapExpired, FailExhausted, Provision, ProvisionDone, AdvanceScan,
         AdvanceApply, FailWorkflows, AssignScan, AssignInsert,
         Execute, StartTask, BodyReturns, FailTask, RenewLease, history

\* A step that commits nothing creates or ends workflows, or is a stutter.
LEMMA QuietRefines ==
  ASSUME TypeOK, FoundHolds, WorkflowFollowsTasks, ExactlyOnce, [Next]_vars,
         UNCHANGED effects, NEW w \in Workflows
  PROVE  \/ Abs!Create(w) \/ Abs!Succeed(w) \/ Abs!Fail(w)
         \/ wfState'[w] = wfState[w] /\ Done'[w] = Done[w]
<1>1. Done' = Done
  BY DEF Done
<1>2. CASE Stays(w)
  BY <1>1, <1>2 DEF Stays
<1>3. CASE Creates(w)
  BY <1>1, <1>3 DEF Creates, Abs!Create, Done
<1>4. CASE Advances(w)
  <2>1. CASE currentOp[w] + 1 >= NumOps
    <3>1. PICK r \in Replicas, t \in Tasks :
            /\ opc[r] = "advanceApply" /\ t \in found[r]
            /\ Wf(t) = w /\ OpIndex(t) = currentOp[w]
      BY <1>4 DEF Advances
    <3>2. t = <<w, currentOp[w]>> /\ state[t] = "FINISHED"
      BY <3>1, TaskParts DEF FoundHolds
    <3>3. \A i \in Ops : i < currentOp[w] \/ i = currentOp[w]
      BY <2>1, Indices
    <3>4. \A i \in Ops : state[<<w, i>>] = "FINISHED"
      BY <3>2, <3>3 DEF WorkflowFollowsTasks
    <3>5. \A i \in Ops : Done[w][i] = 1
      BY <3>4, DoneIsFinished
    <3> QED
      BY <1>1, <1>4, <2>1, <3>5 DEF Advances, Abs!Succeed, Abs!Ops, Ops, Done
  <2>2. CASE ~(currentOp[w] + 1 >= NumOps)
    BY <1>1, <1>4, <2>2 DEF Advances
  <2> QED
    BY <2>1, <2>2
<1>5. CASE Fails(w)
  <2>1. PICK t \in Tasks : Wf(t) = w /\ OpIndex(t) = currentOp[w] /\ state[t] = "FAILED"
    BY <1>5 DEF Fails
  <2>2. t = <<w, OpIndex(t)>> /\ OpIndex(t) \in Ops
    BY <2>1, TaskParts
  <2>3. Done[w][OpIndex(t)] = 0
    BY <2>1, <2>2, DoneIsFinished
  <2> QED
    BY <1>1, <1>5, <2>2, <2>3 DEF Fails, Abs!Fail, Abs!Ops, Ops, Done
<1> QED
  BY <1>2, <1>3, <1>4, <1>5, WorkflowSteps

\* A commit is the next operation of its workflow taking effect.
LEMMA CommitRefines ==
  ASSUME TypeOK, WorkflowFollowsTasks, ExactlyOnce, ExactlyOnce',
         NEW x \in Execs, CompleteTask(x), Owns(x), NEW w \in Workflows
  PROVE  Abs!Commit(w) \/ (wfState'[w] = wfState[w] /\ Done'[w] = Done[w])
<1> DEFINE t == Task(x)
           i == OpIndex(t)
<1>1. t \in Tasks /\ i \in Ops /\ Wf(t) \in Workflows /\ t = <<Wf(t), i>>
  BY ExecParts, TaskParts
<1>2. /\ state[t] = "RUNNING" /\ UNCHANGED wfState
      /\ state' = [state EXCEPT ![t] = "FINISHED"]
      /\ effects' = [effects EXCEPT ![t] = Append(@, won[x])]
  BY DEF CompleteTask, Owns
<1> HIDE DEF t, i
<1>3. CASE w # Wf(t)
  <2>1. \A j \in Ops : <<w, j>> \in Tasks /\ <<w, j>> # t
    BY <1>1, <1>3, Pairs
  <2>2. \A j \in Ops : effects'[<<w, j>>] = effects[<<w, j>>]
    BY <1>2, <2>1 DEF TypeOK
  <2>3. Done'[w] = Done[w]
    BY <2>2 DEF Done
  <2> QED
    BY <1>2, <2>3
<1>4. CASE w = Wf(t)
  <2>1. t = <<w, i>>
    BY <1>1, <1>4
  <2>2. /\ wfState[w] # "none" /\ i <= currentOp[w] /\ ~(i < currentOp[w])
        /\ wfState[w] = "SUCCEEDED" <=> currentOp[w] = NumOps
        /\ wfState[w] = "FAILED" => state[<<w, currentOp[w]>>] = "FAILED"
    BY <1>1, <1>2, <2>1 DEF WorkflowFollowsTasks
  <2>3. /\ i \in Int /\ i < NumOps /\ currentOp[w] \in Int
        /\ \A j \in Ops : j \in Int
    BY <1>1, Indices
  <2>4. i = currentOp[w]
    BY <2>2, <2>3
  <2>5. wfState[w] = "RUNNING"
    <3>1. wfState[w] \in WfStates
      BY DEF TypeOK
    <3> QED
      BY <1>2, <2>1, <2>2, <2>3, <2>4, <3>1 DEF WfStates
  <2>6. ASSUME NEW j \in Ops
        PROVE  j < i <=> Done[w][j] = 1
    <3>1. CASE j < i
      BY <2>4, <3>1, DoneIsFinished DEF WorkflowFollowsTasks
    <3>2. CASE ~(j < i)
      <4>1. state[<<w, j>>] # "FINISHED"
        <5>1. CASE j = i
          BY <1>2, <2>1, <5>1
        <5>2. CASE j # i
          <6>1. ~(j <= currentOp[w])
            BY <2>3, <2>4, <3>2, <5>2
          <6> QED
            BY <6>1 DEF WorkflowFollowsTasks
        <5> QED
          BY <5>1, <5>2
      <4> QED
        BY <3>2, <4>1, DoneIsFinished
    <3> QED
      BY <3>1, <3>2
  <2>7. Done'[w] = [Done[w] EXCEPT ![i] = 1]
    <3>1. \A j \in Ops : j # i => effects'[<<w, j>>] = effects[<<w, j>>]
      <4>1. \A j \in Ops : j # i => <<w, j>> \in Tasks /\ <<w, j>> # t
        BY <2>1, Pairs
      <4> QED
        BY <1>2, <4>1 DEF TypeOK
    <3>2. Len(effects'[<<w, i>>]) = 1
      <4>1. state'[t] = "FINISHED"
        BY <1>1, <1>2 DEF TypeOK
      <4>2. effects'[t] = <<attempt'[t]>>
        BY <1>1, <4>1 DEF ExactlyOnce
      <4> QED
        BY <2>1, <4>2
    <3> QED
      BY <1>1, <3>1, <3>2 DEF Done
  <2> QED
    BY <1>1, <1>2, <2>5, <2>6, <2>7 DEF Abs!Commit, Abs!Ops, Ops, Done
<1> QED
  BY <1>3, <1>4

\* Every step of the engine is a step of the abstract workflow or leaves it
\* alone: operations take effect in order and once, and none after the end.
THEOREM Implements == Spec => ImplementsWorkflowAbs
<1>1. Init => Abs!Init
  <2> SUFFICES ASSUME Init PROVE Abs!Init
    OBVIOUS
  <2>1. \A w \in Workflows, i \in Ops : Len(effects[<<w, i>>]) = 0
    BY Pairs DEF Init
  <2>2. wfState = [w \in Workflows |-> "none"]
    BY DEF Init
  <2> QED
    BY <2>1, <2>2 DEF Abs!Init, Abs!Ops, Ops
<1>2. IInv /\ IInv' /\ FoundHolds /\ WorkflowFollowsTasks /\ [Next]_vars => Abs!Next
  <2> SUFFICES ASSUME IInv, IInv', FoundHolds, WorkflowFollowsTasks, [Next]_vars,
                      NEW w \in Workflows
               PROVE  \/ Abs!Create(w) \/ Abs!Commit(w) \/ Abs!Succeed(w) \/ Abs!Fail(w)
                      \/ wfState'[w] = wfState[w] /\ Done'[w] = Done[w]
    BY DEF Abs!Next, Done
  <2>1. TypeOK /\ ExactlyOnce /\ ExactlyOnce'
    BY DEF IInv
  <2> QED
    BY <2>1, WhoCommits, QuietRefines, CommitRefines
<1>3. Spec => []FoundHolds
  <2>1. Init => FoundHolds /\ WorkflowFollowsTasks
    BY FollowsInit
  <2>2. TypeOK /\ TypeOK' /\ FoundHolds /\ [Next]_vars => FoundHolds'
    BY FoundHoldsStep
  <2> QED
    BY <2>1, <2>2, TypeCorrect, PTL DEF Spec
<1> QED
  BY <1>1, <1>2, <1>3, LeaseInvariant, RowsAgree, PTL DEF Spec, ImplementsWorkflowAbs, Abs!Spec
=============================================================================

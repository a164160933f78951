---------------------------- MODULE EngineProofs ----------------------------
(***************************************************************************)
(* Proofs about Engine, for any number of workflows, operations, replicas, *)
(* workers, attempts and faults.                                           *)
(***************************************************************************)
EXTENDS Engine, TLAPS

\* The parts of a task and of an execution have their types.
LEMMA TaskParts ==
  ASSUME NEW t \in Tasks
  PROVE  /\ Wf(t) \in Workflows /\ OpIndex(t) \in Ops
         /\ t = <<Wf(t), OpIndex(t)>>
         /\ Class(t) \in {"worker", "inline", "unclear"}
BY ClassAssumption DEF Tasks, Wf, OpIndex, Class

LEMMA ExecParts ==
  ASSUME NEW x \in Execs
  PROVE  /\ Proc(x) \in Procs /\ Task(x) \in Tasks /\ x[3] \in Attempts
         /\ x = <<Proc(x), Task(x), x[3]>>
BY DEF Execs, Proc, Task

\* The owner string an execution writes is an owner.
LEMMA OwnerType ==
  ASSUME NEW x \in Execs
  PROVE  OwnerOf(x) \in Owners
<1>1. /\ Proc(x) \in Procs /\ Task(x) \in Tasks /\ x[3] \in Attempts
      /\ x = <<Proc(x), Task(x), x[3]>>
  BY ExecParts
<1>2. Attempts \subseteq 0 .. MaxAttempts /\ 0 \in 0 .. MaxAttempts
  BY MaxAttemptsAssumption DEF Attempts
<1>3. /\ <<Proc(x), Task(x), x[3]>> \in Owners
      /\ <<Proc(x), Task(x), 0>> \in Owners
      /\ Dispatch \in Owners
  <2> HIDE DEF Proc, Task
  <2> QED
    BY <1>1, <1>2 DEF Owners
<1>4. Class(Task(x)) \in {"worker", "inline", "unclear"}
  BY <1>1, TaskParts
<1> QED
  BY <1>1, <1>3, <1>4 DEF OwnerOf

-----------------------------------------------------------------------------
(* Type correctness *)

LEMMA InitType == Init => TypeOK
BY NumOpsAssumption, MaxAttemptsAssumption, MaxFaultsAssumption
   DEF Init, TypeOK, WfStates, TaskStates, Owners, Attempts, StepPoints, ExecPoints

LEMMA StepType ==
  ASSUME TypeOK, NEW r \in Replicas, Step(r)
  PROVE  TypeOK'
<1> USE MaxAttemptsAssumption, NumOpsAssumption DEF TypeOK, tables, execution, history
<1>1. CASE ReapExpired(r)
  <2>1. \A t \in Reapable : attempt[t] + 1 \in Attempts
    BY DEF Reapable, Attempts
  <2>2. {<<t, attempt[t] + 1>> : t \in Reapable} \subseteq Tasks \X Attempts
    BY <2>1 DEF Reapable
  <2> QED
    BY <1>1, <2>1, <2>2 DEF ReapExpired, StepPoints, TaskStates, Owners
<1>2. CASE FailExhausted(r)
  BY <1>2 DEF FailExhausted, StepPoints, TaskStates
<1>3. CASE Provision(r)
  <2>1. queue' \in [Replicas -> SUBSET (Tasks \X Attempts)]
    BY <1>3 DEF Provision
  <2>2. pc' \in [Execs -> ExecPoints]
    BY <1>3 DEF Provision, ExecPoints
  <2> QED
    BY <1>3, <2>1, <2>2 DEF Provision
<1>4. CASE ProvisionDone(r)
  BY <1>4 DEF ProvisionDone, StepPoints
<1>5. CASE AdvanceScan(r)
  BY <1>5 DEF AdvanceScan, StepPoints
<1>6. CASE AdvanceApply(r)
  <2> DEFINE moved == {Wf(t) : t \in {u \in found[r] : StillMatches(u)}}
  <2>1. \A w \in moved : currentOp[w] \in Ops
    BY TaskParts DEF StillMatches
  <2>2. \A w \in moved : currentOp[w] + 1 \in 0 .. NumOps
    <3> HIDE DEF moved, TypeOK
    <3> QED
      BY <2>1 DEF Ops
  <2>3. currentOp' \in [Workflows -> 0 .. NumOps]
    BY <1>6, <2>2 DEF AdvanceApply
  <2>4. wfState' \in [Workflows -> WfStates]
    BY <1>6 DEF AdvanceApply, WfStates
  <2>5. opc' \in [Replicas -> StepPoints] /\ found' \in [Replicas -> SUBSET Tasks]
    BY <1>6 DEF AdvanceApply, StepPoints
  <2> QED
    BY <1>6, <2>3, <2>4, <2>5 DEF AdvanceApply
<1>7. CASE FailWorkflows(r)
  BY <1>7 DEF FailWorkflows, StepPoints, WfStates
<1>8. CASE AssignScan(r)
  BY <1>8 DEF AssignScan, StepPoints
<1>9. CASE AssignInsert(r)
  <2>1. {<<t, 1>> : t \in Insertable(r)} \subseteq Tasks \X Attempts
    BY DEF Insertable, Attempts
  <2>2. queue' \in [Replicas -> SUBSET (Tasks \X Attempts)]
    BY <1>9, <2>1 DEF AssignInsert
  <2>3. /\ opc' \in [Replicas -> StepPoints]
        /\ found' \in [Replicas -> SUBSET Tasks]
    BY <1>9 DEF AssignInsert, StepPoints
  <2>4. /\ state' \in [Tasks -> TaskStates]
        /\ expired' \in [Tasks -> BOOLEAN]
    BY <1>9 DEF AssignInsert, TaskStates
  <2>5. owner' \in [Tasks -> Owners]
    BY <1>9 DEF AssignInsert, Owners
  <2>6. attempt' \in [Tasks -> Attempts]
    BY <1>9 DEF AssignInsert, Attempts
  <2> QED
    BY <1>9, <2>2, <2>3, <2>4, <2>5, <2>6 DEF AssignInsert
<1> QED
  BY <1>1, <1>2, <1>3, <1>4, <1>5, <1>6, <1>7, <1>8, <1>9 DEF Step

LEMMA ExecuteType ==
  ASSUME TypeOK, NEW x \in Execs, Execute(x) \/ RenewLease(x)
  PROVE  TypeOK'
<1> USE MaxAttemptsAssumption
    DEF TypeOK, tables, orchestrator, execution, history, Exit
<1>0. Task(x) \in Tasks /\ OwnerOf(x) \in Owners
  BY ExecParts, OwnerType
<1>x. /\ [pc EXCEPT ![x] = "none"] \in [Execs -> ExecPoints]
      /\ [cancelled EXCEPT ![x] = FALSE] \in [Execs -> BOOLEAN]
      /\ [won EXCEPT ![x] = 0] \in [Execs -> 0 .. MaxAttempts]
  BY DEF ExecPoints
<1>1. CASE StartTask(x)
  <2> DEFINE t == Task(x)
  <2>1. attempt[t] \in 0 .. MaxAttempts
    BY <1>0 DEF Attempts
  <2>2. CASE Startable(t)
    <3>1. /\ pc' \in [Execs -> ExecPoints]
          /\ won' \in [Execs -> 0 .. MaxAttempts]
      BY <1>1, <2>1, <2>2 DEF StartTask, ExecPoints
    <3>2. /\ state' \in [Tasks -> TaskStates]
          /\ expired' \in [Tasks -> BOOLEAN]
      BY <1>1, <2>2 DEF StartTask, TaskStates
    <3>3. owner' \in [Tasks -> Owners]
      BY <1>0, <1>1, <2>2 DEF StartTask
    <3>4. starts' \in [Tasks -> Nat]
      <4>1. starts' = [starts EXCEPT ![t] = @ + 1]
        BY <1>1, <2>2 DEF StartTask
      <4> QED
        BY <4>1, <1>0
    <3> QED
      BY <1>1, <2>2, <3>1, <3>2, <3>3, <3>4 DEF StartTask
  <2>3. CASE ~Startable(t)
    BY <1>x, <1>1, <2>3 DEF StartTask
  <2> QED
    BY <2>2, <2>3
<1>2. CASE BodyReturns(x)
  <2>1. CASE cancelled[x]
    BY <1>x, <1>2, <2>1 DEF BodyReturns
  <2>2. CASE ~cancelled[x]
    BY <1>2, <2>2 DEF BodyReturns, ExecPoints
  <2> QED
    BY <2>1, <2>2
<1>3. CASE CompleteTask(x)
  <2>1. Append(effects[Task(x)], won[x]) \in Seq(0 .. MaxAttempts)
    BY <1>0
  <2>2. state' \in [Tasks -> TaskStates]
    BY <1>3 DEF CompleteTask, TaskStates
  <2>3. effects' \in [Tasks -> Seq(0 .. MaxAttempts)]
    BY <1>3, <2>1 DEF CompleteTask
  <2> QED
    BY <1>x, <1>3, <2>2, <2>3 DEF CompleteTask
<1>4. CASE FailTask(x)
  BY <1>0, <1>x, <1>4 DEF FailTask, TaskStates
<1>5. CASE RenewLease(x)
  BY <1>0, <1>5 DEF RenewLease
<1> QED
  BY <1>1, <1>2, <1>3, <1>4, <1>5 DEF Execute

LEMMA OtherType ==
  ASSUME TypeOK,
         \/ \E w \in Workflows : CreateWorkflow(w)
         \/ \E t \in Tasks : Expire(t)
         \/ \E p \in Workers, t \in Tasks : Discover(p, t)
         \/ \E p \in Procs : Crash(p)
         \/ \E r \in Replicas : StepError(r)
         \/ \E x \in Execs : ExecError(x)
  PROVE  TypeOK'
<1> USE MaxFaultsAssumption
    DEF TypeOK, tables, orchestrator, execution, history, Exit
<1>1. CASE \E w \in Workflows : CreateWorkflow(w)
  BY <1>1 DEF CreateWorkflow, WfStates
<1>2. CASE \E t \in Tasks : Expire(t)
  BY <1>2 DEF Expire
<1>3. CASE \E p \in Workers, t \in Tasks : Discover(p, t)
  BY <1>3 DEF Discover, ExecPoints
<1>4. CASE \E p \in Procs : Crash(p)
  <2>1. PICK p \in Procs : Crash(p)
    BY <1>4
  <2>2. pc' \in [Execs -> ExecPoints]
    BY <2>1 DEF Crash, ExecPoints
  <2>4. cancelled' \in [Execs -> BOOLEAN]
    BY <2>1 DEF Crash
  <2>5. won' \in [Execs -> 0 .. MaxAttempts]
    BY <2>1, MaxAttemptsAssumption DEF Crash
  <2>3. /\ opc' \in [Replicas -> StepPoints]
        /\ found' \in [Replicas -> SUBSET Tasks]
        /\ queue' \in [Replicas -> SUBSET (Tasks \X Attempts)]
    BY <2>1 DEF Crash, StepPoints
  <2>6. faults' \in 0 .. MaxFaults
    BY <2>1 DEF Crash
  <2>7. UNCHANGED <<tables, history>>
    BY <2>1 DEF Crash
  <2> QED
    BY <2>2, <2>3, <2>4, <2>5, <2>6, <2>7
<1>5. CASE \E r \in Replicas : StepError(r)
  BY <1>5 DEF StepError, StepPoints
<1>6. CASE \E x \in Execs : ExecError(x)
  <2>1. PICK x \in Execs : ExecError(x)
    BY <1>6
  <2>2. pc' \in [Execs -> ExecPoints]
    BY <2>1 DEF ExecError, ExecPoints
  <2>3. cancelled' \in [Execs -> BOOLEAN]
    BY <2>1 DEF ExecError
  <2>4. won' \in [Execs -> 0 .. MaxAttempts]
    <3>1. [won EXCEPT ![x] = 0] \in [Execs -> 0 .. MaxAttempts]
      BY MaxAttemptsAssumption
    <3> QED
      BY <2>1, <3>1 DEF ExecError
  <2> QED
    BY <2>1, <2>2, <2>3, <2>4 DEF ExecError
<1> QED
  BY <1>1, <1>2, <1>3, <1>4, <1>5, <1>6

\* TypeOK holds in every reachable state.
THEOREM TypeCorrect == Spec => []TypeOK
<1>1. Init => TypeOK
  BY InitType
<1>2. TypeOK /\ [Next]_vars => TypeOK'
  <2> SUFFICES ASSUME TypeOK, [Next]_vars PROVE TypeOK'
    OBVIOUS
  <2>1. CASE Next
    BY <2>1, StepType, ExecuteType, OtherType DEF Next
  <2>2. CASE UNCHANGED vars
    BY <2>2 DEF TypeOK, vars, tables, orchestrator, execution, history
  <2> QED
    BY <2>1, <2>2
<1> QED
  BY <1>1, <1>2, PTL DEF Spec

-----------------------------------------------------------------------------
(* The inductive invariant of the lease protocol *)

\* An execution holds an attempt exactly while it is alive, never one the row
\* has not reached, and only a runnable task is worked on or completed.
Bookkeeping ==
  \A x \in Execs :
    /\ won[x] # 0 <=> pc[x] \in Live
    /\ won[x] <= attempt[Task(x)]
    /\ pc[x] \in {"work", "complete"} => Runnable(Task(x))

\* The attempt an ASSIGNED row is at has not been won by anybody.
Unstarted ==
  \A t \in Tasks :
    /\ starts[t] <= attempt[t]
    /\ state[t] \in {"none", "ASSIGNED"} => starts[t] < attempt[t]
    /\ state[t] = "none" => attempt[t] = 1
    /\ state[t] \in {"none", "ASSIGNED"} =>
         \A x \in Execs : Task(x) = t => won[x] < attempt[t]

\* No two executions hold the same attempt of a task.
Distinct ==
  \A x, y \in Execs :
    x # y /\ Task(x) = Task(y) /\ won[x] # 0 => won[x] # won[y]

\* A worker process has at most one execution of a task, so that its owner
\* string names one.
OneSlot ==
  \A x, y \in Execs :
    /\ Class(Task(x)) = "worker"
    /\ Task(x) = Task(y) /\ Proc(x) = Proc(y)
    /\ pc[x] # "none" /\ pc[y] # "none"
    => x = y

\* Who can still write a RUNNING row is the winner of its current attempt.
Fence ==
  \A x \in Execs :
    pc[x] \in Live /\ Class(Task(x)) # "unclear" /\ Owns(x)
    => won[x] = attempt[Task(x)]

\* The names of executions are not reused while they are in use.
Fresh ==
  /\ \A x \in Execs : pc[x] # "none" =>
       state[Task(x)] # "none" /\ x[3] <= attempt[Task(x)]
  /\ \A r \in Replicas : \A q \in queue[r] :
       /\ state[q[1]] # "none" /\ q[2] <= attempt[q[1]]
       /\ Class(q[1]) # "worker" => pc[<<r, q[1], q[2]>>] = "none"

IInv ==
  /\ TypeOK
  /\ Bookkeeping
  /\ Unstarted
  /\ Distinct
  /\ OneSlot
  /\ Fence
  /\ Fresh
  /\ ExactlyOnce

\* Executions that end, tasks that are failed and provisionings that are
\* dropped keep the invariant: whatever only retreats is harmless.
LEMMA RetreatStep ==
  ASSUME IInv, TypeOK',
         UNCHANGED <<owner, attempt, starts, effects>>,
         \A t \in Tasks : state'[t] = state[t]
                          \/ (Held(t) /\ state'[t] = "FAILED"),
         \A x \in Execs : \/ pc'[x] = pc[x] /\ won'[x] = won[x]
                          \/ pc'[x] = "none" /\ won'[x] = 0,
         \A r \in Replicas : queue'[r] \subseteq queue[r]
  PROVE  IInv'
<1> USE DEF IInv
<1>0. \A x \in Execs : Task(x) \in Tasks
  BY ExecParts
<1>1. Bookkeeping'
  <2>1. Bookkeeping
    OBVIOUS
  <2>2. \A x \in Execs : 0 <= attempt[Task(x)]
    BY <1>0 DEF TypeOK, Attempts
  <2> QED
    BY <2>1, <2>2 DEF Bookkeeping, Live
<1>2. Unstarted'
  <2>1. Unstarted
    OBVIOUS
  <2>2. \A t \in Tasks : attempt[t] >= 1 /\ attempt[t] \in Nat /\ starts[t] \in Nat
    BY DEF TypeOK, Attempts
  <2>3. \A t \in Tasks : state'[t] \in {"none", "ASSIGNED"} => state'[t] = state[t]
    OBVIOUS
  <2>4. \A x \in Execs : won'[x] = won[x] \/ won'[x] = 0
    OBVIOUS
  <2> QED
    BY <2>1, <2>2, <2>3, <2>4 DEF Unstarted
<1>3. Distinct'
  <2>1. Distinct
    OBVIOUS
  <2> QED
    BY <2>1 DEF Distinct
<1>4. OneSlot'
  <2>1. OneSlot
    OBVIOUS
  <2> QED
    BY <2>1 DEF OneSlot
<1>5. Fence'
  <2>1. Fence
    OBVIOUS
  <2>2. \A x \in Execs : Owns(x)' => Owns(x)
    BY <1>0 DEF Owns
  <2>3. \A x \in Execs : pc'[x] \in Live => pc'[x] = pc[x] /\ won'[x] = won[x]
    BY DEF Live
  <2> QED
    BY <2>1, <2>2, <2>3 DEF Fence
<1>6. Fresh'
  <2>1. Fresh
    OBVIOUS
  <2>2. \A t \in Tasks : state[t] # "none" => state'[t] # "none"
    OBVIOUS
  <2>3. \A x \in Execs : pc[x] = "none" => pc'[x] = "none"
    OBVIOUS
  <2>4. \A r \in Replicas : \A q \in queue[r] :
          q[1] \in Tasks /\ <<r, q[1], q[2]>> \in Execs
    BY DEF TypeOK, Execs, Procs
  <2> QED
    BY <1>0, <2>1, <2>2, <2>3, <2>4 DEF Fresh
<1>7. ExactlyOnce'
  <2>1. ExactlyOnce
    OBVIOUS
  <2> QED
    BY <2>1 DEF ExactlyOnce, Held
<1> QED
  BY <1>1, <1>2, <1>3, <1>4, <1>5, <1>6, <1>7

LEMMA InitIInv == Init => IInv
<1> SUFFICES ASSUME Init PROVE IInv
  OBVIOUS
<1>1. TypeOK
  BY InitType
<1>2. \A x \in Execs : Task(x) \in Tasks
  BY ExecParts
<1> QED
  BY <1>1, <1>2 DEF Init, IInv, Bookkeeping, Unstarted, Distinct, OneSlot,
                    Fence, Fresh, ExactlyOnce, Live

\* Reassigning the expired rows.
LEMMA ReapIInv ==
  ASSUME IInv, TypeOK', NEW r \in Replicas, ReapExpired(r)
  PROVE  IInv'
<1> USE DEF IInv, ReapExpired, execution, history
<1>0. \A x \in Execs : Task(x) \in Tasks
  BY ExecParts
<1>a. \A t \in Tasks :
        /\ attempt[t] \in Nat /\ starts[t] \in Nat /\ attempt'[t] \in Nat
        /\ attempt[t] <= attempt'[t]
        /\ \/ t \in Reapable /\ Held(t) /\ state'[t] = "ASSIGNED"
              /\ attempt'[t] = attempt[t] + 1
           \/ state'[t] = state[t] /\ owner'[t] = owner[t] /\ attempt'[t] = attempt[t]
  BY DEF TypeOK, Attempts, Reapable
<1>b. UNCHANGED <<pc, won, starts, effects>>
  OBVIOUS
<1>c. \A x \in Execs : won[x] \in Nat /\ x[3] \in Nat
  BY ExecParts, MaxAttemptsAssumption DEF TypeOK, Attempts
<1>1. Bookkeeping'
  BY <1>0, <1>a, <1>b, <1>c DEF Bookkeeping
<1>2. Unstarted'
  <2>1. Unstarted /\ Bookkeeping
    OBVIOUS
  <2> QED
    BY <2>1, <1>0, <1>a, <1>b, <1>c DEF Unstarted, Bookkeeping, Held
<1>3. Distinct' /\ OneSlot'
  BY <1>b DEF Distinct, OneSlot
<1>4. Fence'
  <2>1. \A x \in Execs : Owns(x)' => Owns(x) /\ attempt'[Task(x)] = attempt[Task(x)]
    BY <1>0, <1>a DEF Owns
  <2> QED
    BY <2>1, <1>b DEF Fence
<1>5. Fresh'
  <2>1. \A t \in Tasks : state[t] # "none" => state'[t] # "none"
    BY <1>a
  <2>2. \A x \in Execs : pc'[x] # "none" =>
          state'[Task(x)] # "none" /\ x[3] <= attempt'[Task(x)]
    BY <1>0, <1>a, <1>b, <1>c, <2>1 DEF Fresh
  <2>3. ASSUME NEW s \in Replicas, NEW q \in queue'[s]
        PROVE  /\ state'[q[1]] # "none" /\ q[2] <= attempt'[q[1]]
               /\ Class(q[1]) # "worker" => pc'[<<s, q[1], q[2]>>] = "none"
    <3>0. q \in Tasks \X Attempts
      BY <2>3 DEF TypeOK
    <3>1. CASE s # r
      <4>1. q \in queue[s]
        BY <2>3, <3>1 DEF TypeOK
      <4>2. q[1] \in Tasks /\ q[2] \in Nat
        BY <3>0 DEF Attempts
      <4> QED
        BY <4>1, <4>2, <1>a, <1>b, <2>1 DEF Fresh
    <3>2. CASE s = r
      <4>1. PICK t \in Reapable : q = <<t, attempt[t] + 1>>
        BY <2>3, <3>2 DEF TypeOK
      <4>2. t \in Tasks /\ state'[t] = "ASSIGNED" /\ attempt'[t] = attempt[t] + 1
        BY DEF Reapable
      <4>3. <<r, t, attempt[t] + 1>> \in Execs /\ Task(<<r, t, attempt[t] + 1>>) = t
        BY <3>0, <4>1 DEF Execs, Procs, Task
      <4>4. pc[<<r, t, attempt[t] + 1>>] = "none"
        BY <4>2, <4>3, <1>a DEF Fresh
      <4> QED
        BY <3>2, <4>1, <4>2, <4>4, <1>a, <1>b
    <3> QED
      BY <3>1, <3>2
  <2> QED
    BY <2>2, <2>3 DEF Fresh
<1>6. ExactlyOnce'
  BY <1>a, <1>b DEF ExactlyOnce, Held
<1> QED
  BY <1>1, <1>2, <1>3, <1>4, <1>5, <1>6

\* Inserting the task rows that are still absent.
LEMMA AssignIInv ==
  ASSUME IInv, TypeOK', NEW r \in Replicas, AssignInsert(r)
  PROVE  IInv'
<1> USE DEF IInv, AssignInsert, execution, history
<1>0. \A x \in Execs : Task(x) \in Tasks
  BY ExecParts
<1>a. \A t \in Tasks :
        /\ attempt'[t] = attempt[t] /\ attempt[t] \in Nat /\ starts[t] \in Nat
        /\ \/ state[t] = "none" /\ state'[t] = "ASSIGNED"
           \/ state'[t] = state[t] /\ owner'[t] = owner[t]
  BY DEF TypeOK, Attempts, Insertable, Unstarted
<1>b. UNCHANGED <<pc, won, starts, effects>>
  OBVIOUS
<1>1. Bookkeeping'
  BY <1>0, <1>a, <1>b DEF Bookkeeping
<1>2. Unstarted'
  BY <1>0, <1>a, <1>b DEF Unstarted
<1>3. Distinct' /\ OneSlot'
  BY <1>b DEF Distinct, OneSlot
<1>4. Fence'
  <2>1. \A x \in Execs : Owns(x)' => Owns(x)
    BY <1>0, <1>a DEF Owns
  <2> QED
    BY <2>1, <1>0, <1>a, <1>b DEF Fence
<1>5. Fresh'
  <2>1. \A t \in Tasks : state[t] # "none" => state'[t] # "none"
    BY <1>a
  <2>2. \A x \in Execs : pc'[x] # "none" =>
          state'[Task(x)] # "none" /\ x[3] <= attempt'[Task(x)]
    BY <1>0, <1>a, <1>b, <2>1 DEF Fresh
  <2>3. ASSUME NEW s \in Replicas, NEW q \in queue'[s]
        PROVE  /\ state'[q[1]] # "none" /\ q[2] <= attempt'[q[1]]
               /\ Class(q[1]) # "worker" => pc'[<<s, q[1], q[2]>>] = "none"
    <3>0. q[1] \in Tasks /\ q \in Tasks \X Attempts
      BY <2>3 DEF TypeOK
    <3>1. CASE s # r
      <4>1. q \in queue[s]
        BY <2>3, <3>1 DEF TypeOK
      <4> QED
        BY <3>0, <4>1, <1>a, <1>b, <2>1 DEF Fresh
    <3>2. CASE s = r
      <4>1. PICK t \in Insertable(r) : q = <<t, 1>>
        BY <2>3, <3>2 DEF TypeOK
      <4>2. t \in Tasks /\ state[t] = "none" /\ state'[t] = "ASSIGNED"
        BY DEF Insertable, TypeOK
      <4>3. <<r, t, 1>> \in Execs /\ Task(<<r, t, 1>>) = t
        BY <3>0, <4>1 DEF Execs, Procs, Task
      <4>4. pc[<<r, t, 1>>] = "none"
        BY <4>2, <4>3 DEF Fresh
      <4> QED
        BY <3>2, <4>1, <4>2, <4>4, <1>a, <1>b DEF Unstarted
    <3> QED
      BY <3>1, <3>2
  <2> QED
    BY <2>2, <2>3 DEF Fresh
<1>6. ExactlyOnce'
  BY <1>a, <1>b DEF ExactlyOnce
<1> QED
  BY <1>1, <1>2, <1>3, <1>4, <1>5, <1>6

\* A new execution begins: what Provision and Discover have in common.
LEMMA ClaimIInv ==
  ASSUME IInv, TypeOK', NEW x \in Execs,
         pc[x] = "none", state[Task(x)] # "none", x[3] <= attempt[Task(x)],
         pc' = [pc EXCEPT ![x] = "claim"],
         UNCHANGED <<state, owner, attempt, won, starts, effects>>,
         Class(Task(x)) = "worker" =>
           \A y \in Execs : Task(y) = Task(x) /\ Proc(y) = Proc(x) => pc[y] = "none",
         \A r \in Replicas : queue'[r] \subseteq queue[r],
         \A r \in Replicas : \A q \in queue'[r] :
           Class(q[1]) # "worker" => <<r, q[1], q[2]>> # x
  PROVE  IInv'
<1> USE DEF IInv
<1>0. \A y \in Execs : pc'[y] = IF y = x THEN "claim" ELSE pc[y]
  BY DEF TypeOK
<1>1. Bookkeeping'
  BY <1>0 DEF Bookkeeping, Live
<1>2. Unstarted' /\ Distinct' /\ ExactlyOnce'
  BY DEF Unstarted, Distinct, ExactlyOnce
<1>3. OneSlot'
  BY <1>0 DEF OneSlot
<1>4. Fence'
  <2>1. \A y \in Execs : (Owns(y)' <=> Owns(y)) /\ (pc'[y] \in Live => pc[y] \in Live)
    BY <1>0 DEF Owns, Live
  <2> QED
    BY <2>1 DEF Fence
<1>5. Fresh'
  <2>1. \A r \in Replicas : \A q \in queue[r] : <<r, q[1], q[2]>> \in Execs
    BY DEF TypeOK, Execs, Procs
  <2> QED
    BY <1>0, <2>1 DEF Fresh
<1> QED
  BY <1>1, <1>2, <1>3, <1>4, <1>5

LEMMA ProvisionIInv ==
  ASSUME IInv, TypeOK', NEW r \in Replicas, Provision(r)
  PROVE  IInv'
<1> USE DEF tables, history
<1>1. PICK q \in queue[r] :
        /\ queue' = [queue EXCEPT ![r] = @ \ {q}]
        /\ pc' = IF Class(q[1]) = "worker" THEN pc
                 ELSE [pc EXCEPT ![<<r, q[1], q[2]>>] = "claim"]
  BY DEF Provision
<1>2. UNCHANGED <<state, owner, attempt, won, starts, effects>>
  BY DEF Provision
<1>3. \A s \in Replicas : queue'[s] \subseteq queue[s]
  BY <1>1 DEF IInv, TypeOK
<1>4. CASE Class(q[1]) = "worker"
  BY <1>1, <1>2, <1>3, <1>4, RetreatStep
<1>5. CASE Class(q[1]) # "worker"
  <2> DEFINE x == <<r, q[1], q[2]>>
  <2>1. q \in Tasks \X Attempts
    BY <1>1 DEF IInv, TypeOK
  <2>2. x \in Execs /\ Task(x) = q[1] /\ x[3] = q[2]
    BY <2>1 DEF Execs, Procs, Task
  <2>3. pc[x] = "none" /\ state[Task(x)] # "none" /\ x[3] <= attempt[Task(x)]
    BY <1>1, <1>5, <2>2 DEF IInv, Fresh
  <2>4. pc' = [pc EXCEPT ![x] = "claim"]
    BY <1>1, <1>5
  <2>5. \A s \in Replicas : \A p \in queue'[s] : <<s, p[1], p[2]>> # x
    <3> SUFFICES ASSUME NEW s \in Replicas, NEW p \in queue'[s], <<s, p[1], p[2]>> = x
                 PROVE  FALSE
      OBVIOUS
    <3>1. s = r /\ p[1] = q[1] /\ p[2] = q[2]
      OBVIOUS
    <3>2. p \in Tasks \X Attempts
      BY DEF TypeOK
    <3>3. p = q
      BY <2>1, <3>1, <3>2
    <3> QED
      BY <1>1, <3>1, <3>3 DEF IInv, TypeOK
  <2> HIDE DEF x
  <2> QED
    BY <1>2, <1>3, <1>5, <2>2, <2>3, <2>4, <2>5, ClaimIInv
<1> QED
  BY <1>4, <1>5

LEMMA DiscoverIInv ==
  ASSUME IInv, TypeOK', NEW p \in Workers, NEW t \in Tasks, Discover(p, t)
  PROVE  IInv'
<1> DEFINE x == <<p, t, attempt[t]>>
<1>1. attempt[t] \in Attempts
  BY DEF IInv, TypeOK
<1>2. x \in Execs /\ Task(x) = t /\ Proc(x) = p /\ x[3] = attempt[t]
  BY <1>1 DEF Execs, Procs, Task, Proc
<1>3. \A y \in Execs : Task(y) = t /\ Proc(y) = p => pc[y] = "none"
  <2> SUFFICES ASSUME NEW y \in Execs, Task(y) = t, Proc(y) = p
               PROVE  pc[y] = "none"
    OBVIOUS
  <2>1. y = <<p, t, y[3]>> /\ y[3] \in Attempts
    BY ExecParts
  <2> QED
    BY <2>1 DEF Discover, Inflight
<1>4. pc[x] = "none" /\ state[t] # "none" /\ x[3] <= attempt[Task(x)]
  BY <1>1, <1>2, <1>3 DEF Discover, Attempts
<1>5. /\ pc' = [pc EXCEPT ![x] = "claim"]
      /\ UNCHANGED <<state, owner, attempt, won, starts, effects, queue>>
      /\ Class(t) = "worker"
  BY DEF Discover, tables, orchestrator, history
<1>6. \A r \in Replicas : \A q \in queue'[r] :
        Class(q[1]) # "worker" => <<r, q[1], q[2]>> # x
  BY <1>5
<1> HIDE DEF x
<1> QED
  BY <1>2, <1>3, <1>4, <1>5, <1>6, ClaimIInv

\* An execution wins its task, or finds it gone and exits.
LEMMA StartIInv ==
  ASSUME IInv, TypeOK', NEW x \in Execs, StartTask(x)
  PROVE  IInv'
<1> DEFINE t == Task(x)
<1>0. t \in Tasks /\ \A y \in Execs : Task(y) \in Tasks
  BY ExecParts
<1>1. CASE ~Startable(t)
  <2>1. UNCHANGED <<state, owner, attempt, starts, effects, queue>>
    BY <1>1 DEF StartTask, orchestrator
  <2>2. \A y \in Execs : \/ pc'[y] = pc[y] /\ won'[y] = won[y]
                         \/ pc'[y] = "none" /\ won'[y] = 0
    BY <1>1 DEF StartTask, Exit, IInv, TypeOK
  <2> QED
    BY <2>1, <2>2, RetreatStep
<1>2. CASE Startable(t)
  <2> USE DEF IInv
  <2>1. /\ pc[x] = "claim" /\ state[t] = "ASSIGNED"
        /\ UNCHANGED <<attempt, effects, queue>>
    BY <1>2 DEF StartTask, Startable, orchestrator
  <2>2. \A y \in Execs :
          /\ pc'[y] = IF y = x THEN (IF Runnable(t) THEN "work" ELSE "fail") ELSE pc[y]
          /\ won'[y] = IF y = x THEN attempt[t] ELSE won[y]
    BY <1>2 DEF StartTask, TypeOK
  <2>3. \A u \in Tasks :
          /\ state'[u] = IF u = t THEN "RUNNING" ELSE state[u]
          /\ owner'[u] = IF u = t THEN OwnerOf(x) ELSE owner[u]
          /\ starts'[u] = IF u = t THEN starts[u] + 1 ELSE starts[u]
    BY <1>2 DEF StartTask, TypeOK
  <2>4. \A u \in Tasks : attempt[u] \in Nat /\ attempt[u] >= 1 /\ starts[u] \in Nat
    BY DEF TypeOK, Attempts
  <2>5. \A y \in Execs : Task(y) = t => won[y] < attempt[t]
    BY <1>0, <2>1 DEF Unstarted
  <2> HIDE DEF t
  <2>6. Bookkeeping'
    BY <1>0, <2>1, <2>2, <2>4 DEF Bookkeeping, Live, t
  <2>7. Unstarted'
    <3>1. Unstarted
      OBVIOUS
    <3>2. starts[t] < attempt[t]
      BY <1>0, <2>1, <3>1 DEF Unstarted
    <3> QED
      BY <1>0, <2>1, <2>2, <2>3, <2>4, <3>1, <3>2 DEF Unstarted, t
  <2>8. Distinct'
    <3>1. \A y \in Execs : won[y] \in Nat
      BY MaxAttemptsAssumption DEF TypeOK
    <3> QED
      BY <1>0, <2>2, <2>4, <2>5, <3>1 DEF Distinct, t
  <2>9. OneSlot'
    BY <2>1, <2>2 DEF OneSlot
  <2>10. Fence'
    <3> SUFFICES ASSUME NEW y \in Execs, pc'[y] \in Live,
                        Class(Task(y)) # "unclear", Owns(y)'
                 PROVE  won'[y] = attempt'[Task(y)]
      BY DEF Fence
    <3>1. CASE y = x
      BY <2>1, <2>2, <3>1 DEF t
    <3>2. CASE Task(y) # t
      <4>1. Owns(y) /\ pc[y] \in Live /\ won'[y] = won[y]
        BY <1>0, <2>2, <2>3, <3>2 DEF Owns, t
      <4> QED
        BY <2>1, <4>1 DEF Fence
    <3>3. CASE y # x /\ Task(y) = t
      <4>1. OwnerOf(y) = OwnerOf(x) /\ pc[y] # "none" /\ pc[x] # "none"
        BY <1>0, <2>1, <2>2, <2>3, <3>3 DEF Owns, Live
      <4>2. Class(t) \in {"worker", "inline"}
        BY <1>0, <3>3, TaskParts
      <4>3. CASE Class(t) = "worker"
        <5>1. Proc(x) = Proc(y)
          BY <3>3, <4>1, <4>3 DEF OwnerOf, t
        <5> QED
          BY <3>3, <4>1, <4>3, <5>1 DEF OneSlot, t
      <4>4. CASE Class(t) = "inline"
        BY <3>3, <4>1, <4>4 DEF OwnerOf, t
      <4> QED
        BY <4>2, <4>3, <4>4
    <3> QED
      BY <3>1, <3>2, <3>3
  <2>11. Fresh'
    <3>1. \A r \in Replicas : \A q \in queue[r] :
            q[1] \in Tasks /\ <<r, q[1], q[2]>> \in Execs
      BY DEF TypeOK, Execs, Procs
    <3>2. \A y \in Execs : pc'[y] # "none" <=> pc[y] # "none"
      BY <2>1, <2>2
    <3> QED
      BY <1>0, <2>1, <2>3, <3>1, <3>2 DEF Fresh
  <2>12. ExactlyOnce'
    BY <1>0, <2>1, <2>3 DEF ExactlyOnce
  <2> QED
    BY <2>6, <2>7, <2>8, <2>9, <2>10, <2>11, <2>12
<1> QED
  BY <1>1, <1>2

\* An execution that ends without a terminal write, or with a FAILED one.
LEMMA ExitIInv ==
  ASSUME IInv, TypeOK', NEW x \in Execs, Exit(x),
         UNCHANGED <<owner, attempt, starts, effects, queue>>,
         \/ UNCHANGED state
         \/ Owns(x) /\ state' = [state EXCEPT ![Task(x)] = "FAILED"]
  PROVE  IInv'
<1>1. \A y \in Execs : \/ pc'[y] = pc[y] /\ won'[y] = won[y]
                       \/ pc'[y] = "none" /\ won'[y] = 0
  BY DEF Exit, IInv, TypeOK
<1>2. \A t \in Tasks : state'[t] = state[t] \/ (Held(t) /\ state'[t] = "FAILED")
  BY ExecParts DEF Owns, Held, IInv, TypeOK
<1> QED
  BY <1>1, <1>2, RetreatStep

\* The completing transaction.
LEMMA CompleteIInv ==
  ASSUME IInv, TypeOK', NEW x \in Execs, CompleteTask(x)
  PROVE  IInv'
<1> DEFINE t == Task(x)
<1>0. t \in Tasks /\ \A y \in Execs : Task(y) \in Tasks
  BY ExecParts
<1>a. Exit(x) /\ UNCHANGED <<owner, attempt, starts, queue>> /\ pc[x] = "complete"
  BY DEF CompleteTask, orchestrator
<1>1. CASE ~Owns(x)
  <2>1. UNCHANGED <<state, effects>>
    BY <1>1 DEF CompleteTask
  <2> QED
    BY <1>a, <2>1, ExitIInv
<1>2. CASE Owns(x)
  <2> USE DEF IInv
  <2>1. \A y \in Execs :
          /\ pc'[y] = IF y = x THEN "none" ELSE pc[y]
          /\ won'[y] = IF y = x THEN 0 ELSE won[y]
    BY <1>a DEF Exit, TypeOK
  <2>2. \A u \in Tasks :
          /\ state'[u] = IF u = t THEN "FINISHED" ELSE state[u]
          /\ effects'[u] = IF u = t THEN Append(effects[u], won[x]) ELSE effects[u]
    BY <1>2 DEF CompleteTask, TypeOK
  <2>3. won[x] = attempt[t]
    <3>1. Class(t) # "unclear"
      BY <1>0, <1>a, ImplementedAssumption DEF Bookkeeping, Runnable, Class
    <3> QED
      BY <1>2, <1>a, <3>1 DEF Fence, Live
  <2>4. effects[t] = <<>> /\ state[t] = "RUNNING"
    BY <1>0, <1>2 DEF ExactlyOnce, Owns
  <2>5. \A u \in Tasks : attempt[u] \in Nat /\ attempt[u] >= 1
    BY DEF TypeOK, Attempts
  <2>6. \A r \in Replicas : \A q \in queue[r] :
          q[1] \in Tasks /\ <<r, q[1], q[2]>> \in Execs
    BY DEF TypeOK, Execs, Procs
  <2> HIDE DEF t
  <2>7. Bookkeeping'
    BY <1>0, <1>a, <2>1, <2>5 DEF Bookkeeping, Live
  <2>8. Unstarted'
    BY <1>0, <1>a, <2>1, <2>2, <2>4, <2>5 DEF Unstarted
  <2>9. Distinct' /\ OneSlot'
    BY <2>1 DEF Distinct, OneSlot
  <2>10. Fence'
    <3>1. \A y \in Execs : Owns(y)' => Owns(y)
      BY <1>0, <1>a, <2>2 DEF Owns
    <3> QED
      BY <1>a, <2>1, <3>1 DEF Fence, Live
  <2>11. Fresh'
    BY <1>0, <1>a, <2>1, <2>2, <2>6 DEF Fresh
  <2>12. ExactlyOnce'
    <3>1. Append(<<>>, attempt[t]) = <<attempt[t]>>
      OBVIOUS
    <3>2. effects'[t] = <<attempt'[t]>> /\ state'[t] = "FINISHED"
      BY <1>0, <1>a, <2>2, <2>3, <2>4, <3>1
    <3>3. \A u \in Tasks : u # t =>
            effects'[u] = effects[u] /\ state'[u] = state[u] /\ attempt'[u] = attempt[u]
      BY <1>a, <2>2
    <3> QED
      BY <3>2, <3>3 DEF ExactlyOnce
  <2> QED
    BY <2>7, <2>8, <2>9, <2>10, <2>11, <2>12
<1> QED
  BY <1>1, <1>2

LEMMA BodyIInv ==
  ASSUME IInv, TypeOK', NEW x \in Execs, BodyReturns(x)
  PROVE  IInv'
<1> USE DEF tables, orchestrator, history
<1>1. CASE cancelled[x]
  <2>1. Exit(x) /\ UNCHANGED <<state, owner, attempt, starts, effects, queue>>
    BY <1>1 DEF BodyReturns
  <2> QED
    BY <2>1, ExitIInv
<1>2. CASE ~cancelled[x]
  <2> USE DEF IInv
  <2>1. PICK next \in {"complete", "fail"} : pc' = [pc EXCEPT ![x] = next]
    BY <1>2 DEF BodyReturns
  <2>2. UNCHANGED <<state, owner, attempt, starts, effects, queue, won>> /\ pc[x] = "work"
    BY <1>2 DEF BodyReturns
  <2>3. \A y \in Execs : pc'[y] = IF y = x THEN next ELSE pc[y]
    BY <2>1 DEF TypeOK
  <2>4. \A y \in Execs : /\ pc'[y] \in Live <=> pc[y] \in Live
                         /\ pc'[y] = "none" <=> pc[y] = "none"
    BY <2>2, <2>3 DEF Live
  <2>5. Bookkeeping'
    BY <2>2, <2>3, <2>4 DEF Bookkeeping
  <2>6. Unstarted' /\ Distinct' /\ ExactlyOnce'
    BY <2>2 DEF Unstarted, Distinct, ExactlyOnce
  <2>7. OneSlot'
    BY <2>4 DEF OneSlot
  <2>8. Fence'
    BY <2>2, <2>4 DEF Fence, Owns
  <2>9. Fresh'
    <3>1. \A r \in Replicas : \A q \in queue[r] : <<r, q[1], q[2]>> \in Execs
      BY DEF TypeOK, Execs, Procs
    <3> QED
      BY <2>2, <2>4, <3>1 DEF Fresh
  <2> QED
    BY <2>5, <2>6, <2>7, <2>8, <2>9
<1> QED
  BY <1>1, <1>2

\* Steps that leave tasks and executions alone.
LEMMA QuietStep ==
  ASSUME IInv, TypeOK',
         UNCHANGED <<state, owner, attempt, pc, won, starts, effects, queue>>
  PROVE  IInv'
BY RetreatStep

LEMMA StepIInv ==
  ASSUME IInv, TypeOK', NEW r \in Replicas, Step(r)
  PROVE  IInv'
<1> USE DEF tables, execution, history
<1>1. CASE ReapExpired(r)
  BY <1>1, ReapIInv
<1>2. CASE FailExhausted(r)
  <2>1. \A t \in Tasks : state'[t] = state[t] \/ (Held(t) /\ state'[t] = "FAILED")
    BY <1>2 DEF FailExhausted, Exhausted
  <2>2. UNCHANGED <<owner, attempt, starts, effects, pc, won, queue>>
    BY <1>2 DEF FailExhausted
  <2> QED
    BY <2>1, <2>2, RetreatStep
<1>3. CASE Provision(r)
  BY <1>3, ProvisionIInv
<1>4. CASE ProvisionDone(r)
  BY <1>4, QuietStep DEF ProvisionDone
<1>5. CASE AdvanceScan(r)
  BY <1>5, QuietStep DEF AdvanceScan
<1>6. CASE AdvanceApply(r)
  BY <1>6, QuietStep DEF AdvanceApply
<1>7. CASE FailWorkflows(r)
  BY <1>7, QuietStep DEF FailWorkflows
<1>8. CASE AssignScan(r)
  BY <1>8, QuietStep DEF AssignScan
<1>9. CASE AssignInsert(r)
  BY <1>9, AssignIInv
<1> QED
  BY <1>1, <1>2, <1>3, <1>4, <1>5, <1>6, <1>7, <1>8, <1>9 DEF Step

LEMMA ExecuteIInv ==
  ASSUME IInv, TypeOK', NEW x \in Execs, Execute(x) \/ RenewLease(x)
  PROVE  IInv'
<1> USE DEF orchestrator, history
<1>1. CASE StartTask(x)
  BY <1>1, StartIInv
<1>2. CASE BodyReturns(x)
  BY <1>2, BodyIInv
<1>3. CASE CompleteTask(x)
  BY <1>3, CompleteIInv
<1>4. CASE FailTask(x)
  BY <1>4, ExitIInv DEF FailTask
<1>5. CASE RenewLease(x)
  BY <1>5, QuietStep DEF RenewLease
<1> QED
  BY <1>1, <1>2, <1>3, <1>4, <1>5 DEF Execute

LEMMA OtherIInv ==
  ASSUME IInv, TypeOK',
         \/ \E w \in Workflows : CreateWorkflow(w)
         \/ \E t \in Tasks : Expire(t)
         \/ \E p \in Workers, t \in Tasks : Discover(p, t)
         \/ \E p \in Procs : Crash(p)
         \/ \E r \in Replicas : StepError(r)
         \/ \E x \in Execs : ExecError(x)
         \/ UNCHANGED vars
  PROVE  IInv'
<1> USE DEF tables, orchestrator, execution, history
<1>1. CASE \E w \in Workflows : CreateWorkflow(w)
  BY <1>1, QuietStep DEF CreateWorkflow
<1>2. CASE \E t \in Tasks : Expire(t)
  BY <1>2, QuietStep DEF Expire
<1>3. CASE \E p \in Workers, t \in Tasks : Discover(p, t)
  BY <1>3, DiscoverIInv
<1>4. CASE \E p \in Procs : Crash(p)
  <2>1. PICK p \in Procs : Crash(p)
    BY <1>4
  <2>2. UNCHANGED <<state, owner, attempt, starts, effects>>
    BY <2>1 DEF Crash
  <2>3. \A x \in Execs : \/ pc'[x] = pc[x] /\ won'[x] = won[x]
                         \/ pc'[x] = "none" /\ won'[x] = 0
    BY <2>1 DEF Crash
  <2>4. \A r \in Replicas : queue'[r] \subseteq queue[r]
    BY <2>1 DEF Crash
  <2> QED
    BY <2>2, <2>3, <2>4, RetreatStep
<1>5. CASE \E r \in Replicas : StepError(r)
  <2>1. PICK r \in Replicas : StepError(r)
    BY <1>5
  <2>2. \A s \in Replicas : queue'[s] \subseteq queue[s]
    BY <2>1 DEF StepError, IInv, TypeOK
  <2>3. UNCHANGED <<state, owner, attempt, starts, effects, pc, won>>
    BY <2>1 DEF StepError
  <2> QED
    BY <2>2, <2>3, RetreatStep
<1>6. CASE \E x \in Execs : ExecError(x)
  <2>1. PICK x \in Execs : ExecError(x)
    BY <1>6
  <2>2. UNCHANGED <<state, owner, attempt, starts, effects, queue>>
    BY <2>1 DEF ExecError
  <2>3. Exit(x) \/ UNCHANGED <<pc, won>>
    BY <2>1 DEF ExecError
  <2> QED
    BY <2>2, <2>3, ExitIInv, QuietStep
<1>7. CASE UNCHANGED vars
  BY <1>7, QuietStep DEF vars
<1> QED
  BY <1>1, <1>2, <1>3, <1>4, <1>5, <1>6, <1>7

\* The lease protocol's invariant is inductive.
THEOREM LeaseInvariant == Spec => []IInv
<1>1. Init => IInv
  BY InitIInv
<1>2. IInv /\ TypeOK' /\ [Next]_vars => IInv'
  <2> SUFFICES ASSUME IInv, TypeOK', [Next]_vars PROVE IInv'
    OBVIOUS
  <2> QED
    BY StepIInv, ExecuteIInv, OtherIInv DEF Next
<1> QED
  BY <1>1, <1>2, TypeCorrect, PTL DEF Spec

\* Of any number of executions that try to run a task, in any number of
\* processes, one wins each attempt.
THEOREM OneWinner == Spec => []OneWinnerPerAttempt
<1>1. IInv => OneWinnerPerAttempt
  <2> SUFFICES ASSUME IInv PROVE OneWinnerPerAttempt
    OBVIOUS
  <2>1. \A t \in Tasks : starts[t] <= attempt[t]
    BY DEF IInv, Unstarted
  <2>2. \A x, y \in Execs : x # y /\ Task(x) = Task(y) /\ pc[x] \in Live => won[x] # won[y]
    BY DEF IInv, Distinct, Bookkeeping
  <2> QED
    BY <2>1, <2>2 DEF OneWinnerPerAttempt
<1> QED
  BY <1>1, LeaseInvariant, PTL

\* The mutation of a task is committed once, with its FINISHED state, and by
\* the winner of its last attempt.
THEOREM CommitsExactlyOnce == Spec => []ExactlyOnce
<1>1. IInv => ExactlyOnce
  BY DEF IInv
<1> QED
  BY <1>1, LeaseInvariant, PTL
=============================================================================

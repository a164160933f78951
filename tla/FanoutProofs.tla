---------------------------- MODULE FanoutProofs ----------------------------
(***************************************************************************)
(* Proofs about Fanout, for any number of tasks and workers, any costs,    *)
(* capacity and number of slots.                                           *)
(***************************************************************************)
EXTENDS Fanout, WorkflowProofs, FiniteSetTheorems

-----------------------------------------------------------------------------
(* The load of a finite set of tasks.  Load is a fold, that is, a function *)
(* chosen to satisfy a recursive equation over the subsets of its argument *)
(* which takes out the elements in an order CHOOSE gives.  That there is   *)
(* such a function, and that the order does not matter, is proved by       *)
(* looking at a smallest set for which it fails.                           *)

First(S) == CHOOSE t \in S : TRUE

Body(g, S, d) ==
  [s \in SUBSET S |-> IF s = {} THEN 0
                      ELSE Cost(First(s))[d] + g[s \ {First(s)}]]

Fold(S, d) == CHOOSE g : g = Body(g, S, d)

LEMMA LoadIsFold ==
  ASSUME NEW S, NEW d
  PROVE  Load(S, d) = Fold(S, d)[S]
BY DEF Load, Fold, Body, First, MapThenSumSet, MapThenFoldSet

\* A nonempty set of finite sets has a member with no other one inside.
LEMMA SmallestSet ==
  ASSUME NEW S, NEW C, C \subseteq FiniteSubsetsOf(S), C # {}
  PROVE  \E T \in C : \A U \in C : U \subseteq T => U = T
<1>1. PICK T \in C : \A U \in C : <<U, T>> \notin StrictSubsetOrdering(S)
  BY FS_StrictSubsetOrderingWellFounded, WFMin
<1> QED
  BY <1>1 DEF StrictSubsetOrdering, FiniteSubsetsOf

\* Two folds agree wherever both are defined.
LEMMA FoldsAgree ==
  ASSUME NEW S, NEW T, NEW d, NEW g, NEW h,
         g = Body(g, S, d), h = Body(h, T, d)
  PROVE  \A U \in FiniteSubsetsOf(S \cap T) : g[U] = h[U]
<1> DEFINE Bad == {U \in FiniteSubsetsOf(S \cap T) : g[U] # h[U]}
<1> SUFFICES ASSUME Bad # {} PROVE FALSE
  OBVIOUS
<1>0. Bad \subseteq FiniteSubsetsOf(S \cap T)
  OBVIOUS
<1>1. PICK U \in Bad : \A V \in Bad : V \subseteq U => V = U
  <2> HIDE DEF Bad
  <2> QED
    BY <1>0, SmallestSet
<1>2. U \in SUBSET S /\ U \in SUBSET T /\ IsFiniteSet(U) /\ g[U] # h[U]
  BY DEF FiniteSubsetsOf
<1>3. U # {}
  BY <1>2 DEF Body
<1>4. First(U) \in U
  BY <1>3 DEF First
<1> DEFINE V == U \ {First(U)}
<1>5. V \subseteq U /\ V # U /\ V \in FiniteSubsetsOf(S \cap T)
  BY <1>2, <1>4, FS_Subset DEF FiniteSubsetsOf
<1>6. g[V] = h[V]
  BY <1>1, <1>5
<1>7. g[U] = Cost(First(U))[d] + g[V] /\ h[U] = Cost(First(U))[d] + h[V]
  BY <1>2, <1>3 DEF Body
<1> QED
  BY <1>2, <1>6, <1>7

\* The equation of the fold of a finite set has a solution.
LEMMA FoldExists ==
  ASSUME NEW S, IsFiniteSet(S), NEW d
  PROVE  Fold(S, d) = Body(Fold(S, d), S, d)
<1> DEFINE Solved(T) == \E g : g = Body(g, T, d)
<1>0. \A T : Solved(T) => Fold(T, d) = Body(Fold(T, d), T, d)
  BY DEF Fold
<1> DEFINE Bad == {T \in FiniteSubsetsOf(S) : ~Solved(T)}
<1>1. ASSUME Bad # {} PROVE FALSE
  <2>0. Bad \subseteq FiniteSubsetsOf(S)
    OBVIOUS
  <2>1. PICK T \in Bad : \A V \in Bad : V \subseteq T => V = T
    <3> HIDE DEF Bad
    <3> QED
      BY <1>1, <2>0, SmallestSet
  <2>2. T \in SUBSET S /\ IsFiniteSet(T) /\ ~Solved(T)
    BY DEF FiniteSubsetsOf
  <2>3. \A V : V \subseteq T /\ V # T => IsFiniteSet(V) /\ Solved(V)
    BY <2>1, <2>2, FS_Subset DEF FiniteSubsetsOf
  <2> HIDE DEF Solved, Bad
  <2> DEFINE g == [s \in SUBSET T |->
                     IF s = {} THEN 0
                     ELSE Cost(First(s))[d] + Fold(s \ {First(s)}, d)[s \ {First(s)}]]
  <2>4. ASSUME NEW s \in SUBSET T, s # {}
        PROVE  Fold(s \ {First(s)}, d)[s \ {First(s)}] = g[s \ {First(s)}]
    <3> DEFINE r == s \ {First(s)}
    <3>1. First(s) \in s
      BY <2>4 DEF First
    <3>2. r \subseteq T /\ r # T
      BY <3>1
    <3>3. IsFiniteSet(r) /\ Fold(r, d) = Body(Fold(r, d), r, d)
      BY <1>0, <2>3, <3>2
    <3>4. CASE r = {}
      BY <3>2, <3>3, <3>4 DEF Body
    <3>5. CASE r # {}
      <4> DEFINE q == r \ {First(r)}
      <4>1. First(r) \in r
        BY <3>5 DEF First
      <4>2. q \subseteq r /\ q \subseteq T /\ q # T
        BY <3>2, <4>1
      <4>3. IsFiniteSet(q) /\ Fold(q, d) = Body(Fold(q, d), q, d)
        BY <1>0, <2>3, <4>2
      <4>4. Fold(r, d)[q] = Fold(q, d)[q]
        BY <3>3, <4>2, <4>3, FoldsAgree DEF FiniteSubsetsOf
      <4>5. Fold(r, d)[r] = Cost(First(r))[d] + Fold(r, d)[q]
        BY <3>3, <3>5 DEF Body
      <4>6. g[r] = Cost(First(r))[d] + Fold(q, d)[q]
        BY <3>2, <3>5
      <4> QED
        BY <4>4, <4>5, <4>6
    <3> QED
      BY <3>4, <3>5
  <2>5. g = Body(g, T, d)
    BY <2>4 DEF Body
  <2>6. Solved(T)
    BY <2>5 DEF Solved
  <2> QED
    BY <2>2, <2>6
<1>2. S \in FiniteSubsetsOf(S)
  BY DEF FiniteSubsetsOf
<1> QED
  BY <1>0, <1>1, <1>2

\* What Load computes, in the order CHOOSE gives.
LEMMA LoadFirst ==
  ASSUME NEW S, IsFiniteSet(S), NEW d
  PROVE  /\ S = {} => Load(S, d) = 0
         /\ S # {} => Load(S, d) = Cost(First(S))[d] + Load(S \ {First(S)}, d)
<1>1. Fold(S, d) = Body(Fold(S, d), S, d) /\ S \in SUBSET S
  BY FoldExists
<1>2. CASE S = {}
  BY <1>1, <1>2, LoadIsFold DEF Body
<1>3. CASE S # {}
  <2> DEFINE T == S \ {First(S)}
  <2>1. First(S) \in S
    BY <1>3 DEF First
  <2>2. T \subseteq S /\ IsFiniteSet(T)
    BY FS_Subset
  <2>3. Fold(T, d) = Body(Fold(T, d), T, d)
    BY <2>2, FoldExists
  <2>4. Fold(S, d)[T] = Fold(T, d)[T]
    BY <1>1, <2>2, <2>3, FoldsAgree DEF FiniteSubsetsOf
  <2>5. Fold(S, d)[S] = Cost(First(S))[d] + Fold(S, d)[T]
    BY <1>1, <1>3 DEF Body
  <2> QED
    BY <1>3, <2>4, <2>5, LoadIsFold
<1> QED
  BY <1>2, <1>3

LEMMA CostType ==
  ASSUME NEW t \in Tasks, NEW d \in Dims
  PROVE  Cost(t)[d] \in Nat
BY SpecAssumption DEF Cost, Specs

\* A load is a number, and costs can be taken out of it in any order.
LEMMA LoadType ==
  ASSUME NEW S \in SUBSET Tasks, IsFiniteSet(S), NEW d \in Dims
  PROVE  Load(S, d) \in Nat
<1> DEFINE Bad == {T \in FiniteSubsetsOf(S) : Load(T, d) \notin Nat}
<1>1. ASSUME Bad # {} PROVE FALSE
  <2>0. Bad \subseteq FiniteSubsetsOf(S)
    OBVIOUS
  <2>1. PICK T \in Bad : \A V \in Bad : V \subseteq T => V = T
    <3> HIDE DEF Bad
    <3> QED
      BY <1>1, <2>0, SmallestSet
  <2>2. T \in SUBSET S /\ IsFiniteSet(T) /\ Load(T, d) \notin Nat
    BY DEF FiniteSubsetsOf
  <2>3. T # {}
    BY <2>2, LoadFirst
  <2>4. First(T) \in T
    BY <2>3 DEF First
  <2>5. T \ {First(T)} \in FiniteSubsetsOf(S)
    BY <2>2, FS_Subset DEF FiniteSubsetsOf
  <2>6. Load(T \ {First(T)}, d) \in Nat
    BY <2>1, <2>4, <2>5
  <2> QED
    <3>1. Load(T, d) = Cost(First(T))[d] + Load(T \ {First(T)}, d)
      BY <2>2, <2>3, LoadFirst
    <3>2. Cost(First(T))[d] \in Nat
      BY <2>2, <2>4, CostType
    <3> QED
      BY <2>2, <2>6, <3>1, <3>2
<1> QED
  BY <1>1 DEF FiniteSubsetsOf

LEMMA LoadRemove ==
  ASSUME NEW S \in SUBSET Tasks, IsFiniteSet(S), NEW d \in Dims, NEW t \in S
  PROVE  Load(S, d) = Cost(t)[d] + Load(S \ {t}, d)
<1> DEFINE Removable(T) == \A u \in T : Load(T, d) = Cost(u)[d] + Load(T \ {u}, d)
           Bad == {T \in FiniteSubsetsOf(S) : ~Removable(T)}
<1>1. ASSUME Bad # {} PROVE FALSE
  <2>0. Bad \subseteq FiniteSubsetsOf(S)
    OBVIOUS
  <2>1. PICK T \in Bad : \A V \in Bad : V \subseteq T => V = T
    <3> HIDE DEF Bad
    <3> QED
      BY <1>1, <2>0, SmallestSet
  <2>2. T \in SUBSET S /\ IsFiniteSet(T) /\ ~Removable(T)
    BY DEF FiniteSubsetsOf
  <2>3. PICK u \in T : Load(T, d) # Cost(u)[d] + Load(T \ {u}, d)
    BY <2>2
  <2> DEFINE f == First(T)
  <2>4. f \in T
    BY <2>3 DEF First
  <2>5. Load(T, d) = Cost(f)[d] + Load(T \ {f}, d)
    BY <2>2, <2>3, LoadFirst
  <2>6. f # u
    BY <2>3, <2>5
  <2>7. \A v \in T : /\ T \ {v} \in FiniteSubsetsOf(S)
                     /\ T \ {v} \in SUBSET T /\ T \ {v} # T
    BY <2>2, FS_Subset DEF FiniteSubsetsOf
  <2>8. Removable(T \ {f}) /\ Removable(T \ {u})
    BY <2>1, <2>4, <2>7
  <2> DEFINE r == (T \ {f}) \ {u}
  <2>9. r = (T \ {u}) \ {f} /\ r \in SUBSET T
    OBVIOUS
  <2>10. Load(T \ {f}, d) = Cost(u)[d] + Load(r, d)
    BY <2>6, <2>8
  <2>11. Load(T \ {u}, d) = Cost(f)[d] + Load(r, d)
    BY <2>4, <2>6, <2>8, <2>9
  <2>12. Load(r, d) \in Nat /\ Cost(u)[d] \in Nat /\ Cost(f)[d] \in Nat
    <3>1. r \in SUBSET Tasks /\ IsFiniteSet(r)
      BY <2>2, <2>9, FS_Subset
    <3> QED
      BY <2>2, <2>4, <3>1, LoadType, CostType
  <2> QED
    BY <2>3, <2>5, <2>10, <2>11, <2>12
<1> QED
  BY <1>1 DEF FiniteSubsetsOf

\* A part of the tasks costs no more than all of them.
LEMMA LoadMonotonic ==
  ASSUME NEW S \in SUBSET Tasks, IsFiniteSet(S), NEW d \in Dims, NEW R \in SUBSET S
  PROVE  Load(R, d) <= Load(S, d)
<1> DEFINE Bad == {T \in FiniteSubsetsOf(S) : R \subseteq T /\ ~(Load(R, d) <= Load(T, d))}
<1>1. ASSUME Bad # {} PROVE FALSE
  <2>0. Bad \subseteq FiniteSubsetsOf(S)
    OBVIOUS
  <2>1. PICK T \in Bad : \A V \in Bad : V \subseteq T => V = T
    <3> HIDE DEF Bad
    <3> QED
      BY <1>1, <2>0, SmallestSet
  <2>2. T \in SUBSET S /\ IsFiniteSet(T) /\ R \subseteq T /\ ~(Load(R, d) <= Load(T, d))
    BY DEF FiniteSubsetsOf
  <2>3. Load(T, d) \in Nat /\ IsFiniteSet(R) /\ Load(R, d) \in Nat
    BY <2>2, LoadType, FS_Subset
  <2>4. PICK t \in T : t \notin R
    BY <2>2, <2>3
  <2>5. T \ {t} \in FiniteSubsetsOf(S) /\ IsFiniteSet(T \ {t}) /\ T \ {t} \in SUBSET Tasks
    BY <2>2, FS_Subset DEF FiniteSubsetsOf
  <2>6. Load(R, d) <= Load(T \ {t}, d)
    BY <2>1, <2>2, <2>4, <2>5
  <2>7. Load(T, d) = Cost(t)[d] + Load(T \ {t}, d) /\ Cost(t)[d] \in Nat
    BY <2>2, LoadRemove, CostType
  <2>8. Load(T \ {t}, d) \in Nat
    BY <2>5, LoadType
  <2> QED
    BY <2>2, <2>3, <2>6, <2>7, <2>8
<1> QED
  BY <1>1 DEF FiniteSubsetsOf

-----------------------------------------------------------------------------
(* The invariant of a worker *)

\* The tasks whose goroutines still hold their share, and their slot.
Holding(p) == {t \in inflight[p] : leaving[p][t] = "no"}
Slotted(p) == {t \in inflight[p] : leaving[p][t] # "freed"}

\* Whatever a poll found, however long ago, is a task the engine lets a
\* worker take up.
Offered(p) == \A t \in cands[p] : state[t] # "none" /\ Class(t) = "worker" /\ Runnable(t)

\* An execution is on the map, and its share in the ledger, until it ends;
\* only what is on the map is cleaned up.
Tracked(p) ==
  \A t \in Tasks :
    /\ Inflight(p, t) => t \in inflight[p] /\ leaving[p][t] = "no"
    /\ leaving[p][t] # "no" => t \in inflight[p]

\* The ledger and the semaphore say what is held.
Balanced(p) ==
  /\ IsFiniteSet(inflight[p])
  /\ \A d \in Dims : used[p][d] = Load(Holding(p), d)
  /\ slots[p] = Cardinality(Slotted(p))

\* What is held fits.
Within(p) ==
  /\ \A d \in Dims : Capacity[d] > 0 => used[p][d] <= Capacity[d]
  /\ Capacity["gpu"] = 0 => used[p]["gpu"] = 0

Sound(p) == Offered(p) /\ Tracked(p) /\ Balanced(p) /\ Within(p)

FInv == TypeOK /\ FTypeOK /\ \A p \in Workers : Sound(p)

\* A row is never removed.
LEMMA RowsStay ==
  ASSUME TypeOK, [Next]_vars, NEW t \in Tasks, state[t] # "none"
  PROVE  state'[t] # "none"
BY TaskSteps DEF Moves, Held

LEMMA NextType == TypeOK /\ [Next]_vars => TypeOK'
<1> SUFFICES ASSUME TypeOK, [Next]_vars PROVE TypeOK'
  OBVIOUS
<1>1. CASE Next
  BY <1>1, StepType, ExecuteType, OtherType DEF Next
<1>2. CASE UNCHANGED vars
  BY <1>2 DEF TypeOK, vars, tables, orchestrator, execution, history
<1> QED
  BY <1>1, <1>2

\* Nothing but Admit starts an execution of a worker.
LEMMA OthersStartNone ==
  ASSUME TypeOK, Others, NEW p \in Workers, NEW t \in Tasks, Inflight(p, t)'
  PROVE  Inflight(p, t)
<1> SUFFICES ASSUME NEW k \in Attempts, pc'[<<p, t, k>>] # "none", pc[<<p, t, k>>] = "none"
             PROVE  FALSE
  BY DEF Inflight
<1> DEFINE z == <<p, t, k>>
<1>0. z \in Execs /\ Proc(z) = p /\ pc \in [Execs -> ExecPoints]
  BY DEF Execs, Procs, Proc, TypeOK
<1>1. ASSUME NEW r \in Replicas, Step(r) PROVE FALSE
  <2>1. UNCHANGED pc \/ Provision(r)
    BY <1>1 DEF Step, ReapExpired, FailExhausted, ProvisionDone, AdvanceScan, AdvanceApply,
                FailWorkflows, AssignScan, AssignInsert, execution
  <2>2. CASE Provision(r)
    <3>1. r # p
      BY ProcsAssumption
    <3>2. PICK q \in queue[r] :
            pc' = IF Class(q[1]) = "worker" THEN pc ELSE [pc EXCEPT ![<<r, q[1], q[2]>>] = "claim"]
      BY <2>2 DEF Provision
    <3> QED
      BY <1>0, <3>1, <3>2
  <2> QED
    BY <2>1, <2>2
<1>2. ASSUME NEW x \in Execs, Execute(x) \/ RenewLease(x) \/ ExecError(x) PROVE FALSE
  <2>1. pc[x] # "none" \/ UNCHANGED pc
    BY <1>2 DEF Execute, StartTask, BodyReturns, CompleteTask, FailTask, RenewLease, ExecError
  <2>2. \A y \in Execs : y # x => pc'[y] = pc[y]
    BY <1>0, <1>2 DEF Execute, StartTask, BodyReturns, CompleteTask, FailTask, RenewLease,
                      ExecError, Exit
  <2> QED
    BY <1>0, <2>1, <2>2
<1>3. ASSUME NEW r \in Replicas, StepError(r) \/ Crash(r) PROVE FALSE
  BY <1>0, <1>3 DEF StepError, Crash, execution
<1>4. ASSUME \/ \E w \in Workflows : CreateWorkflow(w)
             \/ \E u \in Tasks : Expire(u)
      PROVE  FALSE
  BY <1>4 DEF CreateWorkflow, Expire, execution
<1> QED
  BY <1>1, <1>2, <1>3, <1>4 DEF Others

\* A step of the worker is a step of the engine.
LEMMA StepRefines ==
  ASSUME FInv, [FNext]_fvars
  PROVE  [Next]_vars
<1>1. CASE Others
  BY <1>1 DEF Others, Next, Procs
<1>2. ASSUME NEW p \in Workers, NEW t \in Tasks, Admit(p, t)
      PROVE  Next
  <2>1. Sound(p) /\ t \in cands[p] /\ t \notin inflight[p]
    BY <1>2 DEF FInv, Admit, Busy
  <2>2. Discover(p, t)
    BY <1>2, <2>1 DEF Sound, Offered, Tracked, Discover, Admit
  <2> QED
    BY <2>2 DEF Next
<1>3. ASSUME NEW p \in Workers, WorkerCrash(p) PROVE Next
  BY <1>3 DEF WorkerCrash, Next, Procs
<1>4. ASSUME NEW p \in Workers, NEW t \in Tasks,
             Poll(p) \/ Skip(p, t) \/ CoolDown(p, t) \/ Release(p, t) \/ FreeSlot(p, t) \/ Forget(p, t)
      PROVE  UNCHANGED vars
  BY <1>4 DEF Poll, Skip, CoolDown, Release, FreeSlot, Forget
<1>5. ASSUME NEW p \in Workers, Poll(p)
      PROVE  UNCHANGED vars
  BY <1>5 DEF Poll
<1> QED
  BY <1>1, <1>2, <1>3, <1>4, <1>5 DEF FNext, fvars

LEMMA InitSound == FInit => FInv
<1> SUFFICES ASSUME FInit PROVE FInv
  OBVIOUS
<1>1. TypeOK
  BY InitType DEF FInit
<1>2. FTypeOK
  BY SpecAssumption, MaxSlotsAssumption DEF FInit, FTypeOK, Nothing, NotLeaving, Specs
<1>3. ASSUME NEW p \in Workers PROVE Sound(p)
  <2>1. Offered(p)
    BY DEF FInit, Offered
  <2>2. Tracked(p)
    BY DEF FInit, Init, Tracked, Inflight, Execs, Procs, NotLeaving
  <2>3. Holding(p) = {} /\ Slotted(p) = {} /\ inflight[p] = {}
    BY DEF FInit, Holding, Slotted
  <2>4. Balanced(p)
    BY <2>3, LoadFirst, FS_EmptySet DEF FInit, Balanced, Nothing
  <2>5. Within(p)
    BY SpecAssumption DEF FInit, Within, Nothing, Dims, Specs
  <2> QED
    BY <2>1, <2>2, <2>4, <2>5 DEF Sound
<1> QED
  BY <1>1, <1>2, <1>3 DEF FInv

\* A worker stays sound while others move, and while its own executions end.
LEMMA Untouched ==
  ASSUME FInv, [Next]_vars, NEW p \in Workers,
         cands'[p] = cands[p], used'[p] = used[p], slots'[p] = slots[p],
         inflight'[p] = inflight[p], leaving'[p] = leaving[p],
         \A t \in Tasks : Inflight(p, t)' => Inflight(p, t)
  PROVE  Sound(p)'
<1>0. Sound(p) /\ TypeOK /\ FTypeOK
  BY DEF FInv
<1>1. Offered(p)'
  <2>1. \A t \in cands[p] : t \in Tasks /\ state[t] # "none"
    BY <1>0 DEF Sound, Offered, FTypeOK
  <2> QED
    BY <1>0, <2>1, RowsStay DEF Sound, Offered
<1>2. Tracked(p)'
  BY <1>0 DEF Sound, Tracked
<1>3. Holding(p)' = Holding(p) /\ Slotted(p)' = Slotted(p)
  BY DEF Holding, Slotted
<1>4. Balanced(p)'
  BY <1>0, <1>3 DEF Sound, Balanced
<1>5. Within(p)'
  BY <1>0 DEF Sound, Within
<1> QED
  BY <1>1, <1>2, <1>4, <1>5 DEF Sound

LEMMA OthersSound ==
  ASSUME FInv, [Next]_vars, Others \/ UNCHANGED fvars
  PROVE  \A p \in Workers : Sound(p)'
<1> SUFFICES ASSUME NEW p \in Workers PROVE Sound(p)'
  OBVIOUS
<1>1. UNCHANGED local
  BY DEF Others, fvars
<1>2. ASSUME NEW t \in Tasks, Inflight(p, t)' PROVE Inflight(p, t)
  <2>1. CASE Others
    BY <1>2, <2>1, OthersStartNone DEF FInv
  <2>2. CASE UNCHANGED fvars
    BY <1>2, <2>2 DEF fvars, vars, execution, Inflight
  <2> QED
    BY <2>1, <2>2
<1> QED
  BY <1>1, <1>2, Untouched DEF local

Looks(p) == Poll(p) \/ \E t \in Tasks : Skip(p, t) \/ CoolDown(p, t)
Acts(p) ==
  \/ Looks(p)
  \/ WorkerCrash(p)
  \/ \E t \in Tasks : Admit(p, t) \/ Release(p, t) \/ FreeSlot(p, t) \/ Forget(p, t)

\* What an action of one worker leaves to the others.
LEMMA Apart ==
  ASSUME FInv, NEW p \in Workers, Acts(p)
  PROVE  \A q \in Workers : q # p => Sound(q)'
<1> SUFFICES ASSUME NEW q \in Workers, q # p PROVE Sound(q)'
  OBVIOUS
<1>1. TypeOK /\ FTypeOK
  BY DEF FInv
<1>2. [Next]_vars
  <2>1. [FNext]_fvars
    BY DEF FNext, Acts, Looks
  <2> QED
    BY <2>1, StepRefines
<1>3. /\ cands'[q] = cands[q] /\ used'[q] = used[q] /\ slots'[q] = slots[q]
      /\ inflight'[q] = inflight[q] /\ leaving'[q] = leaving[q]
  BY <1>1 DEF FTypeOK, Acts, Looks, Poll, WorkerCrash, Skip, Admit, CoolDown, Release, FreeSlot, Forget
<1>4. ASSUME NEW u \in Tasks, Inflight(q, u)' PROVE Inflight(q, u)
  <2>1. PICK k \in Attempts : pc'[<<q, u, k>>] # "none"
    BY <1>4 DEF Inflight
  <2>2. <<q, u, k>> \in Execs /\ Proc(<<q, u, k>>) = q
    BY DEF Execs, Procs, Proc
  <2>3. CASE WorkerCrash(p)
    BY <1>1, <2>1, <2>2, <2>3 DEF WorkerCrash, Crash, Inflight
  <2>4. ASSUME NEW t \in Tasks, Admit(p, t) PROVE Inflight(q, u)
    BY <1>1, <2>1, <2>2, <2>4 DEF Admit, TypeOK, Inflight
  <2>5. CASE UNCHANGED pc
    BY <2>1, <2>5 DEF Inflight
  <2> QED
    BY <2>3, <2>4, <2>5
    DEF Acts, Looks, Poll, Skip, CoolDown, Release, FreeSlot, Forget, vars, execution
<1> QED
  BY <1>2, <1>3, <1>4, Untouched

\* Finite sets and their loads, under a name for what a worker holds.
LEMMA HeldIsFinite ==
  ASSUME FInv, NEW p \in Workers
  PROVE  /\ Sound(p) /\ TypeOK /\ FTypeOK
         /\ inflight[p] \in SUBSET Tasks /\ IsFiniteSet(inflight[p])
         /\ Holding(p) \in SUBSET Tasks /\ IsFiniteSet(Holding(p))
         /\ Slotted(p) \in SUBSET Tasks /\ IsFiniteSet(Slotted(p))
         /\ Cardinality(Slotted(p)) \in Nat
         /\ \A d \in Dims : used[p][d] \in Nat /\ Capacity[d] \in Nat
<1>1. /\ Sound(p) /\ TypeOK /\ FTypeOK
      /\ inflight[p] \in SUBSET Tasks /\ IsFiniteSet(inflight[p])
  BY DEF FInv, FTypeOK, Sound, Balanced
<1>2. Holding(p) \in SUBSET inflight[p] /\ Slotted(p) \in SUBSET inflight[p]
  BY DEF Holding, Slotted
<1>3. IsFiniteSet(Holding(p)) /\ IsFiniteSet(Slotted(p))
  BY <1>1, <1>2, FS_Subset
<1>4. \A d \in Dims : used[p][d] \in Nat /\ Capacity[d] \in Nat
  BY <1>1, SpecAssumption DEF FTypeOK, Specs
<1> QED
  BY <1>1, <1>2, <1>3, <1>4, FS_CardinalityType

\* A poll and the loop's other looks change no share.
LEMMA LooksSound ==
  ASSUME FInv, NEW p \in Workers, Looks(p)
  PROVE  FTypeOK' /\ Sound(p)'
<1>1. Sound(p) /\ TypeOK /\ FTypeOK
  BY HeldIsFinite
<1>2. FTypeOK'
  BY <1>1 DEF FTypeOK, Looks, Poll, Skip, CoolDown
<1>3. /\ UNCHANGED vars
      /\ used'[p] = used[p] /\ slots'[p] = slots[p]
      /\ inflight'[p] = inflight[p] /\ leaving'[p] = leaving[p]
  BY DEF Looks, Poll, Skip, CoolDown
<1>4. Offered(p)'
  <2>1. \A u \in cands'[p] : state[u] # "none" /\ Class(u) = "worker" /\ Runnable(u)
    BY <1>1 DEF Looks, Poll, Skip, CoolDown, FTypeOK, Sound, Offered
  <2> QED
    BY <1>3, <2>1 DEF Offered, vars, tables
<1>5. \A u : Inflight(p, u)' <=> Inflight(p, u)
  BY <1>3 DEF Inflight, vars, execution
<1>6. Tracked(p)'
  BY <1>1, <1>3, <1>5 DEF Tracked, Sound
<1>7. Holding(p)' = Holding(p) /\ Slotted(p)' = Slotted(p)
  BY <1>3 DEF Holding, Slotted
<1>8. Balanced(p)'
  BY <1>1, <1>3, <1>7 DEF Sound, Balanced
<1>9. Within(p)'
  BY <1>1, <1>3 DEF Sound, Within
<1> QED
  BY <1>2, <1>4, <1>6, <1>8, <1>9 DEF Sound

LEMMA CrashSound ==
  ASSUME FInv, NEW p \in Workers, WorkerCrash(p)
  PROVE  FTypeOK' /\ Sound(p)'
<1>1. FTypeOK
  BY DEF FInv
<1>2. FTypeOK'
  BY <1>1, MaxSlotsAssumption DEF FTypeOK, WorkerCrash, Nothing, NotLeaving, Specs
<1>3. /\ cands'[p] = {} /\ used'[p] = Nothing /\ slots'[p] = 0
      /\ inflight'[p] = {} /\ leaving'[p] = NotLeaving
  BY <1>1 DEF FTypeOK, WorkerCrash
<1>4. \A u \in Tasks : ~Inflight(p, u)'
  BY DEF WorkerCrash, Crash, Inflight, Execs, Procs, Proc
<1>5. Offered(p)' /\ Tracked(p)'
  BY <1>3, <1>4 DEF Offered, Tracked, NotLeaving
<1>6. Holding(p)' = {} /\ Slotted(p)' = {}
  BY <1>3 DEF Holding, Slotted
<1>7. Balanced(p)'
  BY <1>3, <1>6, LoadFirst, FS_EmptySet DEF Balanced, Nothing
<1>8. Within(p)'
  BY <1>3, SpecAssumption DEF Within, Nothing, Dims, Specs
<1> QED
  BY <1>2, <1>5, <1>7, <1>8 DEF Sound

LEMMA AdmitSound ==
  ASSUME FInv, NEW p \in Workers, NEW t \in Tasks, Admit(p, t)
  PROVE  FTypeOK' /\ Sound(p)'
<1>1. /\ Sound(p) /\ TypeOK /\ FTypeOK
      /\ t \notin inflight[p] /\ FitsAll(p, t) /\ slots[p] < MaxSlots
      /\ leaving[p][t] = "no"
  BY HeldIsFinite DEF Admit, Busy, Sound, Tracked
<1>2. /\ cands'[p] = cands[p] \ {t}
      /\ used'[p] = [d \in Dims |-> used[p][d] + Cost(t)[d]]
      /\ slots'[p] = slots[p] + 1
      /\ inflight'[p] = inflight[p] \cup {t}
      /\ leaving' = leaving
  BY <1>1 DEF Admit, FTypeOK
<1>3. \A d \in Dims : used'[p][d] = used[p][d] + Cost(t)[d] /\ Cost(t)[d] \in Nat
  BY <1>2, CostType
<1>4. FTypeOK'
  <2>1. [d \in Dims |-> used[p][d] + Cost(t)[d]] \in Specs
    BY HeldIsFinite, <1>3 DEF Specs
  <2>2. used' \in [Workers -> Specs]
    BY <1>1, <2>1 DEF Admit, FTypeOK
  <2>3. slots[p] + 1 \in 0 .. MaxSlots
    BY <1>1, MaxSlotsAssumption DEF FTypeOK
  <2> QED
    BY <1>1, <2>2, <2>3 DEF Admit, FTypeOK
<1>5. Offered(p)'
  BY <1>1, <1>2 DEF Sound, Offered, Admit, tables
<1>6. Tracked(p)'
  <2> SUFFICES ASSUME NEW u \in Tasks
               PROVE  /\ Inflight(p, u)' => u \in inflight'[p] /\ leaving'[p][u] = "no"
                      /\ leaving'[p][u] # "no" => u \in inflight'[p]
    BY DEF Tracked
  <2>1. ASSUME u # t, Inflight(p, u)' PROVE Inflight(p, u)
    <3>1. PICK k \in Attempts : pc'[<<p, u, k>>] # "none"
      BY <2>1 DEF Inflight
    <3>2. <<p, u, k>> \in Execs
      BY DEF Execs, Procs
    <3>3. pc'[<<p, u, k>>] = pc[<<p, u, k>>]
      BY <1>1, <2>1, <3>2 DEF Admit, TypeOK
    <3> QED
      BY <3>1, <3>3 DEF Inflight
  <2> QED
    BY <1>1, <1>2, <2>1 DEF Sound, Tracked
<1>7. /\ Holding(p)' = Holding(p) \cup {t} /\ t \notin Holding(p)
      /\ Slotted(p)' = Slotted(p) \cup {t} /\ t \notin Slotted(p)
  BY <1>1, <1>2 DEF Holding, Slotted
<1>8. Balanced(p)'
  <2>0. IsFiniteSet(inflight[p]) /\ IsFiniteSet(Slotted(p))
    BY HeldIsFinite
  <2>1. IsFiniteSet(inflight'[p])
    BY <1>2, <2>0, FS_AddElement
  <2>2. slots'[p] = Cardinality(Slotted(p)')
    <3>1. Cardinality(Slotted(p) \cup {t}) = Cardinality(Slotted(p)) + 1
      BY <1>7, <2>0, FS_AddElement
    <3> QED
      BY <1>1, <1>2, <1>7, <3>1 DEF Sound, Balanced
  <2>3. ASSUME NEW d \in Dims PROVE used'[p][d] = Load(Holding(p)', d)
    <3> DEFINE S == Holding(p) \cup {t}
    <3>1. S \in SUBSET Tasks /\ IsFiniteSet(S) /\ t \in S /\ S \ {t} = Holding(p)
      BY <1>7, HeldIsFinite, FS_AddElement
    <3>2. Load(S, d) = Cost(t)[d] + Load(S \ {t}, d)
      BY <3>1, LoadRemove
    <3>3. used[p][d] = Load(Holding(p), d) /\ used[p][d] \in Nat
      BY <1>1, HeldIsFinite DEF Sound, Balanced
    <3> QED
      BY <1>3, <1>7, <3>1, <3>2, <3>3
  <2> QED
    BY <2>1, <2>2, <2>3 DEF Balanced
<1>9. Within(p)'
  <2>1. ASSUME NEW d \in Dims, Capacity[d] > 0 PROVE used'[p][d] <= Capacity[d]
    BY <1>1, <1>3, <2>1, HeldIsFinite DEF FitsAll, Fits
  <2>2. ASSUME Capacity["gpu"] = 0 PROVE used'[p]["gpu"] = 0
    <3>1. "gpu" \in Dims
      BY DEF Dims
    <3>2. Cost(t)["gpu"] = 0
      BY <1>1, <2>2, <3>1 DEF FitsAll, Fits
    <3>3. used[p]["gpu"] = 0
      BY <1>1, <2>2 DEF Sound, Within
    <3> QED
      BY <1>3, <3>1, <3>2, <3>3
  <2> QED
    BY <2>1, <2>2 DEF Within
<1> QED
  BY <1>4, <1>5, <1>6, <1>8, <1>9 DEF Sound

\* A goroutine gives back what its admission took, no more.
LEMMA ReleaseSound ==
  ASSUME FInv, NEW p \in Workers, NEW t \in Tasks, Release(p, t)
  PROVE  FTypeOK' /\ Sound(p)'
<1>1. /\ Sound(p) /\ TypeOK /\ FTypeOK
      /\ t \in inflight[p] /\ ~Inflight(p, t) /\ leaving[p][t] = "no"
  BY HeldIsFinite DEF Release
<1>2. /\ UNCHANGED <<vars, cands, slots, inflight>>
      /\ used'[p] = [d \in Dims |-> used[p][d] - Cost(t)[d]]
      /\ leaving'[p] = [leaving[p] EXCEPT ![t] = "released"]
  BY <1>1 DEF Release, FTypeOK, Shares
<1>3. ASSUME NEW d \in Dims
      PROVE  /\ used'[p][d] = used[p][d] - Cost(t)[d]
             /\ used'[p][d] = Load(Holding(p) \ {t}, d)
             /\ used'[p][d] \in Nat /\ used'[p][d] <= used[p][d]
  <2>1. used'[p][d] = used[p][d] - Cost(t)[d] /\ Cost(t)[d] \in Nat
    BY <1>2, CostType
  <2>2. t \in Holding(p)
    BY <1>1 DEF Holding
  <2>3. Load(Holding(p), d) = Cost(t)[d] + Load(Holding(p) \ {t}, d)
    BY <2>2, HeldIsFinite, LoadRemove
  <2>4. Holding(p) \ {t} \in SUBSET Tasks /\ IsFiniteSet(Holding(p) \ {t})
    BY HeldIsFinite, FS_Subset
  <2>5. Load(Holding(p) \ {t}, d) \in Nat
    BY <2>4, LoadType
  <2>6. used[p][d] = Load(Holding(p), d)
    BY <1>1 DEF Sound, Balanced
  <2> QED
    BY <2>1, <2>3, <2>5, <2>6
<1>4. FTypeOK'
  <2>1. [d \in Dims |-> used[p][d] - Cost(t)[d]] \in Specs
    BY <1>3 DEF Specs
  <2>2. used' \in [Workers -> Specs]
    BY <1>1, <2>1 DEF Release, FTypeOK, Shares
  <2>3. cooling' \in [Workers -> SUBSET Tasks]
    BY <1>1 DEF Release, FTypeOK
  <2>4. leaving' \in [Workers -> [Tasks -> {"no", "released", "freed"}]]
    BY <1>1 DEF Release, FTypeOK
  <2> QED
    BY <1>1, <2>2, <2>3, <2>4 DEF Release, FTypeOK
<1>5. Offered(p)'
  BY <1>1, <1>2 DEF Sound, Offered, vars, tables
<1>6. Tracked(p)'
  <2>1. \A u : Inflight(p, u)' <=> Inflight(p, u)
    BY <1>2 DEF Inflight, vars, execution
  <2>2. \A u \in Tasks : leaving'[p][u] = IF u = t THEN "released" ELSE leaving[p][u]
    BY <1>1, <1>2 DEF FTypeOK
  <2> QED
    BY <1>1, <1>2, <2>1, <2>2 DEF Sound, Tracked
<1>7. Holding(p)' = Holding(p) \ {t} /\ Slotted(p)' = Slotted(p)
  <2>1. \A u \in inflight[p] : leaving'[p][u] = IF u = t THEN "released" ELSE leaving[p][u]
    BY <1>1, <1>2 DEF FTypeOK
  <2> QED
    BY <1>1, <1>2, <2>1 DEF Holding, Slotted
<1>8. Balanced(p)'
  BY <1>1, <1>2, <1>3, <1>7 DEF Sound, Balanced
<1>9. Within(p)'
  <2>1. ASSUME NEW d \in Dims, Capacity[d] > 0 PROVE used'[p][d] <= Capacity[d]
    <3>1. used[p][d] <= Capacity[d]
      BY <1>1, <2>1 DEF Sound, Within
    <3> QED
      BY <1>3, <3>1, HeldIsFinite
  <2>2. ASSUME Capacity["gpu"] = 0 PROVE used'[p]["gpu"] = 0
    <3>1. used[p]["gpu"] = 0 /\ "gpu" \in Dims
      BY <1>1, <2>2 DEF Sound, Within, Dims
    <3> QED
      BY <1>3, <3>1
  <2> QED
    BY <2>1, <2>2 DEF Within
<1> QED
  BY <1>4, <1>5, <1>6, <1>8, <1>9 DEF Sound

LEMMA FreeSlotSound ==
  ASSUME FInv, NEW p \in Workers, NEW t \in Tasks, FreeSlot(p, t)
  PROVE  FTypeOK' /\ Sound(p)'
<1>1. /\ Sound(p) /\ TypeOK /\ FTypeOK
      /\ leaving[p][t] = "released" /\ t \in inflight[p] /\ ~Inflight(p, t)
  BY HeldIsFinite DEF FreeSlot, Sound, Tracked
<1>2. /\ UNCHANGED <<vars, cands, used, inflight>>
      /\ slots'[p] = slots[p] - 1
      /\ \A u \in Tasks : leaving'[p][u] = IF u = t THEN "freed" ELSE leaving[p][u]
  BY <1>1 DEF FreeSlot, FTypeOK
<1>3. Holding(p)' = Holding(p) /\ Slotted(p)' = Slotted(p) \ {t} /\ t \in Slotted(p)
  <2>1. \A u \in inflight[p] : leaving'[p][u] = IF u = t THEN "freed" ELSE leaving[p][u]
    BY <1>2, HeldIsFinite
  <2> QED
    BY <1>1, <1>2, <2>1 DEF Holding, Slotted
<1>4. slots[p] = Cardinality(Slotted(p)) /\ slots'[p] = Cardinality(Slotted(p) \ {t})
  <2>1. IsFiniteSet(Slotted(p)) /\ Cardinality(Slotted(p)) \in Nat
    BY HeldIsFinite
  <2>2. Cardinality(Slotted(p) \ {t}) = Cardinality(Slotted(p)) - 1
    BY <1>3, <2>1, FS_RemoveElement
  <2> QED
    BY <1>1, <1>2, <2>2 DEF Sound, Balanced
<1>5. slots[p] - 1 \in 0 .. MaxSlots
  <2>1. Cardinality(Slotted(p) \ {t}) \in Nat
    BY HeldIsFinite, FS_RemoveElement, FS_CardinalityType
  <2> QED
    BY <1>1, <1>2, <1>4, <2>1, MaxSlotsAssumption DEF FTypeOK
<1>6. FTypeOK'
  BY <1>1, <1>5 DEF FreeSlot, FTypeOK
<1>7. Offered(p)'
  BY <1>1, <1>2 DEF Sound, Offered, vars, tables
<1>8. Tracked(p)'
  <2>1. \A u : Inflight(p, u)' <=> Inflight(p, u)
    BY <1>2 DEF Inflight, vars, execution
  <2> QED
    BY <1>1, <1>2, <2>1 DEF Sound, Tracked
<1>9. Balanced(p)' /\ Within(p)'
  BY <1>1, <1>2, <1>3, <1>4 DEF Sound, Balanced, Within
<1> QED
  BY <1>6, <1>7, <1>8, <1>9 DEF Sound

LEMMA ForgetSound ==
  ASSUME FInv, NEW p \in Workers, NEW t \in Tasks, Forget(p, t)
  PROVE  FTypeOK' /\ Sound(p)'
<1>1. /\ Sound(p) /\ TypeOK /\ FTypeOK
      /\ leaving[p][t] = "freed" /\ t \in inflight[p] /\ ~Inflight(p, t)
  BY HeldIsFinite DEF Forget, Sound, Tracked
<1>2. /\ UNCHANGED <<vars, cands, used, slots>>
      /\ inflight'[p] = inflight[p] \ {t}
      /\ \A u \in Tasks : leaving'[p][u] = IF u = t THEN "no" ELSE leaving[p][u]
  BY <1>1 DEF Forget, FTypeOK
<1>3. Holding(p)' = Holding(p) /\ Slotted(p)' = Slotted(p)
  <2>1. \A u \in inflight[p] : leaving'[p][u] = IF u = t THEN "no" ELSE leaving[p][u]
    BY <1>2, HeldIsFinite
  <2> QED
    BY <1>1, <1>2, <2>1 DEF Holding, Slotted
<1>4. FTypeOK'
  BY <1>1 DEF Forget, FTypeOK
<1>5. Offered(p)'
  BY <1>1, <1>2 DEF Sound, Offered, vars, tables
<1>6. Tracked(p)'
  <2>1. \A u : Inflight(p, u)' <=> Inflight(p, u)
    BY <1>2 DEF Inflight, vars, execution
  <2> QED
    BY <1>1, <1>2, <2>1 DEF Sound, Tracked
<1>7. IsFiniteSet(inflight'[p])
  <2>1. IsFiniteSet(inflight[p])
    BY HeldIsFinite
  <2> QED
    BY <1>2, <2>1, FS_RemoveElement
<1>8. Balanced(p)' /\ Within(p)'
  BY <1>1, <1>2, <1>3, <1>7 DEF Sound, Balanced, Within
<1> QED
  BY <1>4, <1>5, <1>6, <1>8 DEF Sound

-----------------------------------------------------------------------------
(* Theorems *)

LEMMA StepFInv == FInv /\ [FNext]_fvars => FInv'
<1> SUFFICES ASSUME FInv, [FNext]_fvars PROVE FInv'
  OBVIOUS
<1>1. [Next]_vars /\ TypeOK'
  BY StepRefines, NextType DEF FInv
<1>2. CASE Others \/ UNCHANGED fvars
  <2>1. FTypeOK'
    BY <1>2 DEF FInv, FTypeOK, Others, fvars, local
  <2> QED
    BY <1>1, <1>2, <2>1, OthersSound DEF FInv
<1>3. ASSUME NEW p \in Workers, Acts(p) PROVE FInv'
  <2>1. FTypeOK' /\ Sound(p)'
    BY <1>3, LooksSound, CrashSound, AdmitSound, ReleaseSound, FreeSlotSound, ForgetSound DEF Acts
  <2> QED
    BY <1>1, <1>3, <2>1, Apart DEF FInv
<1> QED
  BY <1>2, <1>3 DEF FNext, Acts, Looks

\* The ledger of every worker is what its goroutines hold, and everything
\* the rest follows from is preserved (fanout.go:44-94).
THEOREM LedgerInvariant == FSpec => []FInv
<1>1. FInv /\ [FNext]_fvars => FInv'
  BY StepFInv
<1> QED
  BY InitSound, <1>1, PTL DEF FSpec

\* Every variable of the worker keeps its type: no share is given back twice,
\* and no slot.
THEOREM FTypeCorrect == FSpec => []FTypeOK
<1>1. FInv => FTypeOK
  BY DEF FInv
<1> QED
  BY <1>1, LedgerInvariant, PTL

\* Whatever was admitted and released in between, the bodies that may run on
\* a worker fit it together (fanout.go:13-24).
THEOREM CapacityIsHeld == FSpec => []CapacityHeld
<1>1. FInv => CapacityHeld
  <2> SUFFICES ASSUME FInv, NEW p \in Workers
               PROVE  LET running == {t \in Tasks : Inflight(p, t)}
                      IN /\ \A d \in Dims : Capacity[d] > 0 => Load(running, d) <= Capacity[d]
                         /\ Capacity["gpu"] = 0 => Load(running, "gpu") = 0
                         /\ Cardinality(running) <= MaxSlots
    BY DEF CapacityHeld
  <2> DEFINE running == {t \in Tasks : Inflight(p, t)}
  <2>1. /\ Sound(p) /\ FTypeOK
        /\ Holding(p) \in SUBSET Tasks /\ IsFiniteSet(Holding(p))
        /\ Slotted(p) \in SUBSET Tasks /\ IsFiniteSet(Slotted(p))
        /\ Cardinality(Slotted(p)) \in Nat
        /\ \A d \in Dims : used[p][d] \in Nat /\ Capacity[d] \in Nat
    BY HeldIsFinite
  <2>2. running \in SUBSET Holding(p) /\ Holding(p) \in SUBSET Slotted(p)
    BY <2>1 DEF Sound, Tracked, Holding, Slotted
  <2>3. IsFiniteSet(running) /\ running \in SUBSET Tasks
    BY <2>1, <2>2, FS_Subset
  <2>4. ASSUME NEW d \in Dims
        PROVE  Load(running, d) \in Nat /\ Load(running, d) <= used[p][d]
    <3>1. Load(running, d) \in Nat
      BY <2>3, LoadType
    <3>2. Load(running, d) <= Load(Holding(p), d)
      BY <2>1, <2>2, LoadMonotonic
    <3> QED
      BY <2>1, <3>1, <3>2 DEF Sound, Balanced
  <2>5. ASSUME NEW d \in Dims, Capacity[d] > 0
        PROVE  Load(running, d) <= Capacity[d]
    <3>1. used[p][d] <= Capacity[d]
      BY <2>1, <2>5 DEF Sound, Within
    <3> QED
      BY <2>1, <2>4, <3>1
  <2>6. ASSUME Capacity["gpu"] = 0 PROVE Load(running, "gpu") = 0
    <3>1. "gpu" \in Dims
      BY DEF Dims
    <3>2. used[p]["gpu"] = 0
      BY <2>1, <2>6 DEF Sound, Within
    <3> QED
      BY <2>4, <3>1, <3>2
  <2>7. Cardinality(running) <= MaxSlots
    <3>1. running \in SUBSET Slotted(p)
      BY <2>2
    <3>2. Cardinality(running) <= Cardinality(Slotted(p))
      BY <2>1, <3>1, FS_Subset
    <3>3. Cardinality(running) \in Nat
      BY <2>3, FS_CardinalityType
    <3>4. slots[p] = Cardinality(Slotted(p)) /\ slots[p] <= MaxSlots
      BY <2>1 DEF Sound, Balanced, FTypeOK
    <3> QED
      BY <2>1, <3>2, <3>3, <3>4, MaxSlotsAssumption
  <2> QED
    BY <2>5, <2>6, <2>7
<1> QED
  BY <1>1, LedgerInvariant, PTL

\* A worker with nothing in flight has its whole capacity and every slot again
\* (fanout.go:80-86).
THEOREM NothingIsLeaked == FSpec => []NothingLeaks
<1>1. FInv => NothingLeaks
  <2> SUFFICES ASSUME FInv, NEW p \in Workers, inflight[p] = {}
               PROVE  used[p] = Nothing /\ slots[p] = 0
    BY DEF NothingLeaks
  <2>1. Sound(p) /\ FTypeOK
    BY DEF FInv
  <2>2. Holding(p) = {} /\ Slotted(p) = {}
    BY DEF Holding, Slotted
  <2>3. \A d \in Dims : used[p][d] = 0
    BY <2>1, <2>2, LoadFirst, FS_EmptySet DEF Sound, Balanced
  <2>4. used[p] \in [Dims -> Nat]
    BY <2>1 DEF FTypeOK, Specs
  <2> QED
    BY <2>1, <2>2, <2>3, <2>4, FS_EmptySet DEF Sound, Balanced, Nothing
<1> QED
  BY <1>1, LedgerInvariant, PTL

\* The resident worker does nothing the engine does not allow, so whatever the
\* engine guarantees holds with it (fanout.go:121-179).
THEOREM WorkerImplementsEngine == FSpec => ImplementsEngine
<1>1. FInit => Init
  BY DEF FInit
<1>2. FInv /\ [FNext]_fvars => [Next]_vars
  BY StepRefines
<1> QED
  BY <1>1, <1>2, LedgerInvariant, PTL DEF FSpec, Spec, ImplementsEngine

\* With resident workers that poll, wait and leave, each attempt still has one
\* winner, each mutation is committed once, and a workflow's operations take
\* effect in order.
COROLLARY WorkersKeepThePromise ==
  FSpec => []OneWinnerPerAttempt /\ []ExactlyOnce /\ ImplementsWorkflowAbs
<1>1. FSpec => Spec
  BY WorkerImplementsEngine DEF ImplementsEngine
<1> QED
  BY <1>1, OneWinner, CommitsExactlyOnce, Implements, PTL
=============================================================================

------------------------------- MODULE Fanout -------------------------------
(***************************************************************************)
(* The resident worker of ocng: src/internal/worker/fanout.go, composed    *)
(* with Engine, whose Discover it refines.                                 *)
(*                                                                         *)
(* A worker process polls for ASSIGNED tasks, admits those whose resource  *)
(* spec fits what its running tasks leave of its capacity, and runs each   *)
(* in a goroutine that holds one of MaxSlots slots.  What the poll read    *)
(* may be stale by the time a task is admitted, and a goroutine gives back *)
(* its share of the ledger, its slot and its inflight entry one by one,    *)
(* while the poll loop goes on.                                            *)
(***************************************************************************)
EXTENDS Engine, FiniteSetsExt

CONSTANTS
  Stated,    \* spec columns of a task, 0 where the column is null
  Default,   \* Fanout.Default
  Capacity,  \* Fanout.Capacity
  MaxSlots   \* Fanout.MaxSlots

\* The dimensions tryAdmit looks at; spec_runtime_s is advisory.
Dims == {"cpu", "memory", "gpu"}
Specs == [Dims -> Nat]

ASSUME SpecAssumption ==
  /\ Stated \in [Tasks -> Specs]
  /\ Default \in Specs /\ Capacity \in Specs
ASSUME MaxSlotsAssumption == MaxSlots \in Nat \ {0}

VARIABLES
  cands,     \* candidates of the poll the loop has not looked at yet
  used,      \* the admission ledger
  slots,     \* number of slots taken
  inflight,  \* tasks a local slot is on
  cooling,   \* cooldown[task] is in the future
  leaving    \* how far a goroutine that ended has cleaned up

local == <<cands, used, slots, inflight, cooling, leaving>>
fvars == <<vars, local>>

\* Every variable keeps its type; no dimension is given back twice.
FTypeOK ==
  /\ cands \in [Workers -> SUBSET Tasks]
  /\ used \in [Workers -> Specs]
  /\ slots \in [Workers -> 0 .. MaxSlots]
  /\ inflight \in [Workers -> SUBSET Tasks]
  /\ cooling \in [Workers -> SUBSET Tasks]
  /\ leaving \in [Workers -> [Tasks -> {"no", "released", "freed"}]]

NotLeaving == [t \in Tasks |-> "no"]
Nothing == [d \in Dims |-> 0]

FInit ==
  /\ Init
  /\ cands = [p \in Workers |-> {}]
  /\ used = [p \in Workers |-> Nothing]
  /\ slots = [p \in Workers |-> 0]
  /\ inflight = [p \in Workers |-> {}]
  /\ cooling = [p \in Workers |-> {}]
  /\ leaving = [p \in Workers |-> NotLeaving]

-----------------------------------------------------------------------------
(* Admission *)

\* What a task costs: an unstated dimension costs the default.
Cost(t) ==
  [d \in Dims |-> IF Stated[t][d] = 0 THEN Default[d] ELSE Stated[t][d]]

\* Capacity 0 leaves cpu and memory unconstrained, and means there is no gpu.
FitsSoFar(p, t, d) == Capacity[d] = 0 \/ used[p][d] < Capacity[d]         \* mutant
Fits(p, t, d) ==
  IF Capacity[d] = 0
  THEN d # "gpu" \/ Cost(t)[d] = 0
  ELSE used[p][d] + Cost(t)[d] <= Capacity[d]

FitsAll(p, t) == \A d \in Dims : Fits(p, t, d)

\* What release gives back.
SharesStated(t) == Stated[t]                                            \* mutant
SharesDefault(t) == Default                                             \* mutant
Shares(t) == Cost(t)

BusyCooling(p, t) == t \in cooling[p]                                  \* mutant
Busy(p, t) == t \in inflight[p] \/ t \in cooling[p]

-----------------------------------------------------------------------------
(* The poll loop *)

\* The query; the loop has looked at every candidate of the last one.
Poll(p) ==
  /\ cands[p] = {}
  /\ cands' = [cands EXCEPT ![p] =
       {t \in Tasks : state[t] = "ASSIGNED" /\ Class(t) = "worker" /\ Runnable(t)}]
  /\ cands' # cands
  /\ UNCHANGED <<vars, used, slots, inflight, cooling, leaving>>

\* One iteration over the candidates.  The goroutines only give back, so
\* that the tests and the writes of an iteration count as one step.
Skip(p, t) ==
  /\ t \in cands[p]
  /\ Busy(p, t) \/ ~FitsAll(p, t) \/ slots[p] >= MaxSlots
  /\ cands' = [cands EXCEPT ![p] = @ \ {t}]
  /\ UNCHANGED <<vars, used, slots, inflight, cooling, leaving>>

Admit(p, t) ==
  /\ t \in cands[p]
  /\ ~Busy(p, t) /\ FitsAll(p, t) /\ slots[p] < MaxSlots
  /\ cands' = [cands EXCEPT ![p] = @ \ {t}]
  /\ used' = [used EXCEPT ![p] = [d \in Dims |-> @[d] + Cost(t)[d]]]
  /\ slots' = [slots EXCEPT ![p] = @ + 1]
  /\ inflight' = [inflight EXCEPT ![p] = @ \cup {t}]
  /\ pc' = [pc EXCEPT ![<<p, t, attempt[t]>>] = "claim"]
  /\ UNCHANGED <<tables, orchestrator, cancelled, won, history, faults>>
  /\ UNCHANGED <<cooling, leaving>>

\* The clock passes cooldown[t].
CoolDown(p, t) ==
  /\ t \in cooling[p]
  /\ cooling' = [cooling EXCEPT ![p] = @ \ {t}]
  /\ UNCHANGED <<vars, cands, used, slots, inflight, leaving>>

-----------------------------------------------------------------------------
(* The end of a goroutine, after Run returned with or without an error *)

Release(p, t) ==
  /\ t \in inflight[p] /\ ~Inflight(p, t) /\ leaving[p][t] = "no"
  /\ \/ cooling' = [cooling EXCEPT ![p] = @ \cup {t}]
     \/ UNCHANGED cooling
  /\ used' = [used EXCEPT ![p] = [d \in Dims |-> @[d] - Shares(t)[d]]]
  /\ leaving' = [leaving EXCEPT ![p][t] = "released"]
  /\ UNCHANGED <<vars, cands, slots, inflight>>

FreeSlot(p, t) ==
  /\ leaving[p][t] = "released"
  /\ slots' = [slots EXCEPT ![p] = @ - 1]
  /\ leaving' = [leaving EXCEPT ![p][t] = "freed"]
  /\ UNCHANGED <<vars, cands, used, inflight, cooling>>

Forget(p, t) ==
  /\ leaving[p][t] = "freed"
  /\ inflight' = [inflight EXCEPT ![p] = @ \ {t}]
  /\ leaving' = [leaving EXCEPT ![p][t] = "no"]
  /\ UNCHANGED <<vars, cands, used, slots, cooling>>

\* A worker process dies with its ledger and its maps.
WorkerCrash(p) ==
  /\ Crash(p)
  /\ cands' = [cands EXCEPT ![p] = {}]
  /\ used' = [used EXCEPT ![p] = Nothing]
  /\ slots' = [slots EXCEPT ![p] = 0]
  /\ inflight' = [inflight EXCEPT ![p] = {}]
  /\ cooling' = [cooling EXCEPT ![p] = {}]
  /\ leaving' = [leaving EXCEPT ![p] = NotLeaving]

-----------------------------------------------------------------------------
\* What the rest of the system does, the worker's executions included.
Others ==
  /\ \/ \E w \in Workflows : CreateWorkflow(w)
     \/ \E t \in Tasks : Expire(t)
     \/ \E r \in Replicas : Step(r) \/ StepError(r) \/ Crash(r)
     \/ \E x \in Execs : Execute(x) \/ RenewLease(x) \/ ExecError(x)
  /\ UNCHANGED local

FNext ==
  \/ Others
  \/ \E p \in Workers :
       \/ Poll(p)
       \/ WorkerCrash(p)
       \/ \E t \in Tasks :
            \/ Skip(p, t)
            \/ Admit(p, t)
            \/ CoolDown(p, t)
            \/ Release(p, t)
            \/ FreeSlot(p, t)
            \/ Forget(p, t)

FSpec == FInit /\ [][FNext]_fvars

-----------------------------------------------------------------------------
(* Properties *)

\* What a set of tasks costs together.
Load(S, d) == MapThenSumSet(LAMBDA t : Cost(t)[d], S)

\* The tasks whose bodies may be running on a worker, or about to, fit its
\* capacity together, whatever was admitted and released in between; on a
\* worker without a gpu none of them asks for one (fanout.go:13-24).
CapacityHeld ==
  \A p \in Workers :
    LET running == {t \in Tasks : Inflight(p, t)}
    IN
    /\ \A d \in Dims : Capacity[d] > 0 => Load(running, d) <= Capacity[d]
    /\ Capacity["gpu"] = 0 => Load(running, "gpu") = 0
    /\ Cardinality(running) <= MaxSlots

\* A worker with nothing in flight has its whole capacity and every slot
\* again: no order of admissions and endings leaks a share (fanout.go:80-86).
NothingLeaks ==
  \A p \in Workers :
    inflight[p] = {} => used[p] = Nothing /\ slots[p] = 0

\* The worker discovers tasks as the engine allows: never one it still has a
\* goroutine on, whose owner string the new one would share
\* (fanout.go:121, 155-161, 179).
ImplementsEngine == Spec

\* "A candidate that does not fit simply stays ASSIGNED - it waits for
\* capacity here, or for another worker" (fanout.go:15-17).
StaysAssigned ==
  [][\A t \in Tasks :
       /\ Runnable(t) /\ state[t] = "ASSIGNED"
       /\ \A p \in Workers : t \notin inflight[p] /\ ~FitsAll(p, t)
       => state'[t] = "ASSIGNED"]_fvars
=============================================================================

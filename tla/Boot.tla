-------------------------------- MODULE Boot --------------------------------
(***************************************************************************)
(* The boot of ocng-core and the definitions loader: run in                *)
(* src/cmd/ocng-core, src/internal/serveset, src/internal/definitions.     *)
(*                                                                         *)
(* A replica applies its migration plans (SchemaSteps), makes the database *)
(* role of delivery, loads the directory of workflow definitions once,     *)
(* where any error ends the boot, and serves; from then on it polls the    *)
(* directory and keeps the last good row whatever it finds there.  Each    *)
(* replica has a mount of its own.                                         *)
(*                                                                         *)
(* One definition id stands for all of them: the rows of different ids     *)
(* never meet.  Its content is a model value, its files are numbered in    *)
(* the order of their names.                                               *)
(***************************************************************************)
EXTENDS SchemaSteps, FiniteSetsExt

CONSTANTS
  Files,     \* file names that may hold the definition, sorted: 1 .. n
  Versions,  \* contents that parse
  Bad,       \* a content that does not parse, or with an include operation
  NoFile,    \* no such file, or nothing applied
  Mounts,    \* the directory each process has at first
  MaxEdits   \* bound: edits of the mounts

Contents == Versions \cup {Bad, NoFile}

ASSUME FilesAssumption == Files \subseteq Nat
ASSUME ContentAssumption == Bad # NoFile /\ {Bad, NoFile} \cap Versions = {}
ASSUME MountsAssumption == Mounts \in [Procs -> [Files -> Contents]]
\* Tables are created in transactions, and whether a step is one shows in its SQL.
ASSUME CreatesAssumption ==
  \A release \in Plans : \A p, q \in Procs : \A k \in PackageSet :
    \A n \in DOMAIN release[p][k] :
      LET step == release[p][k][n] IN
      /\ step.kind \in {"index", "batch"} => step.creates \cap ServeSet = {}
      /\ n \in DOMAIN release[q][k] =>
           LET other == release[q][k][n] IN
           step.sql = other.sql /\ step.kind \in {"tx", "guarded"}
             => other.kind # "index"
ASSUME EditsAssumption == MaxEdits \in Nat

VARIABLES
  stage,    \* what main does in each process
  role,     \* the role ocng_serve exists
  usage,    \* it may use the schema
  granted,  \* tables it may select from
  left,     \* tables EnsureRole has still to look at
  mount,    \* the directory each process sees: file -> content
  applied,  \* Loader.applied: file -> content
  pending,  \* toApply: <<file, content>>, at most one for one id
  row,      \* the row of workflow_definition
  edits,
  moved     \* history: a loader applied the definition from a second file

roles == <<role, usage, granted>>
loader == <<applied, pending>>
definitions == <<mount, row, edits, moved>>
vars == <<svars, stage, roles, left, loader, definitions>>

-----------------------------------------------------------------------------
(* The directory *)

Parsed(p) == {f \in Files : mount[p][f] \in Versions}
Broken(p) == \E f \in Files : mount[p][f] = Bad

\* Of several files with one id the first by name is taken; the others are
\* rejected.
Taken(p) == Min(Parsed(p))
Rejected(p) == Broken(p) \/ Cardinality(Parsed(p)) > 1

ChangedFile(p) == Parsed(p) # {} /\ applied[p][Taken(p)] = NoFile    \* mutant

Changed(p) == Parsed(p) # {} /\ applied[p][Taken(p)] # mount[p][Taken(p)]

ToApply(p) == IF Changed(p) THEN <<Taken(p), mount[p][Taken(p)]>> ELSE <<>>

-----------------------------------------------------------------------------
(* State and boot *)

Init ==
  /\ SInit
  /\ stage = [p \in Procs |-> "schema"]
  /\ role = FALSE
  /\ usage = FALSE
  /\ granted = {}
  /\ left = [p \in Procs |-> {}]
  /\ mount = Mounts
  /\ applied = [p \in Procs |-> [f \in Files |-> NoFile]]
  /\ pending = [p \in Procs |-> <<>>]
  /\ row = NoFile
  /\ edits = 0
  /\ moved = FALSE

\* What a process that is gone has forgotten.
Forgotten(p) ==
  /\ stage' = [stage EXCEPT ![p] = "schema"]
  /\ left' = [left EXCEPT ![p] = {}]
  /\ applied' = [applied EXCEPT ![p] = [f \in Files |-> NoFile]]
  /\ pending' = [pending EXCEPT ![p] = <<>>]

\* main returns an error of a later stage.
Fails(p) ==
  /\ Exit(p)
  /\ Forgotten(p)
  /\ UNCHANGED <<plan, ledger, schema, built, ran, reading, faults>>

\* The packages' plans, one after the other.
Migrate(p) ==
  /\ Run(p) \/ Start(p)
  /\ UNCHANGED <<stage, roles, left, loader, definitions>>

Crash(p) ==
  /\ Die(p)
  /\ Forgotten(p)
  /\ UNCHANGED <<roles, definitions>>

At(p, s) == pc[p] = "migrated" /\ stage[p] = s
Enter(p, s) == stage' = [stage EXCEPT ![p] = s] /\ UNCHANGED svars

LookupRoleDone(p) ==                                             \* mutant
  /\ At(p, "schema")
  /\ Enter(p, IF role THEN "load" ELSE "create")
  /\ UNCHANGED <<left, roles, loader, definitions>>

\* EnsureRole looks the role up ...
LookupRole(p) ==
  /\ At(p, "schema")
  /\ Enter(p, IF role THEN "usage" ELSE "create")
  /\ UNCHANGED <<left, roles, loader, definitions>>

\* ... and creates it if it was absent.  A replica that lost the race is told
\* duplicate_object, which is tolerated, or, when the two statements overlap,
\* a violation of the catalog's unique index, which is not.
CreateRole(p) ==
  /\ At(p, "create")
  /\ \/ /\ Enter(p, "usage")
        /\ role' = TRUE
        /\ UNCHANGED <<usage, granted, left, loader, definitions>>
     \/ role /\ Fails(p) /\ UNCHANGED <<roles, definitions>>

\* The loop over the tables.
GrantTables(p) ==
  /\ Enter(p, "grant")
  /\ left' = [left EXCEPT ![p] = ServeSet]

\* The schema: looked up, and granted if the role may not use it ...
CheckUsage(p) ==
  /\ At(p, "usage")
  /\ IF usage THEN GrantTables(p) ELSE Enter(p, "granting usage") /\ UNCHANGED left
  /\ UNCHANGED <<roles, loader, definitions>>

\* ... where a grant that overlaps another's may fail on the catalog's row.
GrantUsage(p) ==
  /\ At(p, "granting usage")
  /\ \/ /\ GrantTables(p)
        /\ usage' = TRUE
        /\ UNCHANGED <<role, granted, loader, definitions>>
     \/ usage /\ Fails(p) /\ UNCHANGED <<roles, definitions>>

\* A table exists when a step that creates it was applied.
Exists(t) ==
  \E p \in Procs : \E k \in PackageSet : \E n \in DOMAIN plan[p][k] :
    schema[k][n] = "done" /\ t \in plan[p][k][n].creates

\* The table the loop is at.
Table(p) == CHOOSE t \in left[p] : TRUE

\* One table: skipped unless it exists and is not granted yet ...
CheckGrant(p) ==
  /\ At(p, "grant") /\ left[p] # {}
  /\ IF Exists(Table(p)) /\ Table(p) \notin granted
       THEN Enter(p, "granting") /\ UNCHANGED left
       ELSE left' = [left EXCEPT ![p] = @ \ {Table(p)}] /\ UNCHANGED <<svars, stage>>
  /\ UNCHANGED <<roles, loader, definitions>>

\* ... and granted, or refused like that of the schema.
GrantSelect(p) ==
  /\ At(p, "granting")
  /\ \/ /\ Enter(p, "grant")
        /\ granted' = granted \cup {Table(p)}
        /\ left' = [left EXCEPT ![p] = @ \ {Table(p)}]
        /\ UNCHANGED <<role, usage, loader, definitions>>
     \/ Table(p) \in granted /\ Fails(p) /\ UNCHANGED <<roles, definitions>>

RoleDone(p) ==
  /\ At(p, "grant") /\ left[p] = {}
  /\ Enter(p, "load")
  /\ UNCHANGED <<roles, left, loader, definitions>>

\* LoadOnce reads the directory: any file that is rejected ends the boot.
LoadOnce(p) ==
  /\ At(p, "load") /\ pending[p] = <<>>
  /\ IF Rejected(p)
       THEN Fails(p)
       ELSE /\ pending' = [pending EXCEPT ![p] = ToApply(p)]
            /\ Enter(p, IF Changed(p) THEN "load" ELSE "serving")
            /\ UNCHANGED <<left, applied>>
  /\ UNCHANGED <<roles, definitions>>

\* Watch, every two seconds: what is rejected is logged, the rest applies.
Poll(p) ==
  /\ At(p, "serving") /\ pending[p] = <<>>
  /\ pending' = [pending EXCEPT ![p] = ToApply(p)]
  /\ UNCHANGED <<svars, stage, roles, left, applied, definitions>>

\* The upsert, and the memory of it.
Store(p) ==
  /\ pending[p] # <<>>
  /\ row' = pending[p][2]
  /\ applied' = [applied EXCEPT ![p][pending[p][1]] = pending[p][2]]
  /\ moved' = (moved \/ \E f \in Files \ {pending[p][1]} : applied[p][f] # NoFile)
  /\ pending' = [pending EXCEPT ![p] = <<>>]
  /\ stage' = [stage EXCEPT ![p] = "serving"]
  /\ UNCHANGED <<svars, roles, left, mount, edits>>

\* At runtime a failed upsert is logged and tried again by the next poll; at
\* boot it is a crash.
StoreFails(p) ==
  /\ pending[p] # <<>> /\ At(p, "serving") /\ faults < MaxFaults
  /\ faults' = faults + 1
  /\ pending' = [pending EXCEPT ![p] = <<>>]
  /\ UNCHANGED <<plan, database, process, stage, roles, left, applied, definitions>>

\* An operator writes, breaks or removes a file of one mount.
Edit(p) ==
  /\ edits < MaxEdits
  /\ edits' = edits + 1
  /\ \E f \in Files, c \in Contents :
       c # mount[p][f] /\ mount' = [mount EXCEPT ![p][f] = c]
  /\ UNCHANGED <<svars, stage, roles, left, loader, row, moved>>

Readers ==
  /\ LongRead \/ ReadEnds
  /\ UNCHANGED <<stage, roles, left, loader, definitions>>

EnsureRole(p) ==
  \/ LookupRole(p) \/ CreateRole(p) \/ CheckUsage(p) \/ GrantUsage(p)
  \/ CheckGrant(p) \/ GrantSelect(p) \/ RoleDone(p)
Load(p) == LoadOnce(p) \/ Poll(p) \/ Store(p)
Advance(p) == Migrate(p) \/ EnsureRole(p) \/ Load(p)

Next ==
  \/ \E p \in Procs : Advance(p) \/ StoreFails(p) \/ Crash(p) \/ Edit(p)
  \/ Readers

Spec == Init /\ [][Next]_vars

\* Every process is restarted and keeps running, its statements return (a
\* batched step has a last batch) and a long read ends.
Fairness ==
  /\ \A p \in Procs : WF_vars(Advance(p))
  /\ WF_vars(Readers /\ ~reading')

FairSpec == Spec /\ Fairness

-----------------------------------------------------------------------------
(* Properties *)

\* Every variable keeps its type.
TypeOK ==
  /\ stage \in [Procs -> {"schema", "create", "usage", "granting usage",
                       "grant", "granting", "load", "serving"}]
  /\ pc \in [Procs -> {"down", "check", "poll", "ledger", "step", "drop",
                       "create", "build", "record", "migrated"}]
  /\ lock \in Procs \cup {NoProc}
  /\ \A p \in Procs : pkg[p] \in DOMAIN Packages /\ at[p] \in 1 .. Len(Steps(p)) + 1
  /\ \A p \in Procs : tries[p] < GuardAttempts
  /\ ddl \in [Procs -> Nat]
  /\ role \in BOOLEAN /\ usage \in BOOLEAN /\ granted \subseteq ServeSet
  /\ left \in [Procs -> SUBSET ServeSet]
  /\ mount \in [Procs -> [Files -> Contents]]
  /\ applied \in [Procs -> [Files -> Versions \cup {NoFile}]]
  /\ pending \in [Procs -> {<<>>} \cup Files \X Versions]
  /\ row \in Versions \cup {NoFile}

\* A replica that serves finds its own release in the database: every step is
\* recorded under its own SQL, as edited history stops the boot, and the role
\* of delivery may use the schema and read every table of the set its plan creates; races of
\* replicas and crashes end boots, never weaken them (main.go:251-306,
\* schemastep.go:180-196, serveset.go:60-108).
ServesItsRelease ==
  \A p \in Procs : At(p, "serving") =>
    /\ role /\ usage
    /\ \A k \in PackageSet : \A n \in DOMAIN plan[p][k] :
         /\ ledger[k][n] # NoSum
         /\ plan[p][k][n].kind # "batch" => ledger[k][n] = Sum(plan[p][k][n])
         /\ plan[p][k][n].creates \cap ServeSet \subseteq granted

\* A poll of the process would find nothing to do.
Settled(p) ==
  At(p, "serving") /\ pending[p] = <<>> /\ Parsed(p) # {} /\ ~Changed(p)

\* When every mount holds the same definition and no loader has work left,
\* the row is that definition, however the mounts lagged, the upserts raced
\* and the processes restarted.  A definition that moved between file names
\* is the exception: what was applied from a name is never forgotten
\* (loader.go:125-162).
MountsAgreeThenRow ==
  ~moved /\ (\A p \in Procs : Settled(p)) =>
    \A v \in Versions :
      (\A p \in Procs : mount[p][Taken(p)] = v) => row = v

\* The boot of p can succeed: its plans pass the check, other releases agree
\* with it, and the directory loads.
Bootable(p) ==
  /\ \A k \in PackageSet : Check(plan[p][k])
  /\ \A k \in PackageSet : \A n \in DOMAIN plan[p][k] : Agreed(k, n)
  /\ ~Rejected(p)

\* A replica that starts gets to serve, though replicas race for the lock and
\* the role, processes die and a long read holds up the guarded step (a
\* replica whose boot fails again and again may keep the lock from the
\* others' polls).
EveryBootServes ==
  \A p \in Procs :
    pc[p] = "down" ~> At(p, "serving") \/ \E q \in Procs : ~Bootable(q)
=============================================================================

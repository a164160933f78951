---------------------------- MODULE SchemaSteps ----------------------------
(***************************************************************************)
(* The migration runner of ocng: src/internal/schemastep.                  *)
(*                                                                         *)
(* Every process runs the plans of its packages at boot, one package after *)
(* the other.  Run takes a session lock by polling, reads the ledger of    *)
(* applied steps once, and applies the steps the ledger does not have.     *)
(* Processes of different releases boot at the same time with different    *)
(* plans.                                                                  *)
(*                                                                         *)
(* An action is one SQL statement or transaction with the Go code up to    *)
(* the next one.  A process that gets an error exits, as one that crashes  *)
(* does; its session dies with it and gives the lock back.  A statement    *)
(* that was under way when its process died may still take effect: that is *)
(* the statement's action followed by the crash.                           *)
(***************************************************************************)
EXTENDS Integers, Sequences, FiniteSets

CONSTANTS
  Procs,          \* the processes that boot
  Packages,       \* the packages of main.go, as a sequence
  Plans,          \* the plans a set of processes may be released with
  ServeSet,       \* serveset.Tables
  GuardAttempts,  \* guardAttempts
  MaxFaults,      \* bound: crashes, failed statements and long readers
  NoProc,         \* nobody holds the advisory lock
  NoSum           \* the ledger has no row for the step

PackageSet == {Packages[i] : i \in DOMAIN Packages}

\* A transactional step, a guarded one, a concurrent index, a batched one.
Kinds == {"tx", "guarded", "index", "batch"}

ASSUME ProcsAssumption == Procs # {} /\ NoProc \notin Procs
ASSUME PackagesAssumption ==
  /\ Len(Packages) \in Nat \ {0}
  /\ DOMAIN Packages = 1 .. Len(Packages)
\* The SQL of a step is a sequence of statements; only a batched step has none.
IsStep(s) ==
  /\ s.kind \in Kinds
  /\ s.sql \notin {"", NoSum}
  /\ Len(s.stmts) \in Nat
  /\ DOMAIN s.stmts = 1 .. Len(s.stmts)
  /\ \A i \in DOMAIN s.stmts :
       /\ Len(s.stmts[i].acts) \in Nat
       /\ DOMAIN s.stmts[i].acts = 1 .. Len(s.stmts[i].acts)

\* A plan is a sequence of steps.
ASSUME PlansAssumption ==
  /\ NoSum # ""
  /\ \A release \in Plans : \A p \in Procs : \A k \in PackageSet :
       /\ Len(release[p][k]) \in Nat
       /\ DOMAIN release[p][k] = 1 .. Len(release[p][k])
       /\ \A n \in DOMAIN release[p][k] : IsStep(release[p][k][n])
ASSUME GuardAssumption == GuardAttempts \in Nat \ {0}
ASSUME FaultsAssumption == MaxFaults \in Nat

-----------------------------------------------------------------------------
(* The static check of a plan: classify.go *)

\* A statement is a record [verb, table, acts]: acts are the sub-actions of an
\* ALTER TABLE in their order, and table is "" where the classifier derives none.
\* What the regular expressions find in the text of a sub-action.  They do not
\* see that a type is serial or a column generated, that a default goes on
\* after its first literal, or that a column comes with a constraint.
Features(act) ==
  CASE act \in {"add column", "add column serial", "add column unique",
                "add column check"}
         -> {"addColumn"}
    [] act \in {"add column constant", "add column computed"}
         -> {"addColumn", "default", "constant"}
    [] act = "add column volatile" -> {"addColumn", "default"}
    [] act = "set default"         -> {"setDefault", "default", "constant"}
    [] act = "add check"           -> {"addConstraint"}
    [] act = "add check not valid" -> {"addConstraint", "notValid"}
    [] act = "add unique using index" -> {"addConstraint", "usingIndex"}
    [] OTHER                       -> {act}

\* classifyAlterAction: the first expression that matches anywhere decides.
FirstMatch(has) ==
  CASE has \cap {"alter type", "set not null", "drop column", "rename"} # {}
         -> "rewrite"
    [] has \cap {"validate", "add foreign key"} # {} -> "safe"
    [] "addConstraint" \in has ->
         IF has \cap {"notValid", "usingIndex"} # {} THEN "metadata" ELSE "rewrite"
    [] "addColumn" \in has ->
         IF "default" \in has /\ "constant" \notin has
         THEN "rewrite" ELSE "metadata"
    [] has \cap {"drop constraint", "setDefault"} # {} -> "metadata"
    [] OTHER -> "unknown"

\* Only ADD COLUMN and RENAME are looked for at the start of the text.
Found(acts) ==
  UNION {IF i = 1 THEN Features(acts[i]) ELSE Features(acts[i]) \ {"addColumn", "rename"} :
           i \in DOMAIN acts}

AlterClass(acts) == FirstMatch(Found(acts))

\* ClassifyStatement: CREATE, DML and GRANT are reader-safe, TRUNCATE, CLUSTER
\* and DROP TABLE are not.
Class(s) ==
  CASE s.verb = "alter"        -> AlterClass(s.acts)
    [] s.verb = "destroy"      -> "rewrite"
    [] s.verb = "drop trigger" -> "metadata"
    [] s.verb = "other"        -> "unknown"
    [] OTHER                   -> "safe"

OffSet(s) == s.table # "" /\ s.table \notin ServeSet

PermittedGuardless(kind, s) ==                                   \* mutant
  CASE Class(s) = "safe"     -> TRUE
    [] Class(s) = "metadata" -> s.table # ""
    [] OTHER                 -> OffSet(s)

\* What Check says of one statement of a transactional step.
Permitted(kind, s) ==
  CASE Class(s) = "safe"     -> TRUE
    [] Class(s) = "metadata" -> s.table # "" /\ (OffSet(s) \/ kind = "guarded")
    [] OTHER                 -> OffSet(s)

\* Check: batched steps carry no SQL, a concurrent index step only its CREATE
\* INDEX CONCURRENTLY.
Check(steps) ==
  \A n \in DOMAIN steps : \A i \in DOMAIN steps[n].stmts :
    CASE steps[n].kind = "batch" -> TRUE
      [] steps[n].kind = "index" -> steps[n].stmts[i].verb = "create index"
      [] OTHER -> Permitted(steps[n].kind, steps[n].stmts[i])

\* The lock a statement takes, by the database's own documentation
\* (READSET.md): none that conflicts with a read, ACCESS EXCLUSIVE for a
\* moment, or ACCESS EXCLUSIVE for a rewrite or a scan.
Overlooked ==
  {"add column serial", "add column computed", "add column unique",
   "add column check"}

TrueClass(s) ==
  CASE s.verb = "alter" ->
         IF \E i \in DOMAIN s.acts :
              s.acts[i] \in Overlooked \cup {"alter type", "set not null", "rename",
                "drop column", "add column volatile", "add check"}
         THEN "rewrite"
         ELSE IF \A i \in DOMAIN s.acts : s.acts[i] \in {"validate", "add foreign key"}
              THEN "safe" ELSE "metadata"
    [] s.verb \in {"destroy", "other"} -> "rewrite"
    [] s.verb = "drop trigger" -> "metadata"
    [] OTHER -> "safe"

\* The statement locks the readers of the serve-read set out.
ShutsOut(s) == s.table \in ServeSet /\ TrueClass(s) # "safe"

-----------------------------------------------------------------------------
(* State *)

VARIABLES
  plan,    \* the plan each process was built with: Procs -> package -> steps
  (* the database *)
  lock,    \* the process whose session holds the advisory lock
  ledger,  \* schema_migration: package -> step -> sha256 of the SQL, or NoSum
  schema,  \* package -> step -> what the step's statement left behind
  built,   \* package -> step -> the SQL that left it
  ran,     \* history: how often the step's statement took effect
  reading, \* a transaction holds ACCESS SHARE on the serve-read set
  (* each process *)
  pc,
  pkg,     \* index in Packages
  known,   \* the applied map: the ledger as read at the start of Run
  at,      \* position in the plan
  tries,   \* attempts of the guarded step
  ddl,     \* statements of the step its open transaction has executed
  (* bound *)
  faults

database == <<lock, ledger, schema, built, ran, reading>>
process == <<pc, pkg, known, at, tries, ddl>>
svars == <<plan, database, process, faults>>

Steps(p) == plan[p][Packages[pkg[p]]]
Current(p) == Steps(p)[at[p]]
Numbers == UNION {DOMAIN plan[p][k] : p \in Procs, k \in PackageSet}

\* stepSHA: a batched step has none, so its key in the ledger is enough.
Sum(s) == IF s.kind = "batch" THEN "" ELSE s.sql

SInit ==
  /\ plan \in Plans
  /\ lock = NoProc
  /\ ledger = [k \in PackageSet |-> [n \in Numbers |-> NoSum]]
  /\ schema = [k \in PackageSet |-> [n \in Numbers |-> "absent"]]
  /\ built = [k \in PackageSet |-> [n \in Numbers |-> NoSum]]
  /\ ran = [k \in PackageSet |-> [n \in Numbers |-> 0]]
  /\ reading = FALSE
  /\ pc = [p \in Procs |-> "down"]
  /\ pkg = [p \in Procs |-> 1]
  /\ known = [p \in Procs |-> [n \in Numbers |-> NoSum]]
  /\ at = [p \in Procs |-> 1]
  /\ tries = [p \in Procs |-> 0]
  /\ ddl = [p \in Procs |-> 0]
  /\ faults = 0

-----------------------------------------------------------------------------
(* Run *)

\* The local variables of Run go with the call, and so does an open transaction.
RunReturns(p) ==
  /\ known' = [known EXCEPT ![p] = [n \in Numbers |-> NoSum]]
  /\ at' = [at EXCEPT ![p] = 1]
  /\ tries' = [tries EXCEPT ![p] = 0]
  /\ ddl' = [ddl EXCEPT ![p] = 0]

ExitHolding(p) ==                                                \* mutant
  /\ pc' = [pc EXCEPT ![p] = "down"]
  /\ pkg' = [pkg EXCEPT ![p] = 1]
  /\ UNCHANGED lock
  /\ RunReturns(p)

\* The process exits: main returns the error, or it crashed.
Exit(p) ==
  /\ pc' = [pc EXCEPT ![p] = "down"]
  /\ pkg' = [pkg EXCEPT ![p] = 1]
  /\ lock' = IF lock = p THEN NoProc ELSE lock
  /\ RunReturns(p)

Goto(p, label) ==
  pc' = [pc EXCEPT ![p] = label] /\ UNCHANGED <<pkg, known>>

\* The deployment starts the process (again).
Start(p) ==
  /\ pc[p] = "down"
  /\ pc' = [pc EXCEPT ![p] = "check"]
  /\ UNCHANGED <<plan, database, pkg, known, at, tries, ddl, faults>>

\* Run refuses a plan that fails Check before it takes a connection.
CheckPlan(p) ==
  /\ pc[p] = "check"
  /\ IF Check(Steps(p)) THEN Goto(p, "poll") /\ UNCHANGED <<lock, at, tries, ddl>>
                        ELSE Exit(p)
  /\ UNCHANGED <<plan, ledger, schema, built, ran, reading, faults>>

\* pg_try_advisory_lock returns true; while it returns false Run sleeps.
TryLock(p) ==
  /\ pc[p] = "poll"
  /\ lock = NoProc
  /\ lock' = p
  /\ Goto(p, "ledger")
  /\ UNCHANGED <<plan, ledger, schema, built, ran, reading, at, tries, ddl, faults>>

\* The ledger's DDL, then the applied map: read once, before the first step.
ReadLedger(p) ==
  /\ pc[p] = "ledger"
  /\ pc' = [pc EXCEPT ![p] = "step"]
  /\ known' = [known EXCEPT ![p] = ledger[Packages[pkg[p]]]]
  /\ UNCHANGED <<plan, database, pkg, at, tries, ddl, faults>>

AtStep(p) == pc[p] = "step" /\ at[p] <= Len(Steps(p))
Applied(p) == known[p][at[p]] # NoSum

Edited(p) == Current(p).kind # "batch" /\ known[p][at[p]] # Sum(Current(p))

\* An applied step is skipped without a statement ...
SkipStep(p) ==
  /\ AtStep(p) /\ Applied(p) /\ ~Edited(p)
  /\ at' = [at EXCEPT ![p] = @ + 1]
  /\ UNCHANGED <<plan, database, pc, pkg, known, tries, ddl, faults>>

\* ... unless its SQL is not the one the ledger has: the boot fails.
RefuseEdited(p) ==
  /\ AtStep(p) /\ Applied(p) /\ Edited(p)
  /\ Exit(p)
  /\ UNCHANGED <<plan, ledger, schema, built, ran, reading, faults>>

Transactional(p) == Current(p).kind \in {"tx", "guarded"}

Statements(p) == Current(p).stmts

\* ACCESS EXCLUSIVE on a table of the set waits for its readers.
Blocked(p) ==
  /\ reading
  /\ ddl[p] < Len(Statements(p))
  /\ ShutsOut(Statements(p)[ddl[p] + 1])

Apply(p, left) ==
  LET k == Packages[pkg[p]] IN
  /\ schema' = [schema EXCEPT ![k][at[p]] = left]
  /\ built' = [built EXCEPT ![k][at[p]] = Sum(Current(p))]
  /\ ran' = [ran EXCEPT ![k][at[p]] = @ + 1]

Record(p) ==
  ledger' = [ledger EXCEPT ![Packages[pkg[p]]][at[p]] = Sum(Current(p))]

Unrecorded(p) == ledger' = ledger

\* runTxDDL executes the statements of the step one after the other in one
\* transaction, which keeps their locks; nobody else sees them yet.
RunStatement(p) ==
  /\ AtStep(p) /\ ~Applied(p) /\ Transactional(p) /\ ~Blocked(p)
  /\ ddl[p] < Len(Statements(p))
  /\ ddl' = [ddl EXCEPT ![p] = @ + 1]
  /\ UNCHANGED <<plan, database, pc, pkg, known, at, tries, faults>>

\* The statements and the ledger row of the step commit together.
RunTxDDL(p) ==
  /\ AtStep(p) /\ ~Applied(p) /\ Transactional(p)
  /\ ddl[p] = Len(Statements(p))
  /\ ledger[Packages[pkg[p]]][at[p]] = NoSum    \* unique (package, step)
  /\ Apply(p, "done")
  /\ Record(p)
  /\ at' = [at EXCEPT ![p] = @ + 1]
  /\ tries' = [tries EXCEPT ![p] = 0]
  /\ ddl' = [ddl EXCEPT ![p] = 0]
  /\ UNCHANGED <<plan, lock, reading, pc, pkg, known, faults>>

LockTimeoutLate(p) ==                                            \* mutant
  /\ AtStep(p) /\ ~Applied(p) /\ Current(p).kind = "guarded" /\ Blocked(p)
  /\ \/ /\ tries[p] < GuardAttempts
        /\ tries' = [tries EXCEPT ![p] = @ + 1]
        /\ ddl' = [ddl EXCEPT ![p] = 0]
        /\ UNCHANGED <<lock, pc, pkg, known, at>>
     \/ tries[p] = GuardAttempts /\ Exit(p)
  /\ UNCHANGED <<plan, ledger, schema, built, ran, reading, faults>>

\* A guarded step gives up its place in the lock queue after lock_timeout,
\* rolls back what it has executed and tries again, guardAttempts times in all;
\* then the boot fails.
LockTimeout(p) ==
  /\ AtStep(p) /\ ~Applied(p) /\ Current(p).kind = "guarded" /\ Blocked(p)
  /\ \/ /\ tries[p] + 1 < GuardAttempts
        /\ tries' = [tries EXCEPT ![p] = @ + 1]
        /\ ddl' = [ddl EXCEPT ![p] = 0]
        /\ UNCHANGED <<lock, pc, pkg, known, at>>
     \/ tries[p] + 1 >= GuardAttempts /\ Exit(p)
  /\ UNCHANGED <<plan, ledger, schema, built, ran, reading, faults>>

AfterLookExists(state) ==                                        \* mutant
  IF state = "absent" THEN "create" ELSE "record"

\* runConcurrentIndex looks what is there under the step's name: what it does
\* with an index that is absent, invalid or valid.
AfterLook(state) ==
  CASE state = "invalid" -> "drop"
    [] state = "absent"  -> "create"
    [] OTHER             -> "record"

LookIndex(p) ==
  /\ AtStep(p) /\ ~Applied(p) /\ Current(p).kind = "index"
  /\ Goto(p, AfterLook(schema[Packages[pkg[p]]][at[p]]))
  /\ UNCHANGED <<plan, database, at, tries, ddl, faults>>

\* DROP INDEX takes ACCESS EXCLUSIVE on the table of the index.  It is not
\* CONCURRENTLY and has no lock_timeout: it waits for the readers of the table.
DropIndex(p) ==
  /\ pc[p] = "drop"
  /\ ~(reading /\ Statements(p)[1].table \in ServeSet)
  /\ schema' = [schema EXCEPT ![Packages[pkg[p]]][at[p]] = "absent"]
  /\ Goto(p, "create")
  /\ UNCHANGED <<plan, lock, ledger, built, ran, reading, at, tries, ddl, faults>>

\* CREATE INDEX CONCURRENTLY commits the index as INVALID first ...
CreateIndex(p) ==
  /\ pc[p] = "create"
  /\ schema[Packages[pkg[p]]][at[p]] = "absent"
  /\ schema' = [schema EXCEPT ![Packages[pkg[p]]][at[p]] = "invalid"]
  /\ Goto(p, "build")
  /\ UNCHANGED <<plan, lock, ledger, built, ran, reading, at, tries, ddl, faults>>

\* ... and as valid when the build is through.
IndexBuilt(p) ==
  /\ pc[p] = "build"
  /\ Apply(p, "valid")
  /\ Goto(p, "record")
  /\ UNCHANGED <<plan, lock, ledger, reading, at, tries, ddl, faults>>

\* The batch that reports done.  Those before it commit on their own, leave
\* the step where it is, and a later run starts over from the first.
RunBatch(p) ==
  /\ AtStep(p) /\ ~Applied(p) /\ Current(p).kind = "batch"
  /\ Apply(p, "done")
  /\ Goto(p, "record")
  /\ UNCHANGED <<plan, lock, ledger, reading, at, tries, ddl, faults>>

\* recordStep: insert ... on conflict do nothing.
RecordStep(p) ==
  /\ pc[p] = "record"
  /\ IF ledger[Packages[pkg[p]]][at[p]] = NoSum THEN Record(p) ELSE Unrecorded(p)
  /\ Goto(p, "step")
  /\ at' = [at EXCEPT ![p] = @ + 1]
  /\ UNCHANGED <<plan, lock, schema, built, ran, reading, tries, ddl, faults>>

\* All steps done: the lock is given back; main goes on to the next package.
EndRun(p) ==
  /\ pc[p] = "step" /\ at[p] > Len(Steps(p))
  /\ lock' = NoProc
  /\ IF pkg[p] < Len(Packages)
       THEN /\ pc' = [pc EXCEPT ![p] = "check"]
            /\ pkg' = [pkg EXCEPT ![p] = @ + 1]
       ELSE pc' = [pc EXCEPT ![p] = "migrated"] /\ UNCHANGED pkg
  /\ RunReturns(p)
  /\ UNCHANGED <<plan, ledger, schema, built, ran, reading, faults>>

\* A statement fails or the process crashes.
Die(p) ==
  /\ pc[p] # "down" /\ faults < MaxFaults
  /\ faults' = faults + 1
  /\ Exit(p)
  /\ UNCHANGED <<plan, ledger, schema, built, ran, reading>>

\* The transaction of p holds a lock that keeps the readers of the set out.
Holds(p) == AtStep(p) /\ \E i \in 1 .. ddl[p] : ShutsOut(Statements(p)[i])

\* A transaction reads the serve-read set for longer than lock_timeout.  A
\* read that finds the set locked, or such a lock waited for, queues.
LongRead ==
  /\ ~reading /\ faults < MaxFaults
  /\ \A p \in Procs : ~Holds(p)
  /\ reading' = TRUE
  /\ faults' = faults + 1
  /\ UNCHANGED <<plan, lock, ledger, schema, built, ran, process>>

ReadEnds ==
  /\ reading
  /\ reading' = FALSE
  /\ UNCHANGED <<plan, lock, ledger, schema, built, ran, process, faults>>

Run(p) ==
  \/ CheckPlan(p) \/ TryLock(p) \/ ReadLedger(p)
  \/ SkipStep(p) \/ RefuseEdited(p) \/ RunStatement(p) \/ RunTxDDL(p) \/ LockTimeout(p)
  \/ LookIndex(p) \/ DropIndex(p) \/ CreateIndex(p) \/ IndexBuilt(p)
  \/ RunBatch(p) \/ RecordStep(p) \/ EndRun(p)

SNext ==
  \/ \E p \in Procs : Start(p) \/ Run(p) \/ Die(p)
  \/ LongRead \/ ReadEnds

SSpec == SInit /\ [][SNext]_svars

-----------------------------------------------------------------------------
(* Properties *)

\* Whatever step a developer adds to a plan, nobody keeps the readers of the
\* serve-read set out, waiting for a lock or holding one, but a guarded step,
\* which gives up after lock_timeout and rolls back; and for a rewrite or a scan
\* only where the classifier overlooks it.  A guarded step of several statements
\* keeps its lock through the later ones, whatever they are.  The statements are
\* those of Check (classify.go:250-303, schemastep.go:209-253): an ALTER of
\* several sub-actions, where one expression decides for all of them, and the
\* drop of an invalid index (schemastep.go:301) are outside.
ReadersNeverStalled ==
  \A p \in Procs : AtStep(p) /\ ~Applied(p) /\ Transactional(p) =>
    \A i \in DOMAIN Statements(p) :
      LET s == Statements(p)[i] IN
      i <= ddl[p] + 1 /\ ShutsOut(s) /\ Len(s.acts) <= 1 =>
        /\ Current(p).kind = "guarded"
        /\ TrueClass(s) = "rewrite" =>
             s.verb = "alter" /\ \A j \in DOMAIN s.acts : s.acts[j] \in Overlooked

\* The releases that boot agree on the step (an edited step is the exception).
Agreed(k, n) ==
  \A p, q \in Procs :
    n \in DOMAIN plan[p][k] /\ n \in DOMAIN plan[q][k]
      => plan[p][k][n] = plan[q][k][n]

\* The ledger tells the truth about the schema, across crashes and racing
\* releases: a recorded step took effect exactly once and left what it should
\* leave (an index that is valid), with the SQL that is recorded; a
\* transactional step that is not recorded left nothing.  An index found valid
\* is recorded under the SQL of the process that finds it, so the SQL agrees
\* only as far as the releases do (schemastep.go:215-331).
LedgerTruthful ==
  \A k \in PackageSet : \A n \in Numbers :
    /\ ledger[k][n] # NoSum =>
         /\ schema[k][n] \in {"done", "valid"}
         /\ schema[k][n] = "valid" => ran[k][n] = 1
         /\ Agreed(k, n) => ledger[k][n] = built[k][n]
    /\ schema[k][n] = "invalid" => ledger[k][n] = NoSum
    /\ \A p \in Procs :
         /\ n \in DOMAIN plan[p][k] /\ Agreed(k, n)
         /\ plan[p][k][n].kind \in {"tx", "guarded"}
         => ran[k][n] = IF ledger[k][n] = NoSum THEN 0 ELSE 1
=============================================================================

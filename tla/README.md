# A TLA+ model of ocng

ocng is a video management system in Go: replicas of `ocng-core` serve the REST
surfaces and orchestrate workflows, `ocng-worker` processes run the heavy
operations, Postgres holds all state and an S3 store holds the bytes, addressed
by their digest. No process talks to another one. Everything they agree on,
they agree on through rows, and most of what can go wrong lies between two SQL
statements. The modules here model those statements; TLC checks small
instances of them, and TLAPS proves the main invariants for all of them.

## Reading order

| module | what it is |
|---|---|
| `WorkflowAbs` | what the engine promises of a workflow, in fifty lines |
| `Engine` | orchestrator pass, task lifecycle, crashes (`internal/engine`, `cmd/ocng-core`) |
| `Fanout` | the resident worker, composed with `Engine` (`internal/worker`) |
| `Content` | the transactions that write an event, and its search projection |
| `Visibility` | who sees an event and who gets its bytes, over the rows of `Content` (`search/query`, `serve`, `searchapi`, `acl`) |
| `Collector` | the content store and its mark-sweep collector (`internal/cas`, `internal/gc`) |
| `SchemaSteps` | the migration runner (`internal/schemastep`) |
| `Boot` | the boot of a core replica and the definitions loader, composed with `SchemaSteps` (`cmd/ocng-core`, `internal/serveset`, `internal/definitions`) |
| `Migrate` | the resumable import of a legacy instance (`cmd/ocng-migrate`, `internal/migrate`) |
| `Launch` | LTI login and launch, bearers, key caches, sessions (`internal/lti`, `jose`, `oidcauth`, `authn`) |
| `EngineProofs`, `WorkflowProofs` | leases, exactly-once, fencing, `Engine` implements `WorkflowAbs` |
| `FanoutProofs` | the ledger of a worker balances, `Fanout` implements `Engine` |
| `CollectorProofs` | an undisturbed sweep never takes an object in use |
| `ContentProofs` | the order of locks, complete publications, the projection is a rebuild's, and what that means for readers |
| `BootProofs` | the ledger is truthful, who may keep readers out, who serves is migrated, the row of a definition |
| `LaunchProofs` | one launch per login, rollovers succeed, trust in a withdrawn key ends |
| `MigrateProofs` | a run that ends accounts for its export, links and policies are kept, a re-run is quiet |
| `MC*` | the definitions the `.cfg` files give the constants |

Run a configuration with `tlc -config MCEngine_mixed.cfg MCEngine`, check a
proof module with `tlapm BootProofs.tla`. `PROJECT.json` maps every definition
to the lines it models and lists runs, mutants, findings, hazards and theorems.

Definitions marked `mutant` are wrong on purpose: each is the definition below
it with a plausible bug, and no action uses it. Put in the place of the right
one, it makes TLC report the property `PROJECT.json` names, which shows that
the property has teeth.

## Inventory

### Workflow engine (`internal/engine`) - modelled

*State*: tables `workflow` (state, current_op) and `task` (state, owner,
attempt, lease_expires); the definition is jsonb in the workflow row.
*Operations*: CreateWorkflow; Step = reap expired leases, fail exhausted tasks,
provision what was reaped, advance, fail workflows, assign, provision what was
created; StartTask, RenewLease, CompleteTask, FailTask; failUnrunnable.
*Interactions*: every core replica runs Step on a 500 ms ticker; workers read
ASSIGNED rows and call ExecuteTask; inline operations run as goroutines of
the replica that provisioned them; a mutation commits in CompleteTask's
transaction. *Hard*: two replicas in Step, statements that re-evaluate after a
lock wait, executions that outlive their lease, a process that dies anywhere.
*Correct means*: one winner per attempt; a mutation takes effect exactly once;
an execution that lost its lease can write nothing; the workflow row follows its tasks; an end is
final; every workflow ends.

### Workers (`internal/worker`, `cmd/ocng-worker`) - the loop is modelled

*State*: per process, the admission ledger, a semaphore of slots, the inflight
and cooldown maps; all lost in a crash. *Operations*: poll, admit or skip a
candidate, run, release, free the slot, forget. *Hard*: candidates are stale
when admitted; a goroutine cleans up in three steps while the loop admits.
*Correct means*: what runs fits; nothing leaks; it only does what the engine allows.

### Event, policies and projection (`mediapackage`, `acl`, `ops`, `search/project.go`, writers of `adminapi`) - modelled

*State*: mediapackage, mp_element, mp_snapshot, publication(+_element), series,
acl_policy/acl_entry, and the derived search_event and search_series.
*Operations*: Materialise, SetACL, SetSeriesACL, SetEventDC, PutSeries,
TombstoneEvent, TombstoneSeries, and the mutations of the inline operations
(snapshot, publish-configure) and of a worker's encode and inspection. Each ends in ProjectEvent or
ProjectSeries in the same transaction (encode and snapshot, which the
projection does not show, excepted). *Hard*: READ COMMITTED; upserts that compute a
row, then wait, then write it; lock orders; reads before the transaction.
*Correct means*: the projection is what a rebuild gives; publications name
existing elements; versions are unique; no deadlock but the two that are known.

### Content store and collector (`internal/cas`, `internal/gc`) - modelled

*State*: objects by digest in S3, the ledger cas_gc_candidate, the references in
mp_element, mp_snapshot and migration_url_map. *Operations*: PutFile (a head request,
then a put), Sweep (mark set, listing, one visit per object: observe, age,
recheck, delete, forget). *Hard*: no transaction spans the store and the
database; the mark set is old when it is used; replicas sweep at once; a sweep dies in the middle.
*Correct means*: no object in use is deleted; the grace is kept.

### Readers of an event (`search/query.go`, `serve`, `searchapi`, `acl.Evaluate`) - their decisions are modelled

*State*: none of their own. The listings read the projection and the roles
pruned to the policies' vocabulary; the manifest reads projection and pins;
the delivery reads the pins of the moment, one per channel; the editors read the policy.
*Hard*: three answers from different rows, through every retraction, policy
change and deletion. *Correct means*: what is listed is delivered; what a policy
grants is listed; nothing is left of a deleted event.

### Boot: schema steps, delivery role, definitions (`schemastep`, `serveset`, `definitions`, `run` in `cmd/ocng-core`) - modelled

*State*: schema_migration, the schema itself, a session lock, the role
ocng_serve and its grants, workflow_definition; per process the ledger as read,
the position in the plan, what its loader applied. *Operations*: Check, Run with
its four kinds of steps, EnsureRole, LoadOnce, the loader's poll and upsert.
*Hard*: replicas of different releases boot together; a boot dies inside a concurrent
index build; a reader outlasts a guarded step; mounts lag behind each other.
*Correct means*: the ledger says what the schema has; nothing but a guarded step keeps the
readers of delivery out; who serves has all of its release; mounts that agree decide the row.

### Import (`internal/migrate`, `cmd/ocng-migrate`) - modelled

*State*: the target's tables and objects, the url map, the run's report. *Operations*:
one run: series, events, policies, versions, links, elements, publications, each a
call or statement of its own. *Hard*: a run dies anywhere and is
repeated, with the same export or a later one. *Correct means*: what is not migrated
is held by name; nothing names bytes that are not stored; a link keeps its
content; a run after a complete one changes nothing.

### Sign-in (`lti`, `jose`, `oidcauth`, `authn`) - the paths through shared state are modelled

*State*: lti_flow in the database; a key cache and a discovered issuer per replica;
cookies and tokens at the browser. *Operations*: login, launch, bearer, fetch, spend, mint a
session. *Hard*: one form posted twice, at once, to two replicas; a key
that is rolled over or withdrawn while caches hold copies. *Correct means*: a login
is good for one launch in its time; a rollover rejects nobody; the trust in a withdrawn key ends.

### Not modelled, and why

- The deposit protocol (`ingest` requests, `adminapi.eventNew`, `seriesNew`): several
  requests over one growing manifest, then Materialise and CreateWorkflow in
  separate transactions. What they commit is in `Content` and `Engine`, the age of
  staged bytes in `Collector`; the parsing and merging of manifests between them is text processing.
- Edits of single metadata fields (read, merge, write back in two
  transactions): the catalog's fields are abstracted to the series.
- The registry cache of definitions (a TTL over one select), `config` (one pass over the environment),
  `coreinfo`, `watchpage` (constant documents), `deploy` (containers and samples), the Kubernetes
  adapter of `provision` (renders a job; its API is not in the repository).
- Byte ranges, validators, paging, sorting, full text and the rendering of JSON and XML:
  functions of one request whose detail no property tells apart.
- Signatures, encodings and password hashes; the bodies of ffmpeg and whisper operations.

## How the models correspond to the code

**Engine.** A row of `task` is the entry of `state`, `owner`, `attempt`,
`expired` for a pair <<workflow, index>>; it is absent while its state is
"none". Each statement of Step is an action of a replica, whose position is `opc`.
`advance` and `assign` are two actions: what the statement matches under its
snapshot (`AdvanceScan`, `AssignScan`), and what it writes after re-evaluating
its condition on the locked row (`AdvanceApply`) or after `on conflict do
nothing` (`AssignInsert`). An execution is named <<process, task, attempt it
read>>; `pc` is its position in ExecuteTask, and its owner string is what the code
builds: one per execution in core, one per task in a worker process, one for all of
failUnrunnable. `won` is history: the attempt at which the execution won
StartTask. `lease_expires < now()` is one bit per row, which may become true
at any moment, also just before a renewal or a completion. Crash forgets a
process; StepError and ExecError fail any statement; both are bounded by
`MaxFaults`. Times (lease length, ticker) are not modelled: nothing the checks
say depends on them.

**WorkflowAbs.** One workflow is "none", RUNNING, SUCCEEDED or FAILED, and each of
its operations has taken effect a number of times: an effect happens once, in
order, while it runs; it succeeds when all have, and fails otherwise.
Engine implements it with `done` = the length of `effects`.

**Fanout.** `Poll`, then one `Skip` or `Admit` per candidate, in any order (the
code's order is by id, and each poll reads at most 50 rows; the model admits in
every order and any subset, so it has those behaviours and more). An iteration
is one step, because concurrent goroutines only give back. `Release`,
`FreeSlot`, `Forget` are the three deferred clean-ups. Everything else is an
action of `Engine`, and `ImplementsEngine` says that a worker's Admit is
nothing but the engine's Discover.

**Content.** `db` holds the committed rows of all tables under keys
<<table, id>>; a session is a transaction: the statements it still has to run
(`todo`), the rows it wrote (`writes`), the element rows it references
(`shares`). A statement reads `View`: committed rows overlaid with its own.
It waits while another transaction has written its row. An `insert ... on conflict do
update` whose values are computed by its own subselect is two actions,
compute and put. Each request reads what its handler reads before it opens
the transaction. A policy is a set of entries <<role, action, allow>>, and the projection has an
array of roles per action. An event has a publication for each of two channels, the portal's
(engage-player), whose pin is projected, and another one, which stands for any number: `published` counts both.
An inspection writes the probed elements in any order (the code ranges over a map), then the
mediapackage row, where whether the duration is null is left open, then projects.
Abstracted: descriptive columns and the full text, manifests' bytes, seriesNew (a
series of its own with nothing to race for), the row of mp_metadata (in ocng-core only SetEventDC writes
it, with the mediapackage row locked before) and key-share locks on the
mediapackage row: the only statement they conflict with is the `for update`
of snapshot, which comes first in its transaction and holds nothing else while it waits.
`delete from mp_element_tag using mp_element` locks the tags alone.

**Collector.** The writer's head, put and row are three actions, with any
delay up to `Gap` between put and row. A sweep is one action per statement or
request; `current` is the object it is at. The listing is read once: the S3
listing is paged and later pages are newer, but an object a page adds is younger
than the grace. Time is a counter; the rule the package states for operators (the
grace exceeds the longest gap) is the guard of `Tick` and the assumption
`Gap < Grace`.

**Visibility.** Predicates over the rows of `Content`, one per reader, for every
principal: any set of roles, any direct grants, admin or not. No reader changes
a row. `ListedOnAPI`, `ListedOnAdmin` and `ListedOnEngage` are the three surfaces of Events;
`Authorized` decides by the pin of one channel, and a delivery by any channel that has the element. `Evaluate` takes
the action as its argument, as the code's does, though its only callers ask for "write"
(adminapi/write.go:120, 139); `GrantedIsListed` asks it for "read" too, as the reference the projected array is held to.
The properties are invariants of Content's run.

**SchemaSteps and Boot.** `plan[p]` is the release a process was built with. A step has a sequence of
statements, each a verb, a table and the sub-actions of its ALTER; `Features` is what the regular expressions
find in the text of a sub-action, right or not (a serial or computed column, or one with a constraint of its own, looks like any
other), `Class` the classifier with its first-match rule, `TrueClass` what the database does. A transactional step is one
action per statement (`ddl` counts them) and a commit with its ledger row; its locks last to the end, and a
lock timeout rolls all of it back. `schema[k][n]` is what step
n of package k left: "absent", "invalid" or "valid" (an index), "done";
`built` its SQL, `ran` how often it took effect (both history). `known` is the applied
map, read once per run. `Exit` is every error: main returns it, the session
dies and its lock with it. `stage` is the position in `run` after the migrations. A grant or CREATE ROLE
that overlaps another's may fail, as the catalog's unique index makes it. One definition id stands for
all; a mount maps file names to contents. The batches of a batched step are
one action, the last; the earlier ones leave the step where it is.

**Migrate.** An export is a record of series, events with versions, and published
records. The process of a run is `pc`, the statement or call it does next, and `at`, the positions of its
loops: series, events, versions of an event, elements of a document (the latest version, a version or the
published record). Each action is one call or statement and says where the program goes on. Bytes
stand for their digest. Fetching, parsing and merging policies are operators over the export
(`ResolveArchiveACL`, `Pin`), which nothing of a run writes. `Fault` is a failed call or a crash;
`MaxRuns` runs follow each other over a history of exports.

**Launch.** The rows of `lti_flow` are `flow[kind][login]`, spent by a delete that returns
at most one row. A request is a record with the replica it is at and its position;
`set` is the copy of the cache it decides by, `keys` what a fetch brought. Signatures are the key id they name; other
claims pass or do not. `steady` and `stale` are history: which keys were published all the time
since the request began, and whether an issuer failed to answer meanwhile. Time is a
counter with a step per unit; `MaxFetch` bounds how long an exchange with an issuer takes.

## What is checked

| run | instance | shows |
|---|---|---|
| `engine_mixed` | 2 replicas, 1 worker, worker op then inline op | workflow follows tasks, implements `WorkflowAbs`, under interleaved passes |
| `engine_ends` | worker, inline and undecided op, 2 attempts, 1 fault, fairness | one winner, exactly once, fencing of lost leases; an end is final; every workflow ends |
| `fanout_slots` | 2 tasks that fit alone and not together, 1 crash | capacity, no leaks, implements `Engine` |
| `content_transactions` | 2 events, 2 series, 2 channels, 2 sessions, 3 transactions | serial projection, publications, versions, lock order; listed is delivered, granted is listed, deleted is gone |
| `collector_sweeps` | 2 writers, 2 replicas, grace 2, gap 1, time 4 | uploads survive, the grace restarts |
| `boot` | 2 replicas, 9 pairs of releases, 2 packages, each kind of step, 2 attempts of the guarded step, 1 fault, 1 edit of lagging mounts, fairness | ledger truthful, only guarded steps keep readers out, who serves is migrated, mounts decide the row, every boot gets to serve |
| `migrate` | 19 histories of exports, 3 runs, 2 faults, fairness | loss is reported, policies unanimous, named bytes stored, links kept, quiet re-runs, every run ends |
| `launch` | 2 logins posted twice, 2 replicas, 2 issuers, 3 keys, 1 rotation, 1 fault, time 3 | one launch per login, rollovers succeed, trust ends |
| `fanout_waits`, `content_drift`, `collector_replicas`, `migrate_held` | | findings, below |

*Why the bounds are enough.* Two replicas, workers, sessions or concurrent requests are
what a race needs: each hazard listed is between two actors over one row, and a
third adds no new kind of row. Two attempts show a row that was reaped with the execution
of the first still alive; `engine_ends` takes a crash or error at any of its
steps. In `Content` three
transactions let one commit between two statements of another and a third
begin in what they left; two member events of one series make lists with an order; a second series is one to move
to, and the policies tell read from write and an allowed role from a denied one. In
`Collector` one digest suffices, objects being independent but for the
order of visits; time 4 lets an object be put, observed, aged by the grace and
put again. In `Boot` the pairs of releases are old and new, new and edited, and old with each
proposal a developer may make: on and off the set, of two statements, of two sub-actions, and where the classifier errs;
a fault is a crash, a failed statement or a
long read, `MaxEdits` lets one mount change after both have loaded. With one fault an invalid index
and a long read do not meet, so the wait of DropIndex is not taken in the run; with two the instance passes too, in a time too long to
repeat.
In `Migrate` the histories hold each way a policy, a version, a published record or a series
can be wrong, one at a time, between an event of another organisation and a regular one, and one later
export that changes all of it; three runs make a crash, its repetition and a run after completion.
In `Launch` every TTL is one or two units and `MaxTime` is past all of them; `MaxPosts` = 2 makes the
double post; a third key and one rotation make a key the caches do not
know, or one they should not; `MaxFetch` is an operating assumption, since the fetches
have no timeout of their own. The theorems need none of these bounds, except
that they are bounds: `MaxFaults`, `MaxTime` and so on may be any number.

*Deadlock* is checked in `Engine`, `Fanout` and `Boot`, where executions, the ticker
and restarts never stop. `Content` runs out of transactions, `Collector` and `Launch` of time,
`Migrate` of runs, so their configurations switch it off; that no two *transactions*
wait for each other is the invariant `NoDeadlock`.

*Symmetry* is used in runs with no liveness property, over replicas, workers,
sessions, events, requests and logins, which no definition tells apart.

*Fairness.* `engine_ends`: `WF(Step(r))`, the ticker of main.go keeps
firing, and a pass runs to its end or fails; `WF(Expire(t))`, time
passes; `WF(Execute(x))`, a body returns, under its context. Nothing is assumed of workers: they
may never poll, in which case the reaper ends the workflow, and nothing is
assumed of renewals. `boot`: `WF(Advance(p))`, the deployment restarts a process that is down and
its statements return; a long read ends. TryLock gets weak fairness only, which is all a poll of a session lock
justifies, so EveryBootServes leaves out replicas whose own boot fails for ever and may keep the lock from the others.
`migrate`: `WF(Work)`, a run that was started goes on to its next statement; no run
has to be started. Faults are bounded everywhere; infinitely many could hold up anything.

### Findings: what the runs that expect a violation show

- `fanout_waits`: a task that waits for capacity does not "simply stay ASSIGNED"
  (fanout.go:15): the reaper counts its leases as attempts and fails it unstarted.
- `content_drift`: of two overlapping writers of one event, the later upsert writes a row
  computed before the first committed: the projection drifts (project.go:34).
- `collector_replicas`: between a sweep's delete of the object and of the
  ledger row, another replica may sweep bytes stored again (main.go:337).
- `migrate_held`: a series deleted softly is held and gets no row; an event that belongs to it
  fails the foreign key, and the run with it, though a hold "is a report, not a crash" (report.go:54).

The passing properties state what does hold in these places: `SerialProjection`
without overlap, `UploadsSurvive` without broken or overlapping sweeps, `RunAccountsForExport` for
every run that ends.

### Known divergences that no run checks

Met while modelling; each is as the code has it in the models, or named here because the models abstract it.

- *Engine, worker.* In claim mode the poll asks only for operations the worker implements
  (fanout.go:131), so the branch that should fail an unsupported operation loudly
  (worker.go:139) is not reached; the task expires lease by lease.
- *Projection.* Moving an event out of a series leaves the old series' row as it was
  (project.go:162, 273).
- *Deadlocks.* Two writers that reach the member events of a series in
  different orders may wait for each other (project.go:171). An inspection locks the elements of its event and then the
  mediapackage row, a delete the mediapackage row and then the elements (encode_inspect.go:215-222,
  mediapackage/write.go:142-163), so the two may wait for each other and one is aborted. `NoDeadlock` names both
  and says that there is no third. One outside the models: SetMetadata writes mp_metadata before the mediapackage row (metadata.go:53-80),
  SetEventDC after it (adminapi); only ocng-migrate calls SetMetadata, so an import that runs
  while its events are edited may meet it.
- *Collector.* The grace counts from the sweep that saw the object unreferenced, not from the
  dereference: a reference that comes and goes between two sweeps does not restart it (gc.go:19, 176).
- *Event.* A workflow that overlaps the delete of its event brings rows of it back, and may
  publish it again (write.go:151): `DeletedIsGone` holds without overlap. A repeated ingest
  request creates a second workflow.
- *Visibility.* Prune knows the vocabulary of the policies: a role only a pin still names is pruned, so the
  listing may hide what the delivery serves (query.go:79-82, authz.go:6-8). Evaluate
  vetoes across all held roles while acl_read and acl_write are arrays of single roles,
  so an event may be listed as writable and its edit denied. Who may write an event and not read it may act on it and
  finds it in no listing (query.go:157-163). `published` counts any channel and `pub_read` is the portal's alone
  (project.go:67-69), so an element that another channel alone publishes, with a pin of its own, may be refused to who is listed by a role:
  `ListedIsDelivered` promises a role the portal's channel, and an admin or a direct grant every one. The events list and its display are
  two statements.
- *Schema steps.* A valid index found unrecorded is recorded under the SQL of the release that finds
  it. The classifier takes `add column` of a serial or generated type, with a default that only begins with a literal, or with a
  constraint of its own for metadata (classify.go:244-248), though the table is then rewritten or scanned under ACCESS EXCLUSIVE, which
  classify.go:5-8 forbids; an ALTER of several sub-actions is decided by the first match; a guarded step of several statements keeps
  its lock through the later ones; and the drop of an invalid index takes ACCESS EXCLUSIVE without a lock_timeout
  (schemastep.go:301). `ReadersNeverStalled` says what is left: nobody but a guarded step keeps readers out, and for a rewrite
  only where the classifier overlooks it. Rows inserted behind the cursor of a batched step are missed.
- *Delivery role.* The replica that loses the race of two CREATE ROLE may get a unique violation, which is not
  tolerated, and reboots; serveset.go calls racing replicas safe, and after the reboot they are.
- *Definitions.* What a loader applied from a file name it never forgets, so a
  definition moved to another name and back is not stored again until a restart; `moved` leaves this out.
- *Import.* A `merge.mode` other than override is a hold per event, where a comment of aclread.go says it ends the
  run; a published record without snapshots is skipped silently; a later export's absent
  policy or retracted publication stays; an element id that is there keeps its bytes; the
  record kept in the object store is named only by a line of the report, so the collector reclaims it; a re-run
  brings back elements and publications of an event deleted since, and overwrites edits. ResolveAWSObject is not called.
- *Sign-in.* Login looks an issuer up by issuer and client, a launch by issuer alone: an issuer with two
  registrations can log in and never launch. Rows of abandoned logins stay. Fetches of keys use the default
  client, which has no timeout. The cache of registrations is stamped after its select.

## What is proved

The theorems are about each module's `Spec` for any number of workflows,
operations, replicas, workers, attempts, faults, digests, writers, events, series, roles, policies, sessions,
transactions, plans, statements, packages, files, logins and keys, from the named assumptions on the constants only: classes are one of three, an
implemented operation has a class, owner strings differ from null, `Gap < Grace`, a spec and a capacity
are naturals, a plan is a sequence whose steps have one of four kinds, a sequence of statements and SQL that is not empty, tables
are created in transactions, the TTLs are positive; in `Content` the events are finitely many, the source is
not the encoded element, the two channels and the ids of series and events differ, a policy is a set of entries on roles and actions, some title
exists, and null is not a row; in `Migrate` exports are lists in which an id of our organisation names one series, one event
or one published record, an event has a version, and an element's id, wherever it occurs in an export, names
one element of one mediapackage with one content. TLC evaluates each assumption on the instances.

**EngineProofs.** `TypeCorrect` goes action by action. `LeaseInvariant`
proves `IInv`, because neither OneWinnerPerAttempt nor ExactlyOnce is
inductive: that an owner string still names the execution that wrote it
depends on the history of the row. Its parts, and why each is needed:

- `Bookkeeping`: an execution is in a live position exactly if it won, at an
  attempt the row has reached.
- `Unstarted`: nobody has won the attempt an ASSIGNED row is at. Reap makes this true by
  raising the attempt; without it a second start of an attempt could not be excluded.
- `Distinct`: two executions of a task never hold the same attempt.
- `OneSlot`: a worker process has one execution per task, so its shared owner
  string names one. This is what the inflight map is for.
- `Fresh`: names of executions are not reused while they are in use, so that
  Provision does not overwrite one.
- `Fence`: if the row is RUNNING with my owner string, I won its current
  attempt. It follows for StartTask from Unstarted, and survives others' starts by OneSlot and Distinct.
- `ExactlyOnce`: the effects of a task are its attempt once, if FINISHED, else none.

`OneWinner` and `CommitsExactlyOnce` follow. Steps that only take back
(crashes, errors, failing a row) share one lemma, `RetreatStep`.

**WorkflowProofs.** The first three lemmas say what any step can do to one task
row (`Moves`), one workflow row (`Stays`, `Creates`, `Advances`, `Fails`) and
the rows a pass has found (`Finds`). The rest follows without looking at the actions again:

- `RowsAgree`: WorkflowFollowsTasks is inductive together with `FoundHolds`: a
  pass writes rows it read one statement earlier, and what it read may be
  stale but never wrong in the direction that matters. FINISHED stays FINISHED, and
  a workflow never goes back behind an operation.
- `EndsAreFinal`: from `Moves` and the workflow's moves.
- `ZombiesAreFenced`: from `Fence` and `Bookkeeping` of `IInv`, action by action.
- `Implements`: by the mapping status = wfState, done[w][i] = number of
  committed mutations of <<w, i>>. A step that commits nothing is Create,
  Succeed, Fail or a stutter (`QuietRefines`); a commit is the operation at
  current_op, since an operation before it is FINISHED and one after it has no row
  (`CommitRefines`, with ExactlyOnce).

**CollectorProofs.** `SweepInvariant` proves `IInv`: type correctness,
`Punctual` (an upload under way is at most Gap old), `Restarted` (a candidacy
begins no earlier than the last reference the collector saw), and
`~disturbed => Calm`, where disturbed says a sweep broke off or two overlapped. Calm has

- `Lone`: one sweep at a time; `Listed`: what it listed is still there;
- `Ledger`: a row belongs to an object, except between the two deletes;
- `Young`: the row of an object is not older than the upload that created it
  and has not referenced it yet. A sweep that dies between its two deletes
  breaks this, and the finding is what then happens;
- `Aged`, `Vetoed`: at the delete the row's grace has passed and no creator needs the object.

The arithmetic is in one lemma, `Outlived`: an object whose row is as old as
the grace cannot be of an upload at most Gap old, because Gap < Grace.
`UploadsAreSafe` and `GraceIsKept` follow.

**FanoutProofs.** `LedgerInvariant` proves `FInv`, which says of each worker:

- `Offered`: what a poll found, however long ago, is a task the engine lets a worker take up (a row is
  never removed and its class never changes). It makes Admit a step of Engine's Discover.
- `Tracked`: an execution is on the inflight map, and not leaving, until it has ended.
- `Balanced`: the ledger is the sum of the costs of the tasks still holding their share, the
  semaphore counts those holding a slot. CapacityHeld and NothingLeaks say
  nothing of the goroutines between their clean-ups, so neither is inductive without it.
- `Within`: what is held fits.

The ledger is compared with a sum over a finite set, and an induction theorem for finite sets cannot be cited
here. The lemmas about sums (`LoadType`, `LoadRemove`, `LoadMonotonic` and those they rest on)
take a smallest counterexample instead, which exists because strict inclusion of
finite sets is well founded (`SmallestSet`).
`CapacityIsHeld`, `NothingIsLeaked` and `WorkerImplementsEngine` follow, and with them every
theorem of `EngineProofs` and `WorkflowProofs` for resident workers (`WorkersKeepThePromise`).

**ContentProofs.** A transaction is the list of statements it has still to run, so the
invariants are about lists, and a step is the head of one replaced by what it expands to. `LocksInOrder`
proves `LockInv`. Its main part is `Local`, of each session:

- every row has a *rank* (mediapackage and series, publication, elements, snapshots, policies,
  projected events, projected series), a statement has the lowest and the highest rank it may still
  lock (`Low`, `Top`), and the list is in that order (`InOrder`);
- what the transaction has written or references ranks below all it has still to run (`Above`). Only policies and
  projected rows of several members share a rank, which is one of the deadlocks that NoDeadlock names. The statements of an
  inspection that write elements and the mediapackage have no order among them (`Precedes`, `Below`), which is the other: until it is
  through with them it holds rows of its own event only (`OwnRows`), and goes on in order;
- `Prepared`: a reference has its pin before it, a version or a delete of snapshots the lock of its mediapackage.

Each of the eighteen kinds of statements is shown once to keep this of its own session and to touch no
other (`Effect`); what begins, commits or rolls back is then easy. `RowsHaveTheirTypes`,
`VersionsAreSerialized` (both writers hold the row of the mediapackage, by Prepared) and
`OnlyMembersDeadlock` (two ranks cannot each be above the other, unless they are equal or one is an inspection's) follow from it. The others need more:

- `Referential`, for `PublicationsAreComplete`: the references of a publication exist in the *view* of every
  session, who references an element holds its key-share lock, and who removed one has already removed the publication
  that contains it. PublishedElementsExist speaks only of what is committed, and is not inductive.
- `Serial`, for `ProjectionIsRebuilt`: without overlap, each event's row is right in the view, or a statement to
  come refreshes it; every statement that changes what the row is computed from has such a statement behind it
  (`Covered`); what was computed and not yet written is still right (`Right`).
- `FilledInv`, for `PublicationsHaveElements`, in every interleaving: a publication, on whichever channel, with no element in a view is one
  whose transaction has its reference still before it. `Gone`, without overlap: what a view still has of a
  deleted event, a statement to come deletes, and none of the list adds to it. What a statement does
  to these rows is one relation, `Executes`, whichever it is.

`WhatIsListedIsDelivered`, `WhatIsGrantedIsListed` and `WhatIsDeletedIsGone`, the properties of `Visibility`, follow from
these and the type of the rows: a listing and a delivery read different rows, and Serial is what ties them together. For who
is listed by a role, FilledInv is needed of the portal's channel, whose pin Serial makes `pubRead`.
TLC checked each invariant on the instance of `content_transactions` before it was proved.

**BootProofs.** `BootInvariant` proves `IInv`, in two halves. About the runs:

- `Placed`: who works on a step holds the lock, has passed Check, and finds what its
  position says (an index that is absent before it is created, and invalid while it is built).
- `Fresh`: the ledger a run read is the ledger, but for its own steps. This is where
  the lock matters: only its holder writes (`RunWrites`, `OthersStand`).
- `Past`: every step a boot has passed is in the ledger under its own SQL.
- `Row`: what a row of the ledger says of the schema, whichever release wrote it;
  `WriteKeepsRow` is the only lemma that looks at what statements do.

About main and the loader: `Staged`, what the process has behind it at each stage (it needs Past
and Row, to know that a table its release creates exists when it is granted), and
`Remembered`: some loader remembers nothing but the row. `LedgerIsTruthful`, `ServingMeansMigrated` and
`AgreeingMountsDecide` follow. `NoStallingStatement` needs Placed, which has every statement of a step that runs pass
the check, and `OneAction`: of a statement that locks readers out and has at most one sub-action, whatever it is, the check permits
only a guarded one, and a rewrite only by what the expressions overlook.

**LaunchProofs.** `TypeCorrect` goes part by part. `OneLaunch` proves `LoginInv`: a login that
minted nothing has no row and no launch, a row that stands has the expiry it was inserted with
and was not launched. The delete that returns the row is the launch, so a second one, at
whatever replica, finds nothing; that the row stands is what the history of launches has
to be tied to, which OneLaunchPerLogin alone does not do. `RolloverCorrect` needs that what is
steady about a request is still published (`RolloverInv`), so the answer to its own fetch has
it, whatever is in the cache. `TrustInKeysEnds` adds up `TrustInv`: a set is stored at most
MaxFetch after any of its keys was withdrawn, because the request that stores it asked before;
a request goes on with a key from such a set, younger than JwksTTL, or from its own answer; and
it is over MaxFetch after its look at the cache. That bound is the guard of `Tick`, an
assumption about how long a request takes, and the theorem is for every value of it.

**MigrateProofs.** A run may die anywhere and the next begins at the top, over what it left and perhaps over
another export, so each invariant speaks of the target, of the label, and of the documents behind the
label, in layers:

- `Control`: the table of runs, and what a label says of the loops around it: at "url" there is an
  element, at "publish" all of them are behind, at "record" and beyond every series is.
- `Keys` and `Stored`: the row, or the bytes, that a later statement names are there at every label between
  the two. `MigrateTypeOK` and `MigrateNamedIsStored` follow. `MigrateLinkKeepsItsContent` needs only
  Control: RecordURL alone writes links, and inserts.
- `Sources`: for a row, the run and the event it comes from; `MigratePolicyIsUnanimous` adds what it
  means that attachments agree (`ArchiveFacts`).
- `Progress`: of the series and events behind the loops everything is done or held (`EventDone`), and of
  the event at hand as much as its label says (`EventSoFar`). Each piece is kept by every statement that
  does not write it (`SeriesKept`, `PolicyKept`, `VersionKept`, `RecordKept`), because rows are inserted or
  the ids of what is behind differ from the one at hand (`Unique`); and it becomes true by the
  statement that completes it (`PolicyStep`, `VersionStep`, `RowsStep`, ...). What it says of
  versions carries a disjunct one would not expect: a link held for another content lends that
  content to the canonical manifest, so its row is right only if none of its links is held.
- `Accounts`: at the end of the loops everything is behind them. It outlives the process, since nothing changes
  the target until the next run begins, and gives `MigrateRunAccountsForExport`.
- `Completed`: Accounts without a hold, from a target filled by this export alone: all of it is in the target, so every
  upsert of a further run writes the row it finds (`Quiet`). It holds once a run has completed,
  whatever the runs after it do, and `MigrateRerunIsQuiet` follows. The lines of the report and the rows
  of runs are not the target; they grow.

## What is only model-checked

Every liveness property (out of the prover's reach): `EveryWorkflowEnds`, `EveryBootServes`, `EveryRunEnds`.
The runs that expect a violation.

Three properties are stated in the modules and not run, because they fail for the reasons given under the
known divergences: `UnsupportedFailsLoudly`, `SeriesNeverDrift` and `GraceFromDereference`.

## What is left

The deposit protocol over Engine's CreateWorkflow and Collector's staging; eventNew and the
edits of single fields as transactions of `Content`.

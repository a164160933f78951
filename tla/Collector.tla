----------------------------- MODULE Collector -----------------------------
(***************************************************************************)
(* The content-addressed store of ocng and its mark-sweep collector:       *)
(* src/internal/cas and src/internal/gc.                                   *)
(*                                                                         *)
(* A writer (ingest, a worker, a snapshot, an admin upload) puts bytes     *)
(* into the S3 store under their digest and commits a row that references  *)
(* the digest some time later; nothing ties the two together.  A sweep     *)
(* reads the rows, lists the objects and deletes those it has seen         *)
(* unreferenced for the grace.  An action is one S3 request or one SQL     *)
(* statement.                                                              *)
(*                                                                         *)
(* Time is a counter.  The operating rule of the package (the grace is     *)
(* longer than the longest gap between a put and its reference) is the     *)
(* guard of Tick.  A definition marked "mutant" is the one below it with a *)
(* bug in it; no action uses it.                                           *)
(***************************************************************************)
EXTENDS Integers

CONSTANTS
  Digests,
  Writers,    \* writers that may be under way at the same time
  Replicas,   \* ocng-core processes that run the collector
  Grace,      \* OCNG_GC_GRACE
  Gap,        \* longest time from a put to its reference
  MaxTime,    \* bound: clock
  NoDigest,
  NoRow       \* the ledger has no row

ASSUME GapAssumption == Gap \in Nat /\ Grace \in Nat /\ Gap < Grace
ASSUME MaxTimeAssumption == MaxTime \in Nat
ASSUME NoneAssumption == NoDigest \notin Digests /\ NoRow \notin Int

VARIABLES
  now,
  stored,     \* digests that have an object
  since,      \* cas_gc_candidate: first_unreferenced_at
  (* writers; the row one has committed stays until it is dropped *)
  wpc, digest,
  at,         \* when the store answered its PutFile
  (* the sweep of each replica *)
  spc, current, mark, page,
  (* history, read by properties only *)
  created,    \* the object was not there before the writer's PutObject
  disturbed,  \* a sweep broke off, or two sweeps overlapped
  cleared,    \* when a sweep last found the object referenced
  dropped     \* when a row that references it was last dropped

writer == <<wpc, digest, at, created>>
sweep == <<spc, current, mark, page>>
vars == <<now, stored, since, writer, sweep, disturbed, cleared, dropped>>

Times == 0 .. MaxTime
LongAgo == -Grace

\* The sweep is at an object that its mark set does not hold.
Examines(r) == spc[r] \in {"age", "recheck", "delete", "forget"}

WriterTypeOK ==
  /\ wpc \in [Writers -> {"idle", "putting", "held", "referenced"}]
  /\ digest \in [Writers -> Digests \cup {NoDigest}]
  /\ \A w \in Writers : wpc[w] = "idle" <=> digest[w] = NoDigest
  /\ at \in [Writers -> Times]
  /\ created \in [Writers -> BOOLEAN]

SweepTypeOK ==
  /\ spc \in [Replicas -> {"idle", "list", "visit", "age", "recheck", "delete", "forget"}]
  /\ current \in [Replicas -> Digests \cup {NoDigest}]
  /\ mark \in [Replicas -> SUBSET Digests]
  /\ page \in [Replicas -> SUBSET Digests]
  /\ \A r \in Replicas :
       /\ Examines(r) <=> current[r] # NoDigest
       /\ current[r] \notin mark[r]

\* Every variable keeps its type; a sweep examines no object it marked.
TypeOK ==
  /\ now \in Times
  /\ stored \subseteq Digests
  /\ since \in [Digests -> Times \cup {NoRow}]
  /\ WriterTypeOK
  /\ SweepTypeOK
  /\ disturbed \in BOOLEAN
  /\ cleared \in [Digests -> Times \cup {LongAgo}]
  /\ dropped \in [Digests -> Times \cup {LongAgo}]

Init ==
  /\ now = 0
  /\ stored = {}
  /\ since = [d \in Digests |-> NoRow]
  /\ wpc = [w \in Writers |-> "idle"]
  /\ digest = [w \in Writers |-> NoDigest]
  /\ at = [w \in Writers |-> 0]
  /\ created = [w \in Writers |-> FALSE]
  /\ spc = [r \in Replicas |-> "idle"]
  /\ current = [r \in Replicas |-> NoDigest]
  /\ mark = [r \in Replicas |-> {}]
  /\ page = [r \in Replicas |-> {}]
  /\ disturbed = FALSE
  /\ cleared = [d \in Digests |-> LongAgo]
  /\ dropped = [d \in Digests |-> LongAgo]

\* A row of mp_element, mp_snapshot or migration_url_map names the digest.
Referenced(d) == \E w \in Writers : wpc[w] = "referenced" /\ digest[w] = d

\* Time passes, but no writer takes longer than Gap.
Tick ==
  /\ now < MaxTime
  /\ \A w \in Writers : wpc[w] = "held" => now - at[w] < Gap
  /\ now' = now + 1
  /\ UNCHANGED <<stored, since, writer, sweep, disturbed, cleared, dropped>>

-----------------------------------------------------------------------------
(* Writers: PutFile, then the row *)

Hold(w, isNew) ==
  /\ wpc' = [wpc EXCEPT ![w] = "held"]
  /\ at' = [at EXCEPT ![w] = now]
  /\ created' = [created EXCEPT ![w] = isNew]

\* PutFile asks whether the object exists; if so there is nothing to store.
CheckExists(w, d) ==
  /\ wpc[w] = "idle"
  /\ digest' = [digest EXCEPT ![w] = d]
  /\ \/ d \in stored /\ Hold(w, FALSE)
     \/ /\ d \notin stored
        /\ wpc' = [wpc EXCEPT ![w] = "putting"]
        /\ UNCHANGED <<at, created>>
  /\ UNCHANGED <<now, stored, since, sweep, disturbed, cleared, dropped>>

PutObject(w) ==
  /\ wpc[w] = "putting"
  /\ stored' = stored \cup {digest[w]}
  /\ Hold(w, digest[w] \notin stored)
  /\ UNCHANGED <<now, since, digest, sweep, disturbed, cleared, dropped>>

Reference(w) ==
  /\ wpc[w] = "held"
  /\ wpc' = [wpc EXCEPT ![w] = "referenced"]
  /\ UNCHANGED <<now, stored, since, digest, at, created>>
  /\ UNCHANGED <<sweep, disturbed, cleared, dropped>>

\* The writer gives up before its row: an error, a crash, a lost task.
Reset(w) ==
  /\ wpc' = [wpc EXCEPT ![w] = "idle"]
  /\ digest' = [digest EXCEPT ![w] = NoDigest]
  /\ at' = [at EXCEPT ![w] = 0]
  /\ created' = [created EXCEPT ![w] = FALSE]

Abandon(w) ==
  /\ wpc[w] \in {"putting", "held"}
  /\ Reset(w)
  /\ UNCHANGED <<now, stored, since, sweep, disturbed, cleared, dropped>>

\* TombstoneEvent deletes the element and snapshot rows, and no bytes.
Drop(w) ==
  /\ wpc[w] = "referenced"
  /\ dropped' = [dropped EXCEPT ![digest[w]] = now]
  /\ Reset(w)
  /\ UNCHANGED <<now, stored, since, sweep, disturbed, cleared>>

-----------------------------------------------------------------------------
(* Sweep *)

\* Replicas with a sweep under way.
Sweeping == {r \in Replicas : spc[r] # "idle"}

MarkSet(r) ==
  /\ spc[r] = "idle"
  /\ spc' = [spc EXCEPT ![r] = "list"]
  /\ mark' = [mark EXCEPT ![r] = {d \in Digests : Referenced(d)}]
  /\ disturbed' = (disturbed \/ Sweeping # {})
  /\ UNCHANGED <<now, stored, since, writer, current, page, cleared, dropped>>

\* The objects of the listing; its pages are read ahead of the visits.
List(r) ==
  /\ spc[r] = "list"
  /\ spc' = [spc EXCEPT ![r] = "visit"]
  /\ page' = [page EXCEPT ![r] = stored]
  /\ UNCHANGED <<now, stored, since, writer, current, mark, disturbed, cleared, dropped>>

Advance(r, next) == spc' = [spc EXCEPT ![r] = next]

\* The candidacy of d ends.
DeleteRow(d) == since' = [since EXCEPT ![d] = NoRow]

Observe(d) == cleared' = [cleared EXCEPT ![d] = now]

\* A referenced object loses its candidacy, any other one becomes a
\* candidate unless it is one.
VisitFallsThrough(r, d) ==                                              \* mutant
  /\ spc[r] = "visit" /\ d \in page[r]
  /\ page' = [page EXCEPT ![r] = @ \ {d}]
  /\ since' = [since EXCEPT ![d] = IF @ = NoRow THEN now ELSE @]
  /\ current' = [current EXCEPT ![r] = d]
  /\ Advance(r, "age")
  /\ UNCHANGED <<now, stored, writer, mark, disturbed, cleared, dropped>>
VisitUncleared(r, d) ==                                                 \* mutant
  /\ spc[r] = "visit" /\ d \in page[r]
  /\ page' = [page EXCEPT ![r] = @ \ {d}]
  /\ IF d \in mark[r]
     THEN Observe(d) /\ UNCHANGED <<since, spc, current>>
     ELSE /\ since' = [since EXCEPT ![d] = IF @ = NoRow THEN now ELSE @]
          /\ current' = [current EXCEPT ![r] = d]
          /\ Advance(r, "age")
          /\ UNCHANGED cleared
  /\ UNCHANGED <<now, stored, writer, mark, disturbed, dropped>>

Visit(r, d) ==
  /\ spc[r] = "visit" /\ d \in page[r]
  /\ page' = [page EXCEPT ![r] = @ \ {d}]
  /\ IF d \in mark[r]
     THEN DeleteRow(d) /\ Observe(d) /\ UNCHANGED <<spc, current>>
     ELSE /\ since' = [since EXCEPT ![d] = IF @ = NoRow THEN now ELSE @]
          /\ current' = [current EXCEPT ![r] = d]
          /\ Advance(r, "age")
          /\ UNCHANGED cleared
  /\ UNCHANGED <<now, stored, writer, mark, disturbed, dropped>>

Idle(r) ==
  /\ spc' = [spc EXCEPT ![r] = "idle"]
  /\ current' = [current EXCEPT ![r] = NoDigest]
  /\ mark' = [mark EXCEPT ![r] = {}]
  /\ page' = [page EXCEPT ![r] = {}]

NextObject(r) == Advance(r, "visit") /\ current' = [current EXCEPT ![r] = NoDigest]

\* The row may be gone, if another sweep deleted it: then the sweep fails.
ReadAge(r) ==
  LET s == since[current[r]]
  IN
  /\ spc[r] = "age"
  /\ \/ s = NoRow /\ Idle(r)
     \/ s # NoRow /\ now - s < Grace /\ NextObject(r) /\ UNCHANGED <<mark, page>>
     \/ /\ s # NoRow /\ now - s >= Grace
        /\ Advance(r, "recheck") /\ UNCHANGED <<current, mark, page>>
  /\ UNCHANGED <<now, stored, since, writer, disturbed, cleared, dropped>>

RecheckedNothing(d) == FALSE                                            \* mutant
Rechecked(d) == Referenced(d)

Recheck(r) ==
  LET d == current[r]
  IN
  /\ spc[r] = "recheck"
  /\ IF Rechecked(d)
     THEN DeleteRow(d) /\ Observe(d) /\ NextObject(r)
     ELSE Advance(r, "delete") /\ UNCHANGED <<since, cleared, current>>
  /\ UNCHANGED <<now, stored, writer, mark, page, disturbed, dropped>>

DeleteObject(r) ==
  /\ spc[r] = "delete"
  /\ stored' = stored \ {current[r]}
  /\ Advance(r, "forget")
  /\ UNCHANGED <<now, since, writer, current, mark, page, disturbed, cleared, dropped>>

Forget(r) ==
  /\ spc[r] = "forget"
  /\ DeleteRow(current[r])
  /\ NextObject(r)
  /\ UNCHANGED <<now, stored, writer, mark, page, disturbed, cleared, dropped>>

SweepEnds(r) ==
  /\ spc[r] = "visit" /\ page[r] = {}
  /\ Idle(r)
  /\ UNCHANGED <<now, stored, since, writer, disturbed, cleared, dropped>>

\* A statement or a request fails, or the process dies.
SweepBreaks(r) ==
  /\ spc[r] # "idle"
  /\ Idle(r)
  /\ disturbed' = TRUE
  /\ UNCHANGED <<now, stored, since, writer, cleared, dropped>>

-----------------------------------------------------------------------------
Write(w) ==
  \/ \E d \in Digests : CheckExists(w, d)
  \/ PutObject(w)
  \/ Reference(w)
  \/ Abandon(w)
  \/ Drop(w)

Sweep(r) ==
  \/ MarkSet(r)
  \/ List(r)
  \/ \E d \in Digests : Visit(r, d)
  \/ ReadAge(r)
  \/ Recheck(r)
  \/ DeleteObject(r)
  \/ Forget(r)
  \/ SweepEnds(r)

Next ==
  \/ Tick
  \/ \E w \in Writers : Write(w)
  \/ \E r \in Replicas : Sweep(r) \/ SweepBreaks(r)

Spec == Init /\ [][Next]_vars

-----------------------------------------------------------------------------
(* Properties *)

Safe(w) ==
  created[w] /\ wpc[w] \in {"held", "referenced"} => digest[w] \in stored

\* As long as no sweep broke off and no two overlapped, a writer that created
\* the object finds it until it references it and as long as it does: a grace
\* longer than its gap protects what the mark does not cover (gc.go:38-50).
\* Only a writer that finds the bytes stored already may lose them.
UploadsSurvive == ~disturbed => \A w \in Writers : Safe(w)

\* An object is deleted no earlier than the grace after a sweep last found it
\* referenced, whatever it was observed to be before (gc.go:19-26).
ClockRestarts ==
  [][\A d \in stored \ stored' : ~disturbed => now - cleared[d] >= Grace]_vars

\* "Sweeps are idempotent and safe across replicas" (cmd/ocng-core/main.go:337).
SafeAcrossReplicas == \A w \in Writers : Safe(w)

\* "Reclaim happens only on a LATER sweep, when the candidate has been
\* continuously unreferenced for the full grace window" (gc.go:19-20).
GraceFromDereference ==
  [][\A d \in stored \ stored' : now - dropped[d] >= Grace]_vars
=============================================================================

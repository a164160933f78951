------------------------------ MODULE Migrate ------------------------------
(***************************************************************************)
(* ocng-migrate: src/cmd/ocng-migrate and src/internal/migrate.            *)
(*                                                                         *)
(* A run copies one organisation out of an export of an Opencast archive   *)
(* into the database and the object store of an ocng instance.  It is a    *)
(* straight program of separate calls and statements, so it may die        *)
(* between any two of them; the operator starts it again, with the same    *)
(* export or with a later one.  What it cannot migrate it holds: a line of *)
(* the report, and it goes on.  Any error ends the run as failed.          *)
(*                                                                         *)
(* The running process is a label, pc, and the positions, at, of its       *)
(* nested loops in the export.  Bytes stand for their hash.  Lines that    *)
(* only inform and metadata other than the series are left out.  Two       *)
(* objects put in a row, and an object and the line that names it, are one *)
(* action: no row names either in between.  A definition marked "mutant"   *)
(* is the one below it with a bug in it; no action uses it.                *)
(***************************************************************************)
EXTENDS Integers, Sequences, FiniteSets

CONSTANTS
  Org,        \* the organisation the runs migrate
  Histories,  \* sequences of exports the operator may have, oldest first
  Urns,       \* the urls of archival copies; the other urls are /static
  PolicyOf,   \* bytes of XACML files that parse -> set of entries
  MaxRuns,    \* bound: runs of ocng-migrate
  MaxFaults,  \* bound: crashes, failed statements and failed reads
  NoRow,
  NoFile,     \* a url that cannot be resolved
  NoSum       \* an element without an md5

VARIABLES
  history,   \* the exports of this installation
  runs,      \* migration_run, with each run's lines of migration_report
  pc,        \* what the running process does next; "idle": none runs
  at,        \* where its loops are
  cas,       \* the objects stored
  series,    \* ids of series rows
  mps,       \* mediapackage: id -> series_id
  policies,  \* acl_policy and acl_entry: <<scope, id>> -> set of entries
  elements,  \* mp_element: id -> [mp, sha]
  urlMap,    \* migration_url_map: old_url -> sha
  snapshots, \* mp_snapshot: <<id, version>> -> [manifest, source]
  publications, \* publication: id -> [state, read, elements]
  faults

process == <<history, runs, pc, at, faults>>
target == <<cas, series, mps, policies, elements, urlMap, snapshots, publications>>
vars == <<process, target>>

Empty == [k \in {} |-> NoRow]
Put(f, k, row) == [j \in DOMAIN f \cup {k} |-> IF j = k THEN row ELSE f[j]]
Insert(f, k, row) == IF k \in DOMAIN f THEN f ELSE Put(f, k, row)  \* on conflict do nothing

File(bytes) == <<"file", bytes>>
Document(e, n, version) == <<"document", e, n, version>>
Record(e) == <<"record", e>>

-----------------------------------------------------------------------------
(* What an export says.  It has series rows, events with their versions in *)
(* order, published records, the files and the merge mode.  A version and  *)
(* a published record are documents: they list elements, those of a        *)
(* publication inside a version as "nested".                               *)

Members(seq) == {seq[i] : i \in DOMAIN seq}
IsSecurityXACML(el) == el.kind \in {"episode", "series"}
IsOperable(el) == ~IsSecurityXACML(el) /\ el.kind # "nested"
Operable(doc) == {el \in Members(doc.elements) : IsOperable(el)}
Links(doc) == {el.url : el \in Members(doc.elements)}
Latest(event) == event.versions[Len(event.versions)]
Bytes(x, url) == IF url \in DOMAIN x.files THEN x.files[url] ELSE NoFile

\* The bytes of an element, checked against the document's md5 where it has one.
Resolves(x, el) ==
  /\ Bytes(x, el.url) # NoFile
  /\ el.md5 \in {NoSum, Bytes(x, el.url)}
Sha(x, el) == File(Bytes(x, el.url))

\* Only the records of events that have a snapshot are looked at.
Ours(rows) == {r \in Members(rows) : r.org = Org}
PublishedRows(x, e) == {p \in Ours(x.published) : p.id = e}
PublishedRow(x, e) == CHOOSE p \in PublishedRows(x, e) : TRUE

\* The attachments of a flavor must agree, and one must be archival.
SecurityAttachments(version, kind) ==
  {el.url : el \in {m \in Members(version.elements) : m.kind = kind}}

AgreeUrnOnly(x, urls) ==                                                \* mutant
  /\ urls \cap Urns # {}
  /\ \A u \in urls : Bytes(x, u) # NoFile
Agree(x, urls) ==
  /\ urls \cap Urns # {}
  /\ \A u, v \in urls : Bytes(x, u) = Bytes(x, v) /\ Bytes(x, u) # NoFile

Unresolvable == [state |-> "unresolvable", entries |-> {}]
Absent == [state |-> "absent", entries |-> {}]
Present(x, urls) ==
  LET bytes == Bytes(x, CHOOSE u \in urls : u \in Urns)
  IN IF bytes \in DOMAIN PolicyOf
     THEN [state |-> "present", entries |-> PolicyOf[bytes]]
     ELSE Unresolvable

ResolveArchiveACL(x, version) ==
  LET episode == SecurityAttachments(version, "episode")
      inPackage == SecurityAttachments(version, "series")
      urls == IF episode # {} THEN episode ELSE inPackage
  IN IF \/ x.mergeMode # "override"
        \/ \E copies \in {episode, inPackage} : copies # {} /\ ~Agree(x, copies)
     THEN Unresolvable
     ELSE IF urls = {} THEN Absent ELSE Present(x, urls)

\* What the publication pins: a set of roles cannot say deny.
Denies(entries) == \E n \in entries : ~n[3]
ReadRoles(entries) == {n[1] : n \in {m \in entries : m[2] = "read"}}
Pin(p) ==
  IF p.policy = NoRow THEN [state |-> "ABSENT", read |-> {}]
  ELSE [state |-> IF p.policy = {} THEN "EMPTY" ELSE "POPULATED",
        read |-> ReadRoles(p.policy)]
Unpublishable(p) == p.deleted \/ (p.policy # NoRow /\ Denies(p.policy))

-----------------------------------------------------------------------------
(* The exports: lists, in which an id names one row.  An element's id      *)
(* names one element of one mediapackage, wherever in an export it stands. *)

IsList(s) == Len(s) \in Nat /\ DOMAIN s = 1 .. Len(s)

WellFormed(x) ==
  /\ IsList(x.series) /\ IsList(x.events) /\ IsList(x.published)
  /\ \A event \in Members(x.events) :
       /\ IsList(event.versions) /\ Len(event.versions) > 0
       /\ \A version \in Members(event.versions) : IsList(version.elements)
  /\ \A p \in Members(x.published) : IsList(p.elements)

Keyed(rows) ==
  \A i, j \in DOMAIN rows :
    rows[i].org = Org /\ rows[j].org = Org /\ rows[i].id = rows[j].id => i = j

\* The elements that get rows: of events' latest versions and published records.
ElementRows(x) ==
  (UNION {{event.id} \X Operable(Latest(event)) : event \in Ours(x.events)})
    \cup (UNION {{p.id} \X Operable(p) : p \in Ours(x.published)})

KeyedById(x) ==
  /\ Keyed(x.series) /\ Keyed(x.events) /\ Keyed(x.published)
  /\ \A r, s \in ElementRows(x) :
       r[2].id = s[2].id => r[1] = s[1] /\ Bytes(x, r[2].url) = Bytes(x, s[2].url)

ASSUME ExportsAssumption ==
  \A h \in Histories : IsList(h) /\ \A x \in Members(h) : WellFormed(x) /\ KeyedById(x)
\* An entry of a policy is <<role, action, allow>>.
ASSUME PolicyOfAssumption ==
  \A b \in DOMAIN PolicyOf : \A n \in PolicyOf[b] : n[3] \in BOOLEAN
ASSUME BoundsAssumption == MaxRuns \in Nat /\ MaxFaults \in Nat

-----------------------------------------------------------------------------
(* The process *)

Run == runs[Len(runs)]
Export == history[Run.export]

Series == Export.series[at.series]
Event == Export.events[at.event]
Doc == CASE at.doc = "latest" -> Latest(Event)
         [] at.doc = "version" -> Event.versions[at.version]
         [] at.doc = "record" -> PublishedRow(Export, Event.id)
El == Doc.elements[at.element]
Archive == ResolveArchiveACL(Export, Latest(Event))

Start == [series |-> 1, event |-> 1, version |-> 1, doc |-> "latest", element |-> 1]
Goto(label, where) == pc' = label /\ at' = where
NextSeries == Goto("series", [at EXCEPT !.series = @ + 1])
NextEvent == Goto("events", [at EXCEPT !.event = @ + 1])
NextVersion == Goto("versions", [at EXCEPT !.version = @ + 1])
NextElement(loop) == Goto(loop, [at EXCEPT !.element = @ + 1])
OverElements(loop, doc) == Goto(loop, [at EXCEPT !.doc = doc, !.element = 1])

Report(lines, holds) ==
  runs' = [runs EXCEPT ![Len(runs)].lines = @ \cup lines, ![Len(runs)].holds = @ + holds]
Hold(id, why) == Report({<<"hold", id, why>>}, 1)
EndRun(outcome) ==
  /\ runs' = [runs EXCEPT ![Len(runs)].outcome = outcome]
  /\ Goto("idle", Start)

Init ==
  /\ history \in Histories
  /\ runs = <<>> /\ pc = "idle" /\ at = Start /\ faults = 0
  /\ cas = {} /\ series = {}
  /\ mps = Empty /\ policies = Empty /\ elements = Empty
  /\ urlMap = Empty /\ snapshots = Empty /\ publications = Empty

\* The operator runs the tool, with the export of the last run or a later one.
StartRun ==
  /\ pc = "idle"
  /\ Len(runs) < MaxRuns
  /\ \E i \in DOMAIN history :
       /\ runs # <<>> => i >= Run.export
       /\ runs' = Append(runs, [export |-> i, outcome |-> "running", lines |-> {}, holds |-> 0])
  /\ Goto("series", Start)
  /\ UNCHANGED <<history, faults, target>>

-----------------------------------------------------------------------------
(* Series *)

AtSeries == pc = "series" /\ at.series \in DOMAIN Export.series /\ Series.org = Org

\* Rows of other organisations are skipped; after the last come the events.
SkipSeries ==
  /\ pc = "series"
  /\ IF at.series \in DOMAIN Export.series THEN Series.org # Org /\ NextSeries
     ELSE Goto("events", at)
  /\ UNCHANGED <<history, runs, faults, target>>

HoldSeries ==
  /\ AtSeries /\ Series.deleted
  /\ Hold(Series.id, <<"series">>)
  /\ NextSeries
  /\ UNCHANGED <<history, faults, target>>

\* The series' own columns are left out: PutSeries makes the row be there.
PutSeries ==
  /\ AtSeries /\ ~Series.deleted
  /\ series' = series \cup {Series.id}
  /\ Goto("series acl", at)
  /\ UNCHANGED <<history, runs, faults, cas, mps, policies, elements, urlMap,
                 snapshots, publications>>

SetSeriesACL ==
  /\ pc = "series acl"
  /\ IF Series.policy = NoRow
     THEN Report({<<"acl-absent", Series.id>>}, 0) /\ UNCHANGED policies
     ELSE policies' = Put(policies, <<"series", Series.id>>, Series.policy) /\ UNCHANGED runs
  /\ NextSeries
  /\ UNCHANGED <<history, faults, cas, series, mps, elements, urlMap, snapshots, publications>>

-----------------------------------------------------------------------------
(* Materialise: the row, then for each element its bytes and its row *)

SkipEvent ==
  /\ pc = "events" /\ at.event \in DOMAIN Export.events
  /\ IF Event.org = Org THEN OverElements("row", "latest") ELSE NextEvent
  /\ UNCHANGED <<history, runs, faults, target>>

InsertMediapackageUpserts ==                                            \* mutant
  /\ pc = "row"
  /\ mps' = Put(mps, Event.id, NoRow)
  /\ Goto("materialise", at)
  /\ UNCHANGED <<history, runs, faults, cas, series, policies, elements, urlMap,
                 snapshots, publications>>
InsertMediapackage ==
  /\ pc = "row"
  /\ mps' = Insert(mps, Event.id, NoRow)
  /\ Goto("materialise", at)
  /\ UNCHANGED <<history, runs, faults, cas, series, policies, elements, urlMap,
                 snapshots, publications>>

SkipElement ==
  /\ pc = "materialise"
  /\ IF at.element \in DOMAIN Doc.elements THEN ~IsOperable(El) /\ NextElement("materialise")
     ELSE OverElements(IF at.doc = "latest" THEN "metadata" ELSE "copy", at.doc)
  /\ UNCHANGED <<history, runs, faults, target>>

StoreBytesRetries(next) ==                                              \* mutant
  /\ IF Resolves(Export, El) THEN cas' = cas \cup {Sha(Export, El)} /\ Goto(next, at)
     ELSE UNCHANGED <<cas, pc, at>>
  /\ UNCHANGED <<history, runs, faults, series, mps, policies, elements, urlMap,
                 snapshots, publications>>
StoreBytesResumes(next) ==                                              \* mutant
  /\ IF Resolves(Export, El)
     THEN /\ cas' = IF El.url \in DOMAIN urlMap THEN cas ELSE cas \cup {Sha(Export, El)}
          /\ Goto(next, at)
          /\ UNCHANGED runs
     ELSE EndRun("failed") /\ UNCHANGED cas
  /\ UNCHANGED <<history, faults, series, mps, policies, elements, urlMap,
                 snapshots, publications>>
StoreBytes(next) ==
  /\ IF Resolves(Export, El)
     THEN /\ cas' = cas \cup {Sha(Export, El)}
          /\ Goto(next, at)
          /\ UNCHANGED runs
     ELSE EndRun("failed") /\ UNCHANGED cas
  /\ UNCHANGED <<history, faults, series, mps, policies, elements, urlMap,
                 snapshots, publications>>

MaterialiseElement ==
  /\ pc = "materialise" /\ at.element \in DOMAIN Doc.elements /\ IsOperable(El)
  /\ StoreBytes("element")

InsertElement ==
  /\ pc = "element"
  /\ elements' = Insert(elements, El.id, [mp |-> Event.id, sha |-> Sha(Export, El)])
  /\ NextElement("materialise")
  /\ UNCHANGED <<history, runs, faults, cas, series, mps, policies, urlMap,
                 snapshots, publications>>

-----------------------------------------------------------------------------
(* An event: its metadata, its policy, its versions *)

\* series_id references series: an event of a series without a row fails.
SetEventMetadata ==
  /\ pc = "metadata"
  /\ IF Latest(Event).series \in series \cup {NoRow}
     THEN /\ mps' = Put(mps, Event.id, Latest(Event).series)
          /\ Goto("archive", at)
          /\ UNCHANGED runs
     ELSE EndRun("failed") /\ UNCHANGED mps
  /\ UNCHANGED <<history, faults, cas, series, policies, elements, urlMap,
                 snapshots, publications>>

\* So does an error of the reads behind it; the event's versions are left.
HoldArchive ==
  /\ pc = "archive"
  /\ \/ Archive.state = "unresolvable" /\ UNCHANGED faults
     \/ faults < MaxFaults /\ faults' = faults + 1
  /\ Hold(Event.id, <<"archive">>)
  /\ Goto("record", at)
  /\ UNCHANGED <<history, target>>

ToVersions == Goto("versions", [at EXCEPT !.version = 1])

\* The enforcement copy, eav, must say what the attachments do.
HoldPolicy ==
  /\ pc = "archive"
  /\ Archive.state # "unresolvable" /\ Archive.entries # Event.eav
  /\ Hold(Event.id, <<"policy">>)
  /\ ToVersions
  /\ UNCHANGED <<history, faults, target>>

ReportAbsent ==
  /\ pc = "archive"
  /\ Archive.state = "absent" /\ Archive.entries = Event.eav
  /\ Report({<<"acl-absent", Event.id>>}, 0)
  /\ ToVersions
  /\ UNCHANGED <<history, faults, target>>

SetEventACL ==
  /\ pc = "archive"
  /\ Archive.state = "present" /\ Archive.entries = Event.eav
  /\ policies' = Put(policies, <<"event", Event.id>>, Archive.entries)
  /\ ToVersions
  /\ UNCHANGED <<history, runs, faults, cas, series, mps, elements, urlMap,
                 snapshots, publications>>

HoldVersion ==
  /\ pc = "versions" /\ at.version \in DOMAIN Event.versions
  /\ ~Event.versions[at.version].online
  /\ Hold(Event.id, <<"version", at.version>>)
  /\ NextVersion
  /\ UNCHANGED <<history, faults, target>>

CopyVersion ==
  /\ pc = "versions"
  /\ IF at.version \in DOMAIN Event.versions
     THEN Event.versions[at.version].online /\ OverElements("copy", "version")
     ELSE Goto("record", at)
  /\ UNCHANGED <<history, runs, faults, target>>

PutElementBytes ==
  /\ pc = "copy" /\ at.element \in DOMAIN Doc.elements
  /\ StoreBytes("url")

RecordURLOverwrites ==                                                  \* mutant
  /\ pc = "url"
  /\ urlMap' = Put(urlMap, El.url, Sha(Export, El))
  /\ NextElement("copy")
  /\ UNCHANGED <<history, runs, faults, cas, series, mps, policies, elements,
                 snapshots, publications>>
RecordURLUnheld ==                                                      \* mutant
  /\ pc = "url"
  /\ urlMap' = Insert(urlMap, El.url, Sha(Export, El))
  /\ NextElement("copy")
  /\ UNCHANGED <<history, runs, faults, cas, series, mps, policies, elements,
                 snapshots, publications>>

\* One link, one content: the first to record it wins, another is held.
RecordURL ==
  /\ pc = "url"
  /\ urlMap' = Insert(urlMap, El.url, Sha(Export, El))
  /\ IF urlMap'[El.url] = Sha(Export, El) THEN UNCHANGED runs
     ELSE Hold(Event.id, <<"url", El.url>>)
  /\ NextElement("copy")
  /\ UNCHANGED <<history, faults, cas, series, mps, policies, elements,
                 snapshots, publications>>

LinksCopied ==
  /\ pc = "copy" /\ at.element \notin DOMAIN Doc.elements
  /\ Goto(IF at.doc = "version" THEN "manifest" ELSE "publish", at)
  /\ UNCHANGED <<history, runs, faults, target>>

\* The canonical manifest takes its hashes from the url map.
Canonical == <<"manifest", Event.id, {<<el.id, urlMap[el.url]>> : el \in Operable(Doc)}>>
SourceXML == Document(Event.id, at.version, Doc)

PutManifest ==
  /\ pc = "manifest"
  /\ cas' = cas \cup {Canonical, SourceXML}
  /\ Goto("snapshot", at)
  /\ UNCHANGED <<history, runs, faults, series, mps, policies, elements, urlMap,
                 snapshots, publications>>

UpsertSnapshot ==
  /\ pc = "snapshot"
  /\ snapshots' = Put(snapshots, <<Event.id, at.version>>,
                      [manifest |-> Canonical, source |-> SourceXML])
  /\ NextVersion
  /\ UNCHANGED <<history, runs, faults, cas, series, mps, policies, elements,
                 urlMap, publications>>

-----------------------------------------------------------------------------
(* The published record of the event *)

Unrecorded == PublishedRows(Export, Event.id) = {}
Publishable == ~Unrecorded /\ ~Unpublishable(PublishedRow(Export, Event.id))

SkipRecord ==
  /\ pc = "record" /\ Unrecorded
  /\ NextEvent
  /\ UNCHANGED <<history, runs, faults, target>>

HoldPublication ==
  /\ pc = "record" /\ ~Unrecorded /\ ~Publishable
  /\ Hold(Event.id, <<"publication">>)
  /\ NextEvent
  /\ UNCHANGED <<history, faults, target>>

\* The published record's bytes, named only by a line of the report.
PreserveRecordOnly ==                                                   \* mutant
  /\ pc = "record" /\ Publishable
  /\ cas' = cas \cup {Record(Event.id)}
  /\ Report({<<"publication-record-preserved", Event.id>>}, 0)
  /\ OverElements("copy", "record")
  /\ UNCHANGED <<history, faults, series, mps, policies, elements, urlMap,
                 snapshots, publications>>
PreserveRecord ==
  /\ pc = "record" /\ Publishable
  /\ cas' = cas \cup {Record(Event.id)}
  /\ Report({<<"publication-record-preserved", Event.id>>}, 0)
  /\ OverElements("row", "record")
  /\ UNCHANGED <<history, faults, series, mps, policies, elements, urlMap,
                 snapshots, publications>>

\* Elements published before stay: publication_element is only added to.
Publish ==
  LET before == IF Event.id \in DOMAIN publications THEN publications[Event.id].elements ELSE {}
  IN
  /\ pc = "publish"
  /\ publications' = Put(publications, Event.id,
       [state |-> Pin(Doc).state, read |-> Pin(Doc).read,
        elements |-> before \cup {el.id : el \in Operable(Doc)}])
  /\ NextEvent
  /\ UNCHANGED <<history, runs, faults, cas, series, mps, policies, elements,
                 urlMap, snapshots>>

Finish ==
  /\ pc = "events" /\ at.event \notin DOMAIN Export.events
  /\ EndRun(IF Run.holds > 0 THEN "complete-with-holds" ELSE "complete")
  /\ UNCHANGED <<history, faults, target>>

\* A statement or a call fails: the run is finished as failed; or the process
\* dies, and its row says running for good.
Fault ==
  /\ pc # "idle"
  /\ faults < MaxFaults /\ faults' = faults + 1
  /\ \E outcome \in {"failed", "running"} : EndRun(outcome)
  /\ UNCHANGED <<history, target>>

Work ==
  \/ SkipSeries \/ HoldSeries \/ PutSeries \/ SetSeriesACL
  \/ SkipEvent \/ InsertMediapackage \/ SkipElement \/ MaterialiseElement \/ InsertElement
  \/ SetEventMetadata
  \/ HoldArchive \/ HoldPolicy \/ ReportAbsent \/ SetEventACL
  \/ HoldVersion \/ CopyVersion \/ PutElementBytes \/ RecordURL \/ LinksCopied
  \/ PutManifest \/ UpsertSnapshot
  \/ SkipRecord \/ HoldPublication \/ PreserveRecord \/ Publish
  \/ Finish

Next == StartRun \/ Work \/ Fault

Spec == Init /\ [][Next]_vars

\* The process goes on until its program ends.
FairSpec == Spec /\ WF_vars(Work)

-----------------------------------------------------------------------------
(* Properties *)

Outcomes == {"running", "failed", "complete", "complete-with-holds"}

\* Every run has read an export of this installation and has an outcome; a
\* process runs under an unfinished run.  The rows keep their foreign keys: a
\* mediapackage's series, an element's and a snapshot's mediapackage, a
\* publication's mediapackage and elements exist (the references of
\* mediapackage/schema.sql and ops/schema.sql).
TypeOK ==
  /\ \A i \in DOMAIN runs : /\ runs[i].export \in DOMAIN history
                            /\ runs[i].outcome \in Outcomes
  /\ pc # "idle" => runs # <<>> /\ Run.outcome = "running"
  /\ faults \in 0 .. MaxFaults
  /\ \A e \in DOMAIN mps : mps[e] \in series \cup {NoRow}
  /\ \A id \in DOMAIN elements : elements[id].mp \in DOMAIN mps
  /\ \A k \in DOMAIN snapshots : k[1] \in DOMAIN mps
  /\ \A e \in DOMAIN publications :
       e \in DOMAIN mps /\ publications[e].elements \subseteq DOMAIN elements

\* What the export says, and the target has.
Held(id, why) == <<"hold", id, why>> \in Run.lines
Said(class, id) == <<class, id>> \in Run.lines

SeriesAccounted(s) ==
  \/ Held(s.id, <<"series">>)
  \/ /\ s.id \in series
     /\ IF s.policy = NoRow THEN Said("acl-absent", s.id)
        ELSE <<"series", s.id>> \in DOMAIN policies /\ policies[<<"series", s.id>>] = s.policy

OwnManifest(x, e, version) ==
  <<"manifest", e, {<<el.id, Sha(x, el)>> : el \in Operable(version)}>>

HasVersion(x, e, n, version) ==
  /\ <<e, n>> \in DOMAIN snapshots
  /\ snapshots[<<e, n>>] = [manifest |-> OwnManifest(x, e, version),
                            source |-> Document(e, n, version)]

VersionAccounted(x, event, n) ==
  \/ HasVersion(x, event.id, n, event.versions[n])
  \/ Held(event.id, <<"archive">>)
  \/ Held(event.id, <<"version", n>>)
  \/ \E url \in Links(event.versions[n]) : Held(event.id, <<"url", url>>)

LinkAccounted(x, e, url) ==
  \/ url \in DOMAIN urlMap /\ urlMap[url] = File(Bytes(x, url))
  \/ Held(e, <<"url", url>>)

LinksAccounted(x, event, n) ==
  \/ \A url \in Links(event.versions[n]) : LinkAccounted(x, event.id, url)
  \/ \E why \in {<<"archive">>, <<"version", n>>} : Held(event.id, why)

\* Only these depend on what an earlier export left in the target.
PolicyAccounted(x, event) ==
  LET acl == ResolveArchiveACL(x, Latest(event))
      key == <<"event", event.id>>
  IN \/ Held(event.id, <<"archive">>) \/ Held(event.id, <<"policy">>)
     \/ IF key \in DOMAIN policies
        THEN acl.state = "present" /\ policies[key] = acl.entries
        ELSE acl.state = "absent" /\ Said("acl-absent", event.id)

HasPublication(x, p) ==
  /\ p.id \in DOMAIN publications
  /\ publications[p.id] = [state |-> Pin(p).state, read |-> Pin(p).read,
                           elements |-> {el.id : el \in Operable(p)}]
  /\ \A el \in Operable(p) :
       el.id \in DOMAIN elements /\ elements[el.id] = [mp |-> p.id, sha |-> Sha(x, el)]

OneExport == \A i \in DOMAIN runs : runs[i].export = Run.export
Ended == runs # <<>> /\ Run.outcome \in {"complete", "complete-with-holds"}

\* Loss is reported, never silent (report.go): when a run ends, every series
\* has its row and policy, every version of every event a row whose manifest
\* names its own bytes, and every link its content, or a hold of this run names
\* it.  If the target was filled from this export alone, by this run and those
\* that died before it, that goes for events' policies and publications as well.
RunAccountsForExport ==
  Ended =>
    /\ \A s \in Ours(Export.series) : SeriesAccounted(s)
    /\ \A event \in Ours(Export.events) :
         /\ \A n \in DOMAIN event.versions :
              VersionAccounted(Export, event, n) /\ LinksAccounted(Export, event, n)
         /\ OneExport =>
              /\ PolicyAccounted(Export, event)
              /\ \A p \in PublishedRows(Export, event.id) :
                   HasPublication(Export, p) \/ Held(p.id, <<"publication">>)

\* A pick among diverging copies would shadow a policy (aclread.go): a stored
\* policy is what every attachment of its flavor, and the enforcement copy, said
\* in an export some run has read.
Says(x, event, entries) ==
  LET episode == SecurityAttachments(Latest(event), "episode")
      urls == IF episode # {} THEN episode ELSE SecurityAttachments(Latest(event), "series")
  IN /\ urls # {}
     /\ \A u \in urls : Bytes(x, u) \in DOMAIN PolicyOf /\ PolicyOf[Bytes(x, u)] = entries
     /\ event.eav = entries

PolicyIsUnanimous ==
  \A key \in DOMAIN policies :
    key[1] = "event" =>
      \E i \in DOMAIN runs :
        \E event \in Ours(history[runs[i].export].events) :
          event.id = key[2] /\ Says(history[runs[i].export], event, policies[key])

\* The bytes are put before a row names them: wherever a run dies, no element,
\* link or snapshot names an object that was not stored.
NamedIsStored ==
  /\ \A id \in DOMAIN elements : elements[id].sha \in cas
  /\ \A url \in DOMAIN urlMap : urlMap[url] \in cas
  /\ \A k \in DOMAIN snapshots :
       /\ {snapshots[k].manifest, snapshots[k].source} \subseteq cas
       /\ \A entry \in snapshots[k].manifest[3] : entry[2] \in cas

\* A link keeps its content (recordURL): no run changes or drops what an
\* earlier version, run or export recorded for a url.
LinkKeepsItsContent ==
  [][\A url \in DOMAIN urlMap : url \in DOMAIN urlMap' /\ urlMap'[url] = urlMap[url]]_vars

\* A re-run converges (Run): once a run has completed without a hold, another
\* over the same export changes nothing, at any of its steps.
Settled == OneExport /\ \E i \in DOMAIN runs : runs[i].outcome = "complete"
RerunIsQuiet == [][Settled' /\ Settled => UNCHANGED target]_vars

\* A run ends: no hold, error or missing file makes it go round.
EveryRunEnds == pc # "idle" ~> pc = "idle"

\* "A HOLD is a report, not a crash" (report.go): only a failed read or
\* statement, or bytes the export does not have, end a run as failed.
Sound(x) ==
  \A event \in Ours(x.events) :
    \A version \in Members(event.versions) : \A el \in Members(version.elements) :
      Bytes(x, el.url) # NoFile
HoldIsNoCrash ==
  \A i \in DOMAIN runs : runs[i].outcome = "failed" /\ Sound(history[runs[i].export]) => faults > 0
=============================================================================

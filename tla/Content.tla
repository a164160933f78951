------------------------------ MODULE Content ------------------------------
(***************************************************************************)
(* The stored event of ocng and its search projection:                     *)
(* src/internal/mediapackage, acl, search/project.go and the operations of *)
(* ops/inline.go, written by admin requests and by workflow operations.    *)
(*                                                                         *)
(* Every writer is one Postgres transaction at READ COMMITTED.  An action  *)
(* is one SQL statement: it reads the rows committed before it and the     *)
(* transaction's own writes, and waits for the lock of a row that another  *)
(* open transaction wrote.  "insert ... on conflict do update" is two      *)
(* actions, because the row it writes is computed under the statement's    *)
(* snapshot and may then wait for the lock: when it gets it, it writes     *)
(* what it computed before.                                                *)
(*                                                                         *)
(* A transaction is the sequence of the statements it has still to run.    *)
(* Rows that every writer locks right after the mediapackage row           *)
(* (mp_metadata) or with the row they belong to (tags) are left out.  A    *)
(* definition marked "mutant" is the one below it with a bug in it; no     *)
(* action uses it.                                                         *)
(***************************************************************************)
EXTENDS Integers, Sequences, FiniteSets, SequencesExt

CONSTANTS
  Events,     \* ids of mediapackages
  SeriesIds,
  Source,     \* the element the event was ingested with
  Encoded,    \* the element a workflow operation adds
  EngagePlayer, OtherChannel,  \* the portal's channel, and one that is not
  Roles,
  InitialSeries,  \* series_id of the events at the start
  Policies,   \* policies the requests may set: sets of <<role, action, allow>>
  Titles,
  Sessions,   \* transactions that may be open at the same time
  MaxTx,      \* bound: transactions in a behaviour
  NoRow,      \* the row does not exist
  NoSeries    \* series_id is null

Elements == {Source, Encoded}
Channels == {EngagePlayer, OtherChannel}
AclEntries == Roles \X {"read", "write"} \X BOOLEAN

ASSUME EventsAssumption == IsFiniteSet(Events)
ASSUME ElementAssumption == Source # Encoded
ASSUME ChannelAssumption == EngagePlayer # OtherChannel
ASSUME SeriesAssumption == NoSeries \notin SeriesIds /\ SeriesIds \cap Events = {}
ASSUME TitlesAssumption == Titles # {}
ASSUME InitialSeriesAssumption == InitialSeries \in SeriesIds \cup {NoSeries}
ASSUME PolicyAssumption == \A p \in Policies : p \subseteq AclEntries
ASSUME MaxTxAssumption == MaxTx \in Nat

Mp(e) == <<"mediapackage", e>>
Element(e, el) == <<"mp_element", <<e, el>>>>
Snapshots(e) == <<"mp_snapshot", e>>
Publication(e, c) == <<"publication", <<e, c>>>>
SearchEvent(e) == <<"search_event", e>>
Series(s) == <<"series", s>>
SearchSeries(s) == <<"search_series", s>>
Policy(id) == <<"acl", id>>

Rows ==
  ({"mediapackage", "mp_snapshot", "search_event", "acl"} \X Events)
  \cup ({"mp_element"} \X (Events \X Elements))
  \cup ({"publication"} \X (Events \X Channels))
  \cup ({"series", "search_series", "acl"} \X SeriesIds)

VARIABLES
  db,         \* the committed rows
  open,       \* sessions with a transaction (or a request before its first statement)
  todo,       \* statements the session's transaction has still to run
  writes,     \* rows it wrote
  shares,     \* element rows it references: FOR KEY SHARE
  begun,      \* transactions begun, bounded by MaxTx
  overlapped  \* history: two transactions were open at the same time

session == <<todo, writes, shares>>
vars == <<db, open, session, begun, overlapped>>

Empty == [k \in {} |-> NoRow]
With(f, k, row) == [l \in DOMAIN f \cup {k} |-> IF l = k THEN row ELSE f[l]]

-----------------------------------------------------------------------------
(* What the projection derives: projectEventSQL and projectSeriesSQL, as   *)
(* functions of the rows a statement sees.                                 *)

Exists(v, k) == v[k] # NoRow
Entries(v, id) == IF Exists(v, Policy(id)) THEN v[Policy(id)] ELSE {}

AclState(v, id) ==
  IF ~Exists(v, Policy(id)) THEN "ABSENT"
  ELSE IF v[Policy(id)] = {} THEN "EMPTY" ELSE "POPULATED"

\* A role may act if it is allowed to and not denied.
Allowed(v, id, action) ==
  {r \in Roles : /\ <<r, action, TRUE>> \in Entries(v, id)
                 /\ <<r, action, FALSE>> \notin Entries(v, id)}
ReadRoles(v, id) == Allowed(v, id, "read")
WriteRoles(v, id) == Allowed(v, id, "write")

OnChannels(v, e) == {c \in Channels : Exists(v, Publication(e, c))}

EventRowFromArchive(v, e) ==                                            \* mutant
  LET s == v[Mp(e)].series
  IN [series      |-> s,
      seriesTitle |-> IF s # NoSeries THEN v[Series(s)].title ELSE NoRow,
      state       |-> AclState(v, e),
      read        |-> ReadRoles(v, e),
      write       |-> WriteRoles(v, e),
      published   |-> OnChannels(v, e) # {},
      pubRead     |-> IF EngagePlayer \in OnChannels(v, e) THEN ReadRoles(v, e) ELSE {}]

\* Published on any channel; readable by the pin of the portal's.
EventRow(v, e) ==
  LET s == v[Mp(e)].series
  IN [series      |-> s,
      seriesTitle |-> IF s # NoSeries THEN v[Series(s)].title ELSE NoRow,
      state       |-> AclState(v, e),
      read        |-> ReadRoles(v, e),
      write       |-> WriteRoles(v, e),
      published   |-> OnChannels(v, e) # {},
      pubRead     |-> IF EngagePlayer \in OnChannels(v, e)
                      THEN v[Publication(e, EngagePlayer)].read ELSE {}]

\* The published episodes of a series, read off the projection.
Published(v, s) ==
  {e \in Events : /\ Exists(v, SearchEvent(e))
                  /\ v[SearchEvent(e)].series = s
                  /\ v[SearchEvent(e)].published}

SeriesRow(v, s) ==
  [title        |-> v[Series(s)].title,
   state        |-> AclState(v, s),
   read         |-> ReadRoles(v, s),
   write        |-> WriteRoles(v, s),
   hasPublished |-> Published(v, s) # {},
   pubRead      |-> UNION {v[SearchEvent(e)].pubRead : e \in Published(v, s)}]

\* What PublishTx pins.
Pin(v, e) == [state |-> AclState(v, e), read |-> ReadRoles(v, e)]

-----------------------------------------------------------------------------
(* Statements and transactions *)

Stmt(op, key, val) == <<op, key, val>>

SetTx(id, policy) == Stmt("put", Policy(id), policy)
ProjectEvent(e) == Stmt("projectEvent", e, NoRow)
ProjectSeries(s) == Stmt("projectMembers", s, NoRow)

SetACLProjectedFirst(e, policy) == <<ProjectEvent(e), SetTx(e, policy)>>    \* mutant
SetACL(e, policy) == <<SetTx(e, policy), ProjectEvent(e)>>

SetSeriesACL(s, policy, override) ==
  <<SetTx(s, policy)>>
    \o (IF override THEN <<Stmt("override", s, policy)>> ELSE <<>>)
    \o <<ProjectSeries(s)>>

SetEventDC(e, s) == <<Stmt("setSeries", Mp(e), s), ProjectEvent(e)>>

PutSeries(s, title) == <<Stmt("setTitle", Series(s), title), ProjectSeries(s)>>

TombstoneEventKeepsElements(e) ==                                       \* mutant
  <<Stmt("tombstone", Mp(e), NoRow),
    Stmt("delete", Publication(e, EngagePlayer), NoRow),
    Stmt("delete", Publication(e, OtherChannel), NoRow),
    Stmt("delete", Snapshots(e), NoRow), ProjectEvent(e)>>

TombstoneEvent(e) ==
  <<Stmt("tombstone", Mp(e), NoRow),
    Stmt("delete", Publication(e, EngagePlayer), NoRow),
    Stmt("delete", Publication(e, OtherChannel), NoRow),
    Stmt("delete", Element(e, Source), NoRow),
    Stmt("delete", Element(e, Encoded), NoRow),
    Stmt("delete", Snapshots(e), NoRow),
    ProjectEvent(e)>>

TombstoneSeries(s) == <<Stmt("tombstone", Series(s), NoRow), ProjectSeries(s)>>

\* The mutations of the operations, run by CompleteTask in its transaction.
PublishUnprojected(e, c, els) ==                                        \* mutant
  <<Stmt("pin", Publication(e, c), NoRow), Stmt("reference", Publication(e, c), els)>>
Publish(e, c, els) ==
  <<Stmt("pin", Publication(e, c), NoRow), Stmt("reference", Publication(e, c), els),
    ProjectEvent(e)>>

SnapshotUnlocked(e) == <<Stmt("addVersion", Snapshots(e), NoRow)>>       \* mutant
Snapshot(e) ==
  <<Stmt("lock", Mp(e), NoRow), Stmt("addVersion", Snapshots(e), NoRow)>>

InsertElement(e) == <<Stmt("put", Element(e, Encoded), "row")>>

\* The probed tracks, in the order of a Go map, then the mediapackage.
Inspect(e, tracks) ==
  [i \in DOMAIN tracks |-> Stmt("tech", e, tracks[i])]
    \o <<Stmt("duration", e, NoRow), ProjectEvent(e)>>

\* The mediapackage row of a repeated ingest is there already.
Materialise(e) == <<ProjectEvent(e)>>

-----------------------------------------------------------------------------
\* Before the first request: events of InitialSeries, ingested, with no
\* policy and no publication, and their projection.
Stored0 ==
  [k \in Rows |->
     CASE k[1] = "mediapackage" -> [series |-> InitialSeries, deleted |-> FALSE]
       [] k[1] = "series" -> [title |-> CHOOSE t \in Titles : TRUE, deleted |-> FALSE]
       [] k[1] = "mp_element" /\ k[2][2] = Source -> "row"
       [] OTHER -> NoRow]

Init ==
  /\ db = [k \in Rows |->
       CASE k[1] = "search_event" -> EventRow(Stored0, k[2])
         [] k[1] = "search_series" -> SeriesRow(Stored0, k[2])
         [] OTHER -> Stored0[k]]
  /\ open = {}
  /\ todo = [x \in Sessions |-> <<>>]
  /\ writes = [x \in Sessions |-> Empty]
  /\ shares = [x \in Sessions |-> {}]
  /\ begun = 0
  /\ overlapped = FALSE

\* The rows a statement of x sees, and the rows others keep it from.
View(x) == [k \in Rows |-> IF k \in DOMAIN writes[x] THEN writes[x][k] ELSE db[k]]
Locked(x, k) == \E y \in Sessions \ {x} : k \in DOMAIN writes[y]
Referenced(x, k) == \E y \in Sessions \ {x} : k \in shares[y]

-----------------------------------------------------------------------------
(* Requests: what a handler or an operation's body reads before it opens   *)
(* its transaction.                                                        *)

Begin(x, program) ==
  /\ x \notin open
  /\ begun < MaxTx
  /\ begun' = begun + 1
  /\ open' = open \cup {x}
  /\ todo' = [todo EXCEPT ![x] = program]
  /\ overlapped' = (overlapped \/ open # {})
  /\ UNCHANGED <<db, writes, shares>>

\* requireEventWrite and requireSeriesWrite.
Live(e) == ~db[Mp(e)].deleted
LiveSeries(s) == ~db[Series(s)].deleted

EventAccessWrite(x, e) == Live(e) /\ \E p \in Policies : Begin(x, SetACL(e, p))

EventDelete(x, e) == Live(e) /\ Begin(x, TombstoneEvent(e))

\* A partial edit that names a series, names none, or keeps the one it read.
EventMetadataEdit(x, e) ==
  /\ Live(e)
  /\ \E s \in SeriesIds \cup {NoSeries, db[Mp(e)].series} : Begin(x, SetEventDC(e, s))

SeriesAccessWrite(x, s) ==
  /\ LiveSeries(s)
  /\ \E p \in Policies, override \in BOOLEAN : Begin(x, SetSeriesACL(s, p, override))

SeriesMetadataEdit(x, s) ==
  LiveSeries(s) /\ \E t \in Titles : Begin(x, PutSeries(s, t))

SeriesDelete(x, s) == LiveSeries(s) /\ Begin(x, TombstoneSeries(s))

\* The bodies of the operations do not look at deleted_at.
Stored(e) == {el \in Elements : Exists(db, Element(e, el))}

PublishBody(x, e) ==
  Stored(e) # {} /\ \E c \in Channels : Begin(x, Publish(e, c, Stored(e)))

SnapshotBody(x, e) == Stored(e) # {} /\ Begin(x, Snapshot(e))

\* The element has a fresh id; the model has one such element per event.
EncodeBody(x, e) ==
  Source \in Stored(e) /\ Encoded \notin Stored(e) /\ Begin(x, InsertElement(e))

\* Both elements are tracks.
InspectBody(x, e) ==
  Stored(e) # {} /\ \E tracks \in SetToSeqs(Stored(e)) : Begin(x, Inspect(e, tracks))

Ingest(x, e) == Begin(x, Materialise(e))

Request(x) ==
  \/ \E e \in Events :
       \/ EventAccessWrite(x, e) \/ EventDelete(x, e) \/ EventMetadataEdit(x, e)
       \/ PublishBody(x, e) \/ SnapshotBody(x, e) \/ EncodeBody(x, e)
       \/ InspectBody(x, e) \/ Ingest(x, e)
  \/ \E s \in SeriesIds :
       SeriesAccessWrite(x, s) \/ SeriesMetadataEdit(x, s) \/ SeriesDelete(x, s)

-----------------------------------------------------------------------------
(* Running a statement *)

Next1(x, op) == x \in open /\ todo[x] # <<>> /\ Head(todo[x])[1] = op
Key(x) == Head(todo[x])[2]
Val(x) == Head(todo[x])[3]

Continue(x, program) == todo' = [todo EXCEPT ![x] = program \o Tail(@)]
Write(x, k, row) == writes' = [writes EXCEPT ![x] = With(@, k, row)]

\* An upsert of a row whose content is known, or computed before.
Put(x) ==
  /\ Next1(x, "put")
  /\ ~Locked(x, Key(x))
  /\ Write(x, Key(x), Val(x))
  /\ Continue(x, <<>>)
  /\ UNCHANGED shares

\* A delete does not see, and does not wait for, an uncommitted insert.  An
\* element row that a publication references cannot go.
ReferencedBy(v, el) ==
  \E e \in Events : \E c \in OnChannels(v, e) :
    \E f \in v[Publication(e, c)].elements : Element(e, f) = el

Delete(x) ==
  LET k == Key(x)
  IN
  /\ Next1(x, "delete")
  /\ \/ ~Exists(View(x), k) /\ UNCHANGED writes
     \/ /\ Exists(View(x), k)
        /\ ~Locked(x, k) /\ ~Referenced(x, k)
        /\ ~ReferencedBy(View(x), k)
        /\ Write(x, k, NoRow)
  /\ Continue(x, <<>>)
  /\ UNCHANGED shares

\* update ... set deleted_at = now() where ... and deleted_at is null
Tombstone(x) ==
  LET k == Key(x)
      row == View(x)[k]
  IN
  /\ Next1(x, "tombstone")
  /\ ~Locked(x, k)
  /\ IF row.deleted
     THEN todo' = [todo EXCEPT ![x] = <<>>] /\ UNCHANGED writes
     ELSE Write(x, k, [row EXCEPT !.deleted = TRUE]) /\ Continue(x, <<>>)
  /\ UNCHANGED shares

\* update mediapackage set ... series_id where ... and deleted_at is null
SetSeries(x) ==
  LET k == Key(x)
      row == View(x)[k]
  IN
  /\ Next1(x, "setSeries")
  /\ ~Locked(x, k)
  /\ IF row.deleted THEN UNCHANGED writes
     ELSE Write(x, k, [row EXCEPT !.series = Val(x)])
  /\ Continue(x, <<>>)
  /\ UNCHANGED shares

\* insert into series ... on conflict do update: deleted_at is not touched.
SetTitle(x) ==
  LET k == Key(x)
  IN
  /\ Next1(x, "setTitle")
  /\ ~Locked(x, k)
  /\ Write(x, k, [View(x)[k] EXCEPT !.title = Val(x)])
  /\ Continue(x, <<>>)
  /\ UNCHANGED shares

\* select 1 from mediapackage where id = $1 for update
LockRow(x) ==
  /\ Next1(x, "lock")
  /\ ~Locked(x, Key(x))
  /\ Write(x, Key(x), View(x)[Key(x)])
  /\ Continue(x, <<>>)
  /\ UNCHANGED shares

AddVersionUnbumped(x) ==                                                \* mutant
  LET k == Key(x)
      last == IF Exists(View(x), k) THEN View(x)[k] ELSE 0
  IN
  /\ Next1(x, "addVersion")
  /\ ~Locked(x, k)
  /\ Write(x, k, last)
  /\ Continue(x, <<>>)
  /\ UNCHANGED shares

\* The version is max(version) + 1; its uniqueness is a constraint.
AddVersion(x) ==
  LET k == Key(x)
      last == IF Exists(View(x), k) THEN View(x)[k] ELSE 0
  IN
  /\ Next1(x, "addVersion")
  /\ ~Locked(x, k)
  /\ Write(x, k, last + 1)
  /\ Continue(x, <<>>)
  /\ UNCHANGED shares

\* PublishTx: the pin is computed, then the row is locked and written.
ComputePin(x) ==
  LET k == Key(x)
  IN
  /\ Next1(x, "pin")
  /\ Continue(x, <<Stmt("putPin", k, Pin(View(x), k[2][1]))>>)
  /\ UNCHANGED <<writes, shares>>

PutPin(x) ==
  LET k == Key(x)
      old == IF Exists(View(x), k) THEN View(x)[k].elements ELSE {}
  IN
  /\ Next1(x, "putPin")
  /\ ~Locked(x, k)
  /\ Write(x, k, [state |-> Val(x).state, read |-> Val(x).read, elements |-> old])
  /\ Continue(x, <<>>)
  /\ UNCHANGED shares

\* The reference set is replaced; a referenced element must exist and stays.
\* FOR KEY SHARE waits for who removes the row, not for who updates it.
ResolvableUnchecked(x, e, els) == els # {}                              \* mutant
Resolvable(x, e, els) == \A el \in els : Exists(View(x), Element(e, el))

Removed(x, k) == \E y \in Sessions \ {x} : k \in DOMAIN writes[y] /\ writes[y][k] = NoRow

Reference(x) ==
  LET k == Key(x)
      e == k[2][1]
      keys == {Element(e, el) : el \in Val(x)}
  IN
  /\ Next1(x, "reference")
  /\ \A l \in keys : ~Removed(x, l)
  /\ Resolvable(x, e, Val(x))
  /\ Write(x, k, [View(x)[k] EXCEPT !.elements = Val(x)])
  /\ shares' = [shares EXCEPT ![x] = @ \cup keys]
  /\ Continue(x, <<>>)

\* SetElementTech: update mp_element set tech ... where id = $1
UpdateTech(x) ==
  LET k == Element(Key(x), Val(x))
  IN
  /\ Next1(x, "tech")
  /\ \/ ~Exists(View(x), k) /\ UNCHANGED writes
     \/ Exists(View(x), k) /\ ~Locked(x, k) /\ Write(x, k, View(x)[k])
  /\ Continue(x, <<>>)
  /\ UNCHANGED shares

\* SetDurationIfNull: update mediapackage ... where id = $1 and duration_ms is
\* null.  Whether it is null is left open.
UpdateDuration(x) ==
  LET k == Mp(Key(x))
  IN
  /\ Next1(x, "duration")
  /\ \/ UNCHANGED writes
     \/ ~Locked(x, k) /\ Write(x, k, View(x)[k])
  /\ Continue(x, <<>>)
  /\ UNCHANGED shares

-----------------------------------------------------------------------------
(* ProjectEvent and ProjectSeries: what they read decides what they run *)

ReadEvent(x) ==
  LET e == Key(x)
      row == View(x)[Mp(e)]
  IN
  /\ Next1(x, "projectEvent")
  /\ Continue(x,
       <<IF row.deleted THEN Stmt("delete", SearchEvent(e), NoRow)
         ELSE Stmt("eventRow", e, NoRow)>>
       \o (IF row.series = NoSeries THEN <<>>
           ELSE <<Stmt("projectSeries", row.series, NoRow)>>))
  /\ UNCHANGED <<writes, shares>>

ComputeEventRow(x) ==
  LET e == Key(x)
  IN
  /\ Next1(x, "eventRow")
  /\ Continue(x, <<Stmt("put", SearchEvent(e), EventRow(View(x), e))>>)
  /\ UNCHANGED <<writes, shares>>

ReadSeries(x) ==
  LET s == Key(x)
  IN
  /\ Next1(x, "projectSeries")
  /\ Continue(x, <<IF View(x)[Series(s)].deleted
                   THEN Stmt("delete", SearchSeries(s), NoRow)
                   ELSE Stmt("seriesRow", s, NoRow)>>)
  /\ UNCHANGED <<writes, shares>>

ComputeSeriesRow(x) ==
  LET s == Key(x)
  IN
  /\ Next1(x, "seriesRow")
  /\ Continue(x, <<Stmt("put", SearchSeries(s), SeriesRow(View(x), s))>>)
  /\ UNCHANGED <<writes, shares>>

\* The members are read without an order by.
Members(v, s) == {e \in Events : v[Mp(e)].series = s /\ ~v[Mp(e)].deleted}

ReadMembers(x) ==
  LET s == Key(x)
  IN
  /\ Next1(x, "projectMembers")
  /\ \E order \in SetToSeqs(Members(View(x), s)) :
       Continue(x, [i \in DOMAIN order |-> Stmt("eventRow", order[i], NoRow)]
                   \o <<Stmt("projectSeries", s, NoRow)>>)
  /\ UNCHANGED <<writes, shares>>

Override(x) ==
  LET s == Key(x)
  IN
  /\ Next1(x, "override")
  /\ \E order \in SetToSeqs(Members(View(x), s)) :
       Continue(x, [i \in DOMAIN order |-> SetTx(order[i], Val(x))])
  /\ UNCHANGED <<writes, shares>>

Statement(x) ==
  \/ Put(x) \/ Delete(x) \/ Tombstone(x) \/ SetSeries(x) \/ SetTitle(x)
  \/ LockRow(x) \/ AddVersion(x) \/ ComputePin(x) \/ PutPin(x) \/ Reference(x)
  \/ ReadEvent(x) \/ ComputeEventRow(x) \/ ReadSeries(x) \/ ComputeSeriesRow(x)
  \/ ReadMembers(x) \/ Override(x) \/ UpdateTech(x) \/ UpdateDuration(x)

-----------------------------------------------------------------------------
Close(x) ==
  /\ open' = open \ {x}
  /\ todo' = [todo EXCEPT ![x] = <<>>]
  /\ writes' = [writes EXCEPT ![x] = Empty]
  /\ shares' = [shares EXCEPT ![x] = {}]
  /\ UNCHANGED <<begun, overlapped>>

Commit(x) ==
  /\ x \in open /\ todo[x] = <<>>
  /\ db' = View(x)
  /\ Close(x)

\* An error, a violated constraint, a crash or a lost task.
Rollback(x) ==
  /\ x \in open
  /\ UNCHANGED db
  /\ Close(x)

Next ==
  \E x \in Sessions :
    \/ Request(x)
    \/ Statement(x) /\ UNCHANGED <<db, open, begun, overlapped>>
    \/ Commit(x)
    \/ Rollback(x)

Spec == Init /\ [][Next]_vars

-----------------------------------------------------------------------------
(* Properties *)

EventRows == [series : SeriesIds \cup {NoSeries}, seriesTitle : Titles \cup {NoRow},
              state : {"ABSENT", "EMPTY", "POPULATED"}, read : SUBSET Roles,
              write : SUBSET Roles, published : BOOLEAN, pubRead : SUBSET Roles]
SeriesRows == [title : Titles, state : {"ABSENT", "EMPTY", "POPULATED"},
               read : SUBSET Roles, write : SUBSET Roles, hasPublished : BOOLEAN, pubRead : SUBSET Roles]
Publications == [state : {"ABSENT", "EMPTY", "POPULATED"}, read : SUBSET Roles,
                 elements : SUBSET Elements]

\* null is none of the rows that a property tells from it.
ASSUME NoRowAssumption == NoRow \notin {"row"} \cup EventRows

RowOf(table) ==
  CASE table = "mediapackage"  -> [series : SeriesIds \cup {NoSeries}, deleted : BOOLEAN]
    [] table = "series"        -> [title : Titles, deleted : BOOLEAN]
    [] table = "acl"           -> (SUBSET AclEntries) \cup {NoRow}
    [] table = "mp_element"    -> {"row", NoRow}
    [] table = "mp_snapshot"   -> (Nat \ {0}) \cup {NoRow}
    [] table = "publication"   -> Publications \cup {NoRow}
    [] table = "search_event"  -> EventRows \cup {NoRow}
    [] table = "search_series" -> SeriesRows \cup {NoRow}

\* Every committed row has its table's type.
TypeOK ==
  /\ DOMAIN db = Rows
  /\ \A k \in Rows : db[k] \in RowOf(k[1])
  /\ open \subseteq Sessions
  /\ begun \in 0 .. MaxTx
  /\ overlapped \in BOOLEAN
  /\ \A x \in Sessions :
       /\ DOMAIN writes[x] \subseteq Rows
       /\ shares[x] \subseteq Rows
       /\ x \notin open => todo[x] = <<>> /\ writes[x] = Empty /\ shares[x] = {}

\* What Rebuild would produce for an event.
Rebuilt(e) == IF db[Mp(e)].deleted THEN NoRow ELSE EventRow(db, e)

\* As long as no two transactions overlap, the event rows of the projection
\* are those of a rebuild: no writer forgets a row its change shows in
\* (project.go:32-35).
SerialProjection ==
  ~overlapped /\ open = {} => \A e \in Events : db[SearchEvent(e)] = Rebuilt(e)

\* Whatever a publication references exists, though an event may be deleted
\* while an operation that read its elements before is publishing it
\* (ops/inline.go:175-206, mediapackage/write.go:140-172).
PublishedElementsExist ==
  \A e \in Events : \A c \in OnChannels(db, e) :
    \A el \in db[Publication(e, c)].elements : Exists(db, Element(e, el))

\* Two snapshots of a mediapackage never compute the same version: who is
\* about to add one finds no other transaction's uncommitted version
\* (ops/inline.go:135-146).
VersionsSerialized ==
  \A x, y \in Sessions : \A e \in Events :
    x # y /\ Next1(x, "addVersion") /\ Key(x) = Snapshots(e) =>
      Snapshots(e) \notin DOMAIN writes[y]

\* The rows a session's next statement may wait for.
WaitsFor(x, k) ==
  \/ Next1(x, "reference") /\ \E el \in Val(x) : k = Element(Key(x)[2][1], el)
  \/ \E op \in {"put", "tombstone", "setSeries", "setTitle", "lock", "addVersion",
                "putPin"} : Next1(x, op) /\ k = Key(x)
  \/ Next1(x, "delete") /\ k = Key(x) /\ Exists(View(x), k)
  \/ Next1(x, "tech") /\ k = Element(Key(x), Val(x)) /\ Exists(View(x), k)
  \/ Next1(x, "duration") /\ k = Mp(Key(x))

Holdings(y) == DOMAIN writes[y] \cup shares[y]

\* Two writers wait for each other in two cases only; all others lock in one
\* order: what an event is made of, then the policy, then the event's row of
\* the projection, then the series' row.  Two writers of a series with several
\* members lock the members' rows in the order they happened to read them
\* (project.go:162-175).  And an inspection locks the elements of its event,
\* in the order of a Go map, before the mediapackage row, which a delete locks
\* first (encode_inspect.go:215-222, mediapackage/write.go:142-163).
MemberRows(e) == {SearchEvent(e), Policy(e)}
OwnRows(e) == {Mp(e)} \cup {Element(e, el) : el \in Elements}
Inspecting(x, e) == (Next1(x, "tech") \/ Next1(x, "duration")) /\ Key(x) = e

NoDeadlock ==
  \A x, y \in Sessions : x # y =>
    \A k \in Holdings(y), l \in Holdings(x) :
      WaitsFor(x, k) /\ WaitsFor(y, l) =>
        \/ \E e, f \in Events : e # f /\ k \in MemberRows(e) /\ l \in MemberRows(f)
        \/ \E e \in Events : {k, l} \subseteq OwnRows(e)
                            /\ (Inspecting(x, e) \/ Inspecting(y, e))

\* "a projection can never drift from what a rebuild would produce"
\* (project.go:34-35), "no second store and no cross-node index-writer race
\* window" (metadata.go:3-5): once nothing is in flight, though transactions
\* overlapped.
NeverDrifts == open = {} => \A e \in Events : db[SearchEvent(e)] = Rebuilt(e)

\* "nothing drifts to repair" (project.go:273-274), of the rows of the
\* series, as long as no two transactions overlap.
SeriesNeverDrift ==
  ~overlapped /\ open = {} => \A s \in SeriesIds :
    db[SearchSeries(s)] = IF db[Series(s)].deleted THEN NoRow ELSE SeriesRow(db, s)
=============================================================================

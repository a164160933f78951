--------------------------- MODULE MigrateProofs ---------------------------
(***************************************************************************)
(* Proofs about Migrate: what a run leaves wherever it dies, what it says  *)
(* of the export when it ends, and that another one over the same export   *)
(* changes nothing.                                                        *)
(*                                                                         *)
(* The inductive invariant is built up in layers, each proved from the     *)
(* ones before it:                                                         *)
(*   Control   the table of runs, and what each label says of the loops;   *)
(*   Keys      foreign keys, and the rows put before others name them;     *)
(*   Stored    the bytes put before rows name them;                        *)
(*   Sources   what stands in a row was in an export some run has read;    *)
(*   Progress  what the run has done or held for all that its loops have   *)
(*             behind them: the series, the events, and of this event the  *)
(*             rows, the policy, the versions and the links so far;        *)
(*   Accounts  Progress when nothing is left, which outlives the process;  *)
(*   Completed Accounts without a hold: all of it is in the target, so the *)
(*             statements of a further run find what they would write.     *)
(***************************************************************************)
EXTENDS Migrate, SequenceTheorems, TLAPS

-----------------------------------------------------------------------------
(* The inductive invariant *)

\* The table of the runs.
RunRows(S) == [export : Nat, outcome : Outcomes, lines : SUBSET S, holds : Nat]
RunsOK ==
  /\ \E S : runs \in Seq(RunRows(S))
  /\ \A i \in DOMAIN runs : runs[i].export \in DOMAIN history

EventLabels == {"row", "materialise", "element", "metadata", "archive", "versions", "copy",
                "url", "manifest", "snapshot", "record", "publish"}
Labels == {"idle", "series", "series acl", "events"} \cup EventLabels
Places == [series : Nat \ {0}, event : Nat \ {0}, version : Nat \ {0},
           doc : {"latest", "version", "record"}, element : Nat \ {0}]

\* The labels at which the process is in a document.
InDoc == pc \in EventLabels \ {"metadata", "archive", "versions", "record"}
InRows == pc \in {"row", "materialise", "element"} /\ at.doc = "latest"
InVersions ==
  \/ pc \in {"versions", "manifest", "snapshot"}
  \/ pc \in {"copy", "url"} /\ at.doc = "version"
InRecord ==
  \/ pc \in {"record", "publish"}
  \/ pc \in {"row", "materialise", "element", "copy", "url"} /\ at.doc = "record"

\* What each label says of the loops around it.
Placed ==
  /\ history \in Histories
  /\ faults \in 0 .. MaxFaults
  /\ pc \in Labels /\ at \in Places
  /\ pc # "idle" => runs # <<>> /\ Run.outcome = "running"
  /\ pc \in {"series", "series acl"} => at.event = 1
  /\ pc = "series acl" => at.series \in DOMAIN Export.series /\ Series.org = Org /\ ~Series.deleted
  /\ pc \in {"events"} \cup EventLabels => at.series \notin DOMAIN Export.series
  /\ pc \in EventLabels => at.event \in DOMAIN Export.events /\ Event.org = Org

InDocOK ==
  InDoc =>
    /\ pc \in {"row", "materialise", "element"} => at.doc \in {"latest", "record"}
    /\ pc \in {"copy", "url"} => at.doc \in {"version", "record"}
    /\ pc \in {"manifest", "snapshot"} => at.doc = "version"
    /\ pc = "publish" => at.doc = "record"
    /\ pc = "row" => at.element = 1
    /\ pc \in {"element", "url"} => at.element \in DOMAIN Doc.elements
    /\ pc = "element" => IsOperable(El)
    /\ pc \in {"manifest", "snapshot", "publish"} => at.element \notin DOMAIN Doc.elements
    /\ at.doc = "version" =>
         at.version \in DOMAIN Event.versions /\ Event.versions[at.version].online
    /\ at.doc = "record" => Publishable

\* The elements of the document the loop has behind it.
Before(rows, n) == {rows[j] : j \in {i \in DOMAIN rows : i < n}}
Behind == Before(Doc.elements, at.element)

\* Foreign keys, and the rows that are there before another one names them.
Keys ==
  /\ \A e \in DOMAIN mps : mps[e] \in series \cup {NoRow}
  /\ \A id \in DOMAIN elements : elements[id].mp \in DOMAIN mps
  /\ \A k \in DOMAIN snapshots : k[1] \in DOMAIN mps
  /\ \A e \in DOMAIN publications :
       e \in DOMAIN mps /\ publications[e].elements \subseteq DOMAIN elements
  /\ pc \in EventLabels \ {"row"} => Event.id \in DOMAIN mps
  /\ pc \in {"materialise", "element"} =>
       \A el \in Behind : IsOperable(el) => el.id \in DOMAIN elements
  /\ pc \in {"copy", "url", "publish"} /\ at.doc = "record" =>
       \A el \in Operable(Doc) : el.id \in DOMAIN elements

\* Bytes are put before a row names them.
Stored ==
  /\ NamedIsStored
  /\ pc \in {"element", "url"} => Sha(Export, El) \in cas
  /\ pc \in {"copy", "url", "manifest", "snapshot"} => \A el \in Behind : el.url \in DOMAIN urlMap
  /\ pc = "snapshot" => {Canonical, SourceXML} \subseteq cas

\* What is in the target some run found in its export.
Read(i) == history[runs[i].export]
Sources ==
  /\ \A key \in DOMAIN policies :
       key[1] = "event" =>
         \E i \in DOMAIN runs : \E event \in Ours(Read(i).events) :
           /\ event.id = key[2]
           /\ ResolveArchiveACL(Read(i), Latest(event))
                = [state |-> "present", entries |-> policies[key]]
           /\ event.eav = policies[key]
  /\ \A id \in DOMAIN elements :
       \E i \in DOMAIN runs : \E r \in ElementRows(Read(i)) :
         r[2].id = id /\ elements[id] = [mp |-> r[1], sha |-> Sha(Read(i), r[2])]
  /\ \A e \in DOMAIN publications : \A id \in publications[e].elements :
       \E i \in DOMAIN runs : \E p \in PublishedRows(Read(i), e) :
         id \in {el.id : el \in Operable(p)}

-----------------------------------------------------------------------------
(* The table of the runs *)

\* A step keeps the runs there are, and what they read.
Kept ==
  /\ history' = history
  /\ \A i \in DOMAIN runs : i \in DOMAIN runs' /\ runs'[i].export = runs[i].export

\* A statement of the running process adds at most lines to its run.
Continues ==
  /\ history' = history
  /\ Len(runs') = Len(runs) /\ DOMAIN runs' = DOMAIN runs
  /\ \A i \in DOMAIN runs : /\ runs'[i].export = runs[i].export
                            /\ runs'[i].outcome = runs[i].outcome
  /\ Run.lines \subseteq Run'.lines /\ Run.holds <= Run'.holds

Ends ==
  /\ history' = history
  /\ Len(runs') = Len(runs) /\ DOMAIN runs' = DOMAIN runs
  /\ \A i \in DOMAIN runs : /\ runs'[i].export = runs[i].export
                            /\ i # Len(runs) => runs'[i].outcome = runs[i].outcome
  /\ Run'.lines = Run.lines /\ Run'.holds = Run.holds

LEMMA RunsList ==
  ASSUME RunsOK
  PROVE  /\ Len(runs) \in Nat /\ DOMAIN runs = 1 .. Len(runs)
         /\ runs # <<>> => /\ Len(runs) \in DOMAIN runs
                           /\ Run.export \in DOMAIN history /\ Run.holds \in Nat
                           /\ Run.outcome \in Outcomes
<1>1. PICK S : runs \in Seq(RunRows(S))
  BY DEF RunsOK
<1>2. Len(runs) \in Nat /\ DOMAIN runs = 1 .. Len(runs)
  BY <1>1
<1>3. ASSUME runs # <<>>
      PROVE  Len(runs) \in DOMAIN runs
  BY <1>1, <1>2, <1>3
<1>4. \A i \in 1 .. Len(runs) : runs[i] \in RunRows(S)
  BY <1>1, <1>2, ElementOfSeq
<1>5. \A i \in 1 .. Len(runs) : runs[i].holds \in Nat /\ runs[i].outcome \in Outcomes
  BY <1>4 DEF RunRows
<1> QED
  BY <1>2, <1>3, <1>5 DEF RunsOK, Run

LEMMA RowReported ==
  ASSUME NEW S, NEW r \in RunRows(S), NEW lines, NEW holds \in Nat
  PROVE  [r EXCEPT !.lines = @ \cup lines, !.holds = @ + holds]
           = [export |-> r.export, outcome |-> r.outcome,
              lines |-> r.lines \cup lines, holds |-> r.holds + holds]
<1> DEFINE a == r.export
           b == r.outcome
           c == r.lines
           d == r.holds
<1>1. r = [export |-> a, outcome |-> b, lines |-> c, holds |-> d]
  BY DEF RunRows
<1> HIDE DEF a, b, c, d
<1>2. [r EXCEPT !.lines = @ \cup lines, !.holds = @ + holds]
        = [[r EXCEPT !.lines = @ \cup lines] EXCEPT !.holds = @ + holds]
  BY <1>1
<1> DEFINE u == c \cup lines
           h == d + holds
<1>3. [r EXCEPT !.lines = @ \cup lines] = [export |-> a, outcome |-> b, lines |-> u, holds |-> d]
  BY <1>1
<1> HIDE DEF u
<1>4. [[export |-> a, outcome |-> b, lines |-> u, holds |-> d] EXCEPT !.holds = @ + holds]
        = [[export |-> a, outcome |-> b, lines |-> u, holds |-> d] EXCEPT !.holds = h]
  OBVIOUS
<1> HIDE DEF h
<1>5. [[export |-> a, outcome |-> b, lines |-> u, holds |-> d] EXCEPT !.holds = h]
        = [export |-> a, outcome |-> b, lines |-> u, holds |-> h]
  OBVIOUS
<1> QED
  BY <1>2, <1>3, <1>4, <1>5 DEF a, b, c, d, u, h

LEMMA RunReported ==
  ASSUME RunsOK, runs # <<>>, history' = history,
         NEW lines, NEW holds \in Nat, Report(lines, holds)
  PROVE  /\ RunsOK' /\ Continues
         /\ Run'.lines = Run.lines \cup lines /\ Run'.holds = Run.holds + holds
<1>1. PICK S : runs \in Seq(RunRows(S))
  BY DEF RunsOK
<1> DEFINE T == S \cup lines
           L == Len(runs)
<1>2. L \in Nat /\ DOMAIN runs = 1 .. L /\ L \in 1 .. L
  BY RunsList
<1>3. runs' = [i \in 1 .. L |-> IF i = L
                 THEN [runs[L] EXCEPT !.lines = @ \cup lines, !.holds = @ + holds]
                 ELSE runs[i]]
  BY <1>2 DEF Report
<1>4. \A i \in 1 .. L : runs[i] \in RunRows(S)
  BY <1>1, <1>2, ElementOfSeq
<1>5. \A i \in 1 .. L : runs'[i] \in RunRows(T)
  <2>1. \A r \in RunRows(S) : r \in RunRows(T)
    BY DEF RunRows
  <2>2. /\ runs[L] \in RunRows(S)
        /\ runs[L] = [export |-> runs[L].export, outcome |-> runs[L].outcome,
                      lines |-> runs[L].lines, holds |-> runs[L].holds]
    BY <1>2, <1>4 DEF RunRows
  <2>3. [runs[L] EXCEPT !.lines = @ \cup lines, !.holds = @ + holds]
          = [export |-> runs[L].export, outcome |-> runs[L].outcome,
             lines |-> runs[L].lines \cup lines, holds |-> runs[L].holds + holds]
    BY <2>2, RowReported
  <2>4. /\ runs[L].export \in Nat /\ runs[L].outcome \in Outcomes
        /\ runs[L].lines \subseteq S /\ runs[L].holds + holds \in Nat
    BY <2>2 DEF RunRows
  <2>5. runs[L].lines \cup lines \in SUBSET T
    BY <2>4
  <2>6. [runs[L] EXCEPT !.lines = @ \cup lines, !.holds = @ + holds] \in RunRows(T)
    BY <2>3, <2>4, <2>5 DEF RunRows
  <2> QED
    BY <1>3, <1>4, <2>1, <2>6
<1> HIDE DEF T
<1>6. runs' \in Seq(RunRows(T))
  BY <1>2, <1>3, <1>5
<1>7. Len(runs') = L /\ DOMAIN runs' = DOMAIN runs
  BY <1>2, <1>3, <1>6
<1>8. /\ runs'[L].lines = runs[L].lines \cup lines /\ runs'[L].holds = runs[L].holds + holds
      /\ runs'[L].export = runs[L].export /\ runs'[L].outcome = runs[L].outcome
      /\ runs[L].holds \in Nat
  <2>1. /\ runs[L] \in RunRows(S)
        /\ runs[L] = [export |-> runs[L].export, outcome |-> runs[L].outcome,
                      lines |-> runs[L].lines, holds |-> runs[L].holds]
    BY <1>2, <1>4 DEF RunRows
  <2>2. runs'[L] = [runs[L] EXCEPT !.lines = @ \cup lines, !.holds = @ + holds]
    BY <1>2, <1>3
  <2> QED
    BY <2>1, <2>2 DEF RunRows
<1>9. \A i \in DOMAIN runs : /\ runs'[i].export = runs[i].export
                             /\ runs'[i].outcome = runs[i].outcome
  BY <1>2, <1>3, <1>8
<1>10. RunsOK'
  BY <1>6, <1>7, <1>9 DEF RunsOK
<1> QED
  BY <1>2, <1>7, <1>8, <1>9, <1>10 DEF Continues, Run

LEMMA RunEnded ==
  ASSUME RunsOK, runs # <<>>, history' = history, NEW outcome \in Outcomes, EndRun(outcome)
  PROVE  RunsOK' /\ Ends /\ Run'.outcome = outcome
<1>1. PICK S : runs \in Seq(RunRows(S))
  BY DEF RunsOK
<1> DEFINE L == Len(runs)
<1>2. L \in Nat /\ DOMAIN runs = 1 .. L /\ L \in 1 .. L
  BY RunsList
<1>3. runs' = [i \in 1 .. L |-> IF i = L THEN [runs[L] EXCEPT !.outcome = outcome] ELSE runs[i]]
  BY <1>2 DEF EndRun
<1>4. \A i \in 1 .. L : runs[i] \in RunRows(S)
  BY <1>1, <1>2, ElementOfSeq
<1>5. [runs[L] EXCEPT !.outcome = outcome] \in RunRows(S)
  BY <1>2, <1>4 DEF RunRows
<1>6. runs' \in Seq(RunRows(S))
  BY <1>2, <1>3, <1>4, <1>5
<1>7. Len(runs') = L /\ DOMAIN runs' = DOMAIN runs
  BY <1>2, <1>3, <1>6
<1>8. /\ runs'[L].lines = runs[L].lines /\ runs'[L].holds = runs[L].holds
      /\ runs'[L].export = runs[L].export /\ runs'[L].outcome = outcome
  <2>1. /\ runs[L] \in RunRows(S)
        /\ runs[L] = [export |-> runs[L].export, outcome |-> runs[L].outcome,
                      lines |-> runs[L].lines, holds |-> runs[L].holds]
    BY <1>2, <1>4 DEF RunRows
  <2>2. runs'[L] = [runs[L] EXCEPT !.outcome = outcome]
    BY <1>2, <1>3
  <2> QED
    BY <2>1, <2>2 DEF RunRows
<1>9. \A i \in DOMAIN runs : /\ runs'[i].export = runs[i].export
                             /\ i # L => runs'[i].outcome = runs[i].outcome
  BY <1>2, <1>3, <1>8
<1>10. RunsOK'
  BY <1>6, <1>7, <1>9 DEF RunsOK
<1> QED
  BY <1>2, <1>7, <1>8, <1>9, <1>10 DEF Ends, Run

LEMMA RunStarted ==
  ASSUME RunsOK, history \in Histories, history' = history, NEW i \in DOMAIN history,
         runs' = Append(runs, [export |-> i, outcome |-> "running", lines |-> {}, holds |-> 0])
  PROVE  /\ RunsOK' /\ Kept
         /\ DOMAIN runs' = DOMAIN runs \cup {Len(runs) + 1} /\ Len(runs') = Len(runs) + 1
         /\ \A j \in DOMAIN runs : runs'[j] = runs[j]
         /\ runs' # <<>> /\ Run'.export = i /\ Run'.outcome = "running" /\ Run'.lines = {}
         /\ Run'.holds = 0
<1>1. PICK S : runs \in Seq(RunRows(S))
  BY DEF RunsOK
<1> DEFINE L == Len(runs)
           row == [export |-> i, outcome |-> "running", lines |-> {}, holds |-> 0]
<1>2. L \in Nat /\ DOMAIN runs = 1 .. L
  BY RunsList
<1>3. i \in Nat /\ row \in RunRows(S)
  BY ExportsAssumption DEF IsList, Outcomes, RunRows
<1>4. /\ runs' \in Seq(RunRows(S)) /\ Len(runs') = L + 1 /\ DOMAIN runs' = 1 .. (L + 1)
      /\ runs'[L + 1] = row
      /\ \A j \in 1 .. L : runs'[j] = runs[j]
  BY <1>1, <1>2, <1>3
<1>5. runs' # <<>> /\ Run' = row
  BY <1>2, <1>4 DEF Run
<1>6. RunsOK'
  BY <1>2, <1>4 DEF RunsOK
<1> QED
  BY <1>2, <1>4, <1>5, <1>6 DEF Kept

-----------------------------------------------------------------------------
(* Where the process is *)

LEMMA ExportFacts ==
  ASSUME history \in Histories, NEW i \in DOMAIN history
  PROVE  WellFormed(history[i]) /\ KeyedById(history[i])
  BY ExportsAssumption DEF Members

LEMMA Located ==
  ASSUME RunsOK, Placed, pc # "idle"
  PROVE  /\ WellFormed(Export) /\ KeyedById(Export)
         /\ Len(runs) \in DOMAIN runs /\ Run.export \in DOMAIN history /\ Run.holds \in Nat
         /\ Read(Len(runs)) = Export
         /\ pc \in EventLabels =>
              /\ Event \in Ours(Export.events)
              /\ IsList(Event.versions) /\ Latest(Event) \in Members(Event.versions)
              /\ \A version \in Members(Event.versions) : IsList(version.elements)
<1>1. Len(runs) \in DOMAIN runs /\ Run.export \in DOMAIN history /\ Run.holds \in Nat
  BY RunsList DEF Placed
<1>2. WellFormed(Export) /\ KeyedById(Export)
  BY <1>1, ExportFacts DEF Placed, Export
<1>3. ASSUME pc \in EventLabels
      PROVE  /\ Event \in Ours(Export.events)
             /\ IsList(Event.versions) /\ Latest(Event) \in Members(Event.versions)
             /\ \A version \in Members(Event.versions) : IsList(version.elements)
  <2>1. Event \in Members(Export.events) /\ Event.org = Org
    BY <1>3 DEF Placed, Event, Members
  <2>2. IsList(Event.versions) /\ Len(Event.versions) > 0
    BY <2>1, <1>2 DEF WellFormed
  <2>3. Len(Event.versions) \in DOMAIN Event.versions
    BY <2>2 DEF IsList
  <2> QED
    BY <2>1, <2>2, <2>3, <1>2 DEF WellFormed, Ours, Latest, Members
<1> QED
  BY <1>1, <1>2, <1>3 DEF Read, Export, Run

LEMMA DocFacts ==
  ASSUME RunsOK, Placed, InDocOK, InDoc
  PROVE  /\ IsList(Doc.elements)
         /\ at.doc = "latest" => Doc = Latest(Event)
         /\ at.doc = "version" =>
              Doc = Event.versions[at.version] /\ at.version \in DOMAIN Event.versions
         /\ at.doc = "record" =>
              /\ Doc = PublishedRow(Export, Event.id) /\ Doc \in PublishedRows(Export, Event.id)
              /\ ~Unpublishable(Doc)
<1>1. pc # "idle" /\ pc \in EventLabels /\ at.doc \in {"latest", "version", "record"}
  BY DEF InDoc, EventLabels, Placed, Places
<1>2. /\ WellFormed(Export)
      /\ IsList(Event.versions) /\ Latest(Event) \in Members(Event.versions)
      /\ \A version \in Members(Event.versions) : IsList(version.elements)
  BY <1>1, Located
<1>3. CASE at.doc = "latest"
  BY <1>2, <1>3 DEF Doc
<1>4. CASE at.doc = "version"
  <2>1. Doc = Event.versions[at.version] /\ at.version \in DOMAIN Event.versions
    BY <1>4 DEF Doc, InDocOK
  <2> QED
    BY <1>2, <1>4, <2>1 DEF Members
<1>5. CASE at.doc = "record"
  <2>1. Doc = PublishedRow(Export, Event.id)
    BY <1>5 DEF Doc
  <2>2. PublishedRows(Export, Event.id) # {} /\ ~Unpublishable(Doc)
    BY <1>5, <2>1 DEF InDocOK, Publishable, Unrecorded
  <2>3. Doc \in PublishedRows(Export, Event.id)
    BY <2>1, <2>2 DEF PublishedRow
  <2>4. IsList(Doc.elements)
    BY <2>3, <1>2 DEF PublishedRows, Ours, WellFormed
  <2> QED
    BY <1>5, <2>1, <2>2, <2>3, <2>4
<1> QED
  BY <1>1, <1>3, <1>4, <1>5

LEMMA SameRun ==
  ASSUME RunsOK, Placed, pc # "idle", Continues \/ Ends
  PROVE  Export' = Export /\ Kept
<1>1. Len(runs) \in DOMAIN runs
  BY Located
<1> QED
  BY <1>1 DEF Continues, Ends, Kept, Export, Run

LEMMA SameEvent ==
  ASSUME RunsOK, Placed, pc # "idle", Continues \/ Ends, at'.event = at.event
  PROVE  Event' = Event /\ Archive' = Archive /\ Unrecorded' = Unrecorded
         /\ Publishable' = Publishable
<1>1. Export' = Export
  BY SameRun
<1>2. Event' = Event
  BY <1>1 DEF Event
<1> QED
  BY <1>1, <1>2 DEF Archive, Unrecorded, Publishable

LEMMA SameDoc ==
  ASSUME RunsOK, Placed, pc # "idle", Continues \/ Ends,
         at'.event = at.event, at'.doc = at.doc, at'.version = at.version
  PROVE  Doc' = Doc /\ (at'.element = at.element => El' = El)
<1>1. Export' = Export /\ Event' = Event
  BY SameRun, SameEvent
<1> QED
  BY <1>1 DEF Doc, El

\* A step of Work goes on with its run or ends it.
LEMMA WorkRuns ==
  ASSUME RunsOK, Placed, Work
  PROVE  /\ RunsOK' /\ pc # "idle"
         /\ \/ Continues /\ pc' # "idle"
            \/ Ends /\ pc' = "idle" /\ at' = Start /\ Run'.outcome \in Outcomes \ {"running"}
<1>1. history' = history
  BY DEF Work, SkipSeries, HoldSeries, PutSeries, SetSeriesACL, SkipEvent, InsertMediapackage,
         SkipElement, MaterialiseElement, StoreBytes, InsertElement, SetEventMetadata,
         HoldArchive, HoldPolicy, ReportAbsent, SetEventACL, HoldVersion, CopyVersion,
         PutElementBytes, RecordURL, LinksCopied, PutManifest, UpsertSnapshot, SkipRecord,
         HoldPublication, PreserveRecord, Publish, Finish
<1>2. pc # "idle"
  BY DEF Work, SkipSeries, AtSeries, HoldSeries, PutSeries, SetSeriesACL, SkipEvent,
         InsertMediapackage, SkipElement, MaterialiseElement, InsertElement, SetEventMetadata,
         HoldArchive, HoldPolicy, ReportAbsent, SetEventACL, HoldVersion, CopyVersion,
         PutElementBytes, RecordURL, LinksCopied, PutManifest, UpsertSnapshot, SkipRecord,
         HoldPublication, PreserveRecord, Publish, Finish
<1>3. runs # <<>> /\ Len(runs) \in DOMAIN runs /\ Run.holds \in Nat
  BY <1>2, RunsList DEF Placed
<1>4. ASSUME UNCHANGED runs
      PROVE  RunsOK' /\ Continues
  BY <1>1, <1>3, <1>4 DEF RunsOK, Continues, Run
<1>5. ASSUME NEW lines, NEW holds \in Nat, Report(lines, holds)
      PROVE  RunsOK' /\ Continues
  BY <1>1, <1>3, <1>5, RunReported
<1>6. ASSUME NEW outcome \in Outcomes \ {"running"}, EndRun(outcome)
      PROVE  /\ RunsOK' /\ Ends /\ pc' = "idle" /\ at' = Start
             /\ Run'.outcome \in Outcomes \ {"running"}
  BY <1>1, <1>3, <1>6, RunEnded DEF EndRun, Goto
<1>7. CASE SkipSeries \/ PutSeries
  BY <1>2, <1>4, <1>7 DEF SkipSeries, PutSeries, Goto, NextSeries
<1>8. CASE HoldSeries
  BY <1>2, <1>5, <1>8 DEF HoldSeries, Hold, Goto, NextSeries
<1>9. CASE SetSeriesACL
  BY <1>4, <1>5, <1>9 DEF SetSeriesACL, Goto, NextSeries
<1>10. CASE SkipEvent \/ InsertMediapackage \/ SkipElement \/ InsertElement
  BY <1>4, <1>10 DEF SkipEvent, InsertMediapackage, SkipElement, InsertElement, Goto, NextEvent,
       OverElements, NextElement
<1>11. CASE MaterialiseElement \/ PutElementBytes
  BY <1>4, <1>6, <1>11 DEF MaterialiseElement, PutElementBytes, StoreBytes, Goto, Outcomes
<1>12. CASE SetEventMetadata
  BY <1>4, <1>6, <1>12 DEF SetEventMetadata, Goto, Outcomes
<1>13. CASE HoldArchive \/ HoldPolicy \/ ReportAbsent
  BY <1>5, <1>13 DEF HoldArchive, HoldPolicy, ReportAbsent, Hold, Goto, ToVersions
<1>14. CASE SetEventACL \/ CopyVersion \/ LinksCopied \/ PutManifest \/ UpsertSnapshot
  BY <1>4, <1>14 DEF SetEventACL, CopyVersion, LinksCopied, PutManifest, UpsertSnapshot, Goto,
       ToVersions, NextVersion, OverElements
<1>15. CASE HoldVersion
  BY <1>5, <1>15 DEF HoldVersion, Hold, Goto, NextVersion
<1>16. CASE RecordURL
  BY <1>4, <1>5, <1>16 DEF RecordURL, Hold, Goto, NextElement
<1>17. CASE SkipRecord \/ Publish
  BY <1>4, <1>17 DEF SkipRecord, Publish, Goto, NextEvent
<1>18. CASE HoldPublication \/ PreserveRecord
  BY <1>5, <1>18 DEF HoldPublication, PreserveRecord, Hold, Goto, NextEvent, OverElements
<1>19. CASE Finish
  BY <1>6, <1>19 DEF Finish, Outcomes
<1> QED
  BY <1>2, <1>7, <1>8, <1>9, <1>10, <1>11, <1>12, <1>13, <1>14, <1>15, <1>16, <1>17, <1>18,
     <1>19 DEF Work

LEMMA NextRuns ==
  ASSUME RunsOK, Placed, [Next]_vars
  PROVE  RunsOK' /\ Kept
<1>1. RunsOK /\ runs = runs' /\ history = history' => RunsOK' /\ Kept
  BY DEF RunsOK, Kept
<1>2. CASE StartRun
  BY <1>2, RunStarted DEF StartRun, Placed
<1>3. CASE Work
  BY <1>3, WorkRuns, SameRun
<1>4. CASE Fault
  BY <1>4, RunEnded, RunsList DEF Fault, Placed, Outcomes, Kept, Ends
<1> QED
  BY <1>1, <1>2, <1>3, <1>4 DEF Next, vars, process

-----------------------------------------------------------------------------
(* The labels say what they should of the loops *)

Docs == {"latest", "version", "record"}

LEMMA PlacesMoved ==
  ASSUME NEW a \in Places, NEW doc \in Docs
  PROVE  /\ [a EXCEPT !.series = @ + 1] \in Places
         /\ [a EXCEPT !.event = @ + 1] \in Places
         /\ [a EXCEPT !.version = @ + 1] \in Places
         /\ [a EXCEPT !.version = 1] \in Places
         /\ [a EXCEPT !.element = @ + 1] \in Places
         /\ [a EXCEPT !.doc = doc, !.element = 1] \in Places
<1>1. [a EXCEPT !.series = @ + 1] \in Places
  BY DEF Places
<1>2. [a EXCEPT !.event = @ + 1] \in Places
  BY DEF Places
<1>3. [a EXCEPT !.version = @ + 1] \in Places
  BY DEF Places
<1>4. [a EXCEPT !.version = 1] \in Places
  BY DEF Places
<1>5. [a EXCEPT !.element = @ + 1] \in Places
  BY DEF Places
<1>6. \A b \in Places : [b EXCEPT !.element = 1] \in Places
  BY DEF Places
<1>7. [a EXCEPT !.doc = doc] \in Places
  BY DEF Places, Docs
<1>8. [[a EXCEPT !.doc = doc] EXCEPT !.element = 1] = [a EXCEPT !.doc = doc, !.element = 1]
  BY DEF Places
<1> QED
  BY <1>1, <1>2, <1>3, <1>4, <1>5, <1>6, <1>7, <1>8

LEMMA Moves ==
  ASSUME at \in Places
  PROVE  /\ NextSeries =>
              /\ pc' = "series" /\ at' \in Places /\ at'.series = at.series + 1
              /\ at'.event = at.event
         /\ NextEvent =>
              /\ pc' = "events" /\ at' \in Places /\ at'.event = at.event + 1
              /\ at'.series = at.series
         /\ NextVersion =>
              /\ pc' = "versions" /\ at' \in Places /\ at'.version = at.version + 1
              /\ at'.series = at.series /\ at'.event = at.event
         /\ ToVersions =>
              /\ pc' = "versions" /\ at' \in Places /\ at'.version = 1
              /\ at'.series = at.series /\ at'.event = at.event
         /\ \A loop : NextElement(loop) =>
              /\ pc' = loop /\ at' \in Places /\ at'.element = at.element + 1
              /\ at'.series = at.series /\ at'.event = at.event /\ at'.version = at.version
              /\ at'.doc = at.doc
         /\ \A loop : \A doc \in Docs : OverElements(loop, doc) =>
              /\ pc' = loop /\ at' \in Places /\ at'.doc = doc /\ at'.element = 1
              /\ at'.series = at.series /\ at'.event = at.event /\ at'.version = at.version
<1>1. ASSUME NextSeries
      PROVE  /\ pc' = "series" /\ at' \in Places /\ at'.series = at.series + 1
             /\ at'.event = at.event
  BY <1>1, PlacesMoved DEF NextSeries, Goto, Places, Docs
<1>2. ASSUME NextEvent
      PROVE  /\ pc' = "events" /\ at' \in Places /\ at'.event = at.event + 1
             /\ at'.series = at.series
  BY <1>2, PlacesMoved DEF NextEvent, Goto, Places, Docs
<1>3. ASSUME NextVersion
      PROVE  /\ pc' = "versions" /\ at' \in Places /\ at'.version = at.version + 1
             /\ at'.series = at.series /\ at'.event = at.event
  BY <1>3, PlacesMoved DEF NextVersion, Goto, Places, Docs
<1>4. ASSUME ToVersions
      PROVE  /\ pc' = "versions" /\ at' \in Places /\ at'.version = 1
             /\ at'.series = at.series /\ at'.event = at.event
  BY <1>4, PlacesMoved DEF ToVersions, Goto, Places, Docs
<1>5. ASSUME NEW loop, NextElement(loop)
      PROVE  /\ pc' = loop /\ at' \in Places /\ at'.element = at.element + 1
             /\ at'.series = at.series /\ at'.event = at.event /\ at'.version = at.version
             /\ at'.doc = at.doc
  BY <1>5, PlacesMoved DEF NextElement, Goto, Places, Docs
<1>6. ASSUME NEW loop, NEW doc \in Docs, OverElements(loop, doc)
      PROVE  /\ pc' = loop /\ at' \in Places /\ at'.doc = doc /\ at'.element = 1
             /\ at'.series = at.series /\ at'.event = at.event /\ at'.version = at.version
  BY <1>6, PlacesMoved DEF OverElements, Goto, Places
<1> QED
  BY <1>1, <1>2, <1>3, <1>4, <1>5, <1>6

LEMMA GoesOn ==
  ASSUME RunsOK, Placed, Work, Continues
  PROVE  /\ runs' # <<>> /\ Run'.outcome = "running" /\ history' \in Histories
         /\ faults' \in 0 .. MaxFaults
<1>1. pc # "idle" /\ Len(runs) \in DOMAIN runs /\ RunsOK'
  BY WorkRuns, Located
<1>2. Run'.outcome = "running" /\ history' \in Histories
  BY <1>1 DEF Continues, Run, Placed
<1>3. runs' # <<>>
  BY <1>1 DEF Continues
<1>4. CASE HoldArchive
  BY <1>2, <1>3, <1>4, BoundsAssumption DEF HoldArchive, Placed
<1>5. CASE ~HoldArchive
  <2>1. UNCHANGED faults
    BY <1>5 DEF Work, SkipSeries, HoldSeries, PutSeries, SetSeriesACL, SkipEvent,
         InsertMediapackage,
         SkipElement, MaterialiseElement, StoreBytes, InsertElement, SetEventMetadata,
         HoldPolicy, ReportAbsent, SetEventACL, HoldVersion, CopyVersion,
         PutElementBytes, RecordURL, LinksCopied, PutManifest, UpsertSnapshot, SkipRecord,
         HoldPublication, PreserveRecord, Publish, Finish
  <2> QED
    BY <1>2, <1>3, <2>1 DEF Placed
<1> QED
  BY <1>4, <1>5

LEMMA WorkPlaced ==
  ASSUME RunsOK, Placed, InDocOK, Work
  PROVE  Placed' /\ InDocOK'
<1>1. /\ pc # "idle" /\ history' = history
      /\ \/ Continues /\ pc' # "idle"
         \/ Ends /\ pc' = "idle" /\ at' = Start
  BY WorkRuns DEF Continues, Ends
<1>2. at \in Places /\ pc \in Labels /\ at.doc \in Docs
  BY DEF Placed, Places, Docs
<1>3. CASE Ends /\ pc' = "idle" /\ at' = Start
  <2>1. Start \in Places
    BY DEF Start, Places
  <2>2. faults' \in 0 .. MaxFaults
    <3>1. CASE Finish \/ MaterialiseElement \/ PutElementBytes \/ SetEventMetadata
      BY <3>1 DEF Finish, MaterialiseElement, PutElementBytes, StoreBytes, SetEventMetadata, Placed
    <3>2. CASE ~(Finish \/ MaterialiseElement \/ PutElementBytes \/ SetEventMetadata)
      BY <1>3, <3>2 DEF Work, SkipSeries, HoldSeries, PutSeries, SetSeriesACL, SkipEvent,
         InsertMediapackage, SkipElement, InsertElement, Goto, NextSeries, NextEvent,
         NextElement, NextVersion, OverElements, ToVersions,
         HoldArchive, HoldPolicy, ReportAbsent, SetEventACL, HoldVersion, CopyVersion,
         RecordURL, LinksCopied, PutManifest, UpsertSnapshot, SkipRecord,
         HoldPublication, PreserveRecord, Publish
    <3> QED
      BY <3>1, <3>2
  <2> QED
    BY <1>1, <1>3, <2>1, <2>2 DEF Placed, InDocOK, InDoc, Labels, EventLabels
<1>4. CASE Continues /\ pc' # "idle"
  <2>1. /\ runs' # <<>> /\ Run'.outcome = "running" /\ history' \in Histories
        /\ faults' \in 0 .. MaxFaults /\ Export' = Export
    BY <1>1, <1>4, GoesOn, SameRun
  <2>2. at'.event = at.event =>
          Event' = Event /\ Unrecorded' = Unrecorded /\ Publishable' = Publishable
    BY <1>1, <1>4, SameEvent
  <2>3. at'.event = at.event /\ at'.doc = at.doc /\ at'.version = at.version =>
          Doc' = Doc /\ (at'.element = at.element => El' = El)
    BY <1>1, <1>4, SameDoc
  <2>4. at'.series = at.series => Series' = Series
    BY <2>1 DEF Series
  \* the loop over the series
  <2>5. CASE SkipSeries \/ HoldSeries \/ PutSeries \/ SetSeriesACL
    <3>1. /\ at' \in Places /\ at'.event = at.event
          /\ pc' \in {"series", "series acl", "events"} /\ pc \in {"series", "series acl"}
          /\ pc' = "series acl" =>
               at'.series = at.series /\ at.series \in DOMAIN Export.series
               /\ Series.org = Org /\ ~Series.deleted
          /\ pc' = "events" => at'.series = at.series /\ at.series \notin DOMAIN Export.series
      BY <1>2, <1>4, <2>5, Moves DEF SkipSeries, HoldSeries, PutSeries, SetSeriesACL, AtSeries, Goto
    <3> QED
      BY <2>1, <2>4, <3>1 DEF Placed, InDocOK, InDoc, EventLabels, Labels
  \* to an event, and to the next
  <2>6. CASE SkipEvent
    <3>1. /\ at' \in Places /\ at'.series = at.series /\ pc = "events"
          /\ at.event \in DOMAIN Export.events
          /\ \/ pc' = "events"
             \/ /\ pc' = "row" /\ Event.org = Org /\ at'.event = at.event
                /\ at'.doc = "latest" /\ at'.element = 1
      BY <1>2, <2>6, Moves DEF SkipEvent, Docs
    <3> QED
      BY <2>1, <2>2, <3>1 DEF Placed, InDocOK, InDoc, EventLabels, Labels
  <2>7. CASE SkipRecord \/ HoldPublication \/ Publish
    <3>1. pc' = "events" /\ at' \in Places /\ at'.series = at.series /\ pc \in EventLabels
      BY <1>2, <2>7, Moves DEF SkipRecord, HoldPublication, Publish, EventLabels
    <3> QED
      BY <2>1, <3>1 DEF Placed, InDocOK, InDoc, EventLabels, Labels
  \* in an event, outside of documents
  <2>8. CASE \/ SetEventMetadata \/ HoldArchive \/ HoldPolicy \/ ReportAbsent \/ SetEventACL
             \/ HoldVersion \/ UpsertSnapshot \/ (CopyVersion /\ at.version \notin DOMAIN Event.versions)
    <3>1. /\ pc \in EventLabels /\ pc' \in {"archive", "versions", "record"}
          /\ at' \in Places /\ at'.series = at.series /\ at'.event = at.event
      BY <1>2, <1>4, <2>8, Moves DEF SetEventMetadata, HoldArchive, HoldPolicy, ReportAbsent,
         SetEventACL, HoldVersion, UpsertSnapshot, CopyVersion, Goto, EventLabels, EndRun
    <3> QED
      BY <2>1, <2>2, <3>1 DEF Placed, InDocOK, InDoc, EventLabels, Labels
  \* to a document
  <2>9. CASE CopyVersion /\ at.version \in DOMAIN Event.versions
    <3>1. /\ pc = "versions" /\ pc' = "copy" /\ at' \in Places /\ at'.doc = "version"
          /\ at'.series = at.series /\ at'.event = at.event /\ at'.version = at.version
          /\ Event.versions[at.version].online
      BY <1>2, <2>9, Moves DEF CopyVersion, Docs
    <3> QED
      BY <2>1, <2>2, <2>9, <3>1 DEF Placed, InDocOK, InDoc, EventLabels, Labels
  <2>10. CASE PreserveRecord
    <3>1. /\ pc = "record" /\ pc' = "row" /\ at' \in Places /\ at'.doc = "record"
          /\ at'.series = at.series /\ at'.event = at.event /\ at'.element = 1
          /\ Publishable
      BY <1>2, <2>10, Moves DEF PreserveRecord, Docs
    <3> QED
      BY <2>1, <2>2, <3>1 DEF Placed, InDocOK, InDoc, EventLabels, Labels
  \* in a document
  <2>11. CASE InsertMediapackage \/ MaterialiseElement \/ PutElementBytes \/ PutManifest \/ LinksCopied
    <3>1. /\ at' = at
          /\ \/ pc = "row" /\ pc' = "materialise"
             \/ /\ pc = "materialise" /\ pc' = "element"
                /\ at.element \in DOMAIN Doc.elements /\ IsOperable(El)
             \/ pc = "copy" /\ pc' = "url" /\ at.element \in DOMAIN Doc.elements
             \/ pc = "manifest" /\ pc' = "snapshot"
             \/ /\ pc = "copy" /\ at.element \notin DOMAIN Doc.elements
                /\ pc' = IF at.doc = "version" THEN "manifest" ELSE "publish"
      BY <1>4, <2>11 DEF InsertMediapackage, MaterialiseElement, PutElementBytes, PutManifest,
           LinksCopied, StoreBytes, Goto, EndRun
    <3> QED
      BY <1>2, <2>1, <2>2, <2>3, <3>1 DEF Placed, InDocOK, InDoc, EventLabels, Labels
  <2>12. CASE SkipElement \/ InsertElement \/ RecordURL
    <3>1. /\ at' \in Places /\ at'.doc = at.doc
          /\ at'.series = at.series /\ at'.event = at.event /\ at'.version = at.version
          /\ \/ pc \in {"materialise", "element"} /\ pc' = "materialise"
             \/ pc = "materialise" /\ pc' = IF at.doc = "latest" THEN "metadata" ELSE "copy"
             \/ pc = "url" /\ pc' = "copy"
      BY <1>2, <2>12, Moves DEF SkipElement, InsertElement, RecordURL
    <3> QED
      BY <1>2, <2>1, <2>2, <2>3, <3>1 DEF Placed, InDocOK, InDoc, EventLabels, Labels
  <2>13. ~Finish
    BY <1>4 DEF Finish, EndRun, Goto
  <2> QED
    BY <2>5, <2>6, <2>7, <2>8, <2>9, <2>10, <2>11, <2>12, <2>13 DEF Work
<1> QED
  BY <1>1, <1>3, <1>4

Control == RunsOK /\ Placed /\ InDocOK

LEMMA NextControl ==
  ASSUME Control, [Next]_vars
  PROVE  Control' /\ Kept
<1>1. RunsOK' /\ Kept
  BY NextRuns DEF Control
<1>2. CASE StartRun
  <2>1. /\ runs' # <<>> /\ Run'.outcome = "running"
        /\ pc' = "series" /\ at' = Start /\ UNCHANGED <<history, faults>>
    BY <1>2, RunStarted DEF StartRun, Control, Placed, Goto
  <2>2. Start \in Places /\ Start.event = 1
    BY DEF Start, Places
  <2> QED
    BY <1>1, <2>1, <2>2 DEF Control, Placed, InDocOK, InDoc, EventLabels, Labels
<1>3. CASE Work
  BY <1>1, <1>3, WorkPlaced DEF Control
<1>4. CASE Fault
  <2>1. /\ pc' = "idle" /\ at' = Start /\ UNCHANGED history
        /\ faults \in 0 .. MaxFaults /\ faults < MaxFaults /\ faults' = faults + 1
    BY <1>4 DEF Fault, EndRun, Goto, Control, Placed
  <2>3. faults' \in 0 .. MaxFaults
    BY <2>1, BoundsAssumption
  <2>2. Start \in Places
    BY DEF Start, Places
  <2> QED
    BY <1>1, <2>1, <2>2, <2>3 DEF Control, Placed, InDocOK, InDoc, EventLabels, Labels
<1>5. CASE UNCHANGED vars
  <2>1. UNCHANGED <<history, runs, pc, at, faults>>
    BY <1>5 DEF vars, process
  <2>2. Run' = Run /\ Export' = Export /\ Series' = Series /\ Event' = Event
        /\ Unrecorded' = Unrecorded /\ Publishable' = Publishable
    BY <2>1 DEF Run, Export, Series, Event, Unrecorded, Publishable
  <2>3. Doc' = Doc /\ El' = El
    BY <2>1, <2>2 DEF Doc, El
  <2>4. Placed' /\ InDocOK'
    BY <2>1, <2>2, <2>3 DEF Control, Placed, InDocOK, InDoc
  <2> QED
    BY <1>1, <2>4 DEF Control
<1> QED
  BY <1>2, <1>3, <1>4, <1>5 DEF Next

LEMMA InitControl == Init => Control
<1> SUFFICES ASSUME Init PROVE Control
  OBVIOUS
<1>1. RunsOK
  <2>1. <<>> \in Seq(RunRows({}))
    BY EmptySeq
  <2> QED
    BY <2>1 DEF Init, RunsOK
<1>2. Start \in Places
  BY DEF Start, Places
<1> QED
  BY <1>1, <1>2, BoundsAssumption DEF Init, Control, Placed, InDocOK, InDoc, Labels, EventLabels

\* What a step of Work may write.
LEMMA Writes ==
  ASSUME Work
  PROVE  /\ series' = series \/ PutSeries
         /\ mps' = mps \/ InsertMediapackage \/ SetEventMetadata
         /\ policies' = policies \/ SetSeriesACL \/ SetEventACL
         /\ elements' = elements \/ InsertElement
         /\ urlMap' = urlMap \/ RecordURL
         /\ snapshots' = snapshots \/ UpsertSnapshot
         /\ publications' = publications \/ Publish
         /\ \/ cas' = cas
            \/ MaterialiseElement \/ PutElementBytes \/ PutManifest \/ PreserveRecord
  BY DEF Work, SkipSeries, HoldSeries, PutSeries, SetSeriesACL, SkipEvent, InsertMediapackage,
         SkipElement, MaterialiseElement, StoreBytes, InsertElement, SetEventMetadata,
         HoldArchive, HoldPolicy, ReportAbsent, SetEventACL, HoldVersion, CopyVersion,
         PutElementBytes, RecordURL, LinksCopied, PutManifest, UpsertSnapshot, SkipRecord,
         HoldPublication, PreserveRecord, Publish, Finish, target

\* What grows, whatever the run does.
LEMMA Grows ==
  ASSUME Work
  PROVE  /\ series \subseteq series' /\ cas \subseteq cas'
         /\ DOMAIN mps \subseteq DOMAIN mps' /\ DOMAIN policies \subseteq DOMAIN policies'
         /\ DOMAIN snapshots \subseteq DOMAIN snapshots'
         /\ DOMAIN publications \subseteq DOMAIN publications'
         /\ \A id \in DOMAIN elements : id \in DOMAIN elements' /\ elements'[id] = elements[id]
         /\ \A url \in DOMAIN urlMap : url \in DOMAIN urlMap' /\ urlMap'[url] = urlMap[url]
<1>1. series \subseteq series'
  BY Writes DEF PutSeries
<1>2. cas \subseteq cas'
  BY Writes DEF MaterialiseElement, PutElementBytes, StoreBytes, PutManifest, PreserveRecord
<1>3. DOMAIN mps \subseteq DOMAIN mps'
  <2>1. CASE InsertMediapackage
    BY <2>1 DEF InsertMediapackage, Insert, Put
  <2>2. CASE SetEventMetadata
    BY <2>2 DEF SetEventMetadata, Put
  <2> QED
    BY <2>1, <2>2, Writes
<1>4. DOMAIN policies \subseteq DOMAIN policies'
  <2>1. CASE SetSeriesACL
    BY <2>1 DEF SetSeriesACL, Put
  <2>2. CASE SetEventACL
    BY <2>2 DEF SetEventACL, Put
  <2> QED
    BY <2>1, <2>2, Writes
<1>5. /\ DOMAIN snapshots \subseteq DOMAIN snapshots'
      /\ DOMAIN publications \subseteq DOMAIN publications'
  <2>1. CASE UpsertSnapshot
    BY <2>1 DEF UpsertSnapshot, Put
  <2>2. CASE Publish
    BY <2>2 DEF Publish, Put
  <2> QED
    BY <2>1, <2>2, Writes
<1>6. \A id \in DOMAIN elements : id \in DOMAIN elements' /\ elements'[id] = elements[id]
  <2>1. CASE InsertElement
    BY <2>1 DEF InsertElement, Insert, Put
  <2> QED
    BY <2>1, Writes
<1>7. \A url \in DOMAIN urlMap : url \in DOMAIN urlMap' /\ urlMap'[url] = urlMap[url]
  <2>1. CASE RecordURL
    BY <2>1 DEF RecordURL, Insert, Put
  <2> QED
    BY <2>1, Writes
<1> QED
  BY <1>1, <1>2, <1>3, <1>4, <1>5, <1>6, <1>7

\* What comes after each step, unless the run ends.
LEMMA LabelAfter ==
  ASSUME Control, Work, pc' # "idle"
  PROVE  /\ SkipSeries \/ HoldSeries \/ SetSeriesACL => pc' \in {"series", "events"}
         /\ PutSeries => pc' = "series acl"
         /\ SkipEvent => pc' \in {"row", "events"} /\ (pc' = "row" => at'.doc = "latest")
         /\ InsertMediapackage \/ InsertElement => pc' = "materialise"
         /\ SkipElement => pc' \in {"materialise", "metadata", "copy"}
         /\ MaterialiseElement => pc' = "element"
         /\ SetEventMetadata => pc' = "archive"
         /\ HoldArchive => pc' = "record"
         /\ HoldPolicy \/ ReportAbsent \/ SetEventACL \/ HoldVersion \/ UpsertSnapshot =>
              pc' = "versions"
         /\ CopyVersion => pc' \in {"copy", "record"} /\ (pc' = "copy" => at'.doc = "version")
         /\ PutElementBytes => pc' = "url"
         /\ RecordURL => pc' = "copy"
         /\ LinksCopied => pc' \in {"manifest", "publish"}
         /\ PutManifest => pc' = "snapshot"
         /\ SkipRecord \/ HoldPublication \/ Publish => pc' = "events"
         /\ PreserveRecord => pc' = "row" /\ at'.doc = "record"
         /\ ~Finish
<1>1. at \in Places /\ at.doc \in Docs
  BY DEF Control, Placed, Places, Docs
<1>2. SkipSeries \/ HoldSeries \/ SetSeriesACL => pc' \in {"series", "events"}
  BY DEF SkipSeries, HoldSeries, SetSeriesACL, NextSeries, Goto
<1>3. PutSeries => pc' = "series acl"
  BY DEF PutSeries, Goto
<1>4. SkipEvent => pc' \in {"row", "events"} /\ (pc' = "row" => at'.doc = "latest")
  BY <1>1, Moves DEF SkipEvent, Docs
<1>5. InsertMediapackage \/ InsertElement => pc' = "materialise"
  BY DEF InsertMediapackage, InsertElement, NextElement, Goto
<1>6. SkipElement => pc' \in {"materialise", "metadata", "copy"}
  BY DEF SkipElement, NextElement, OverElements, Goto
<1>7. (MaterialiseElement => pc' = "element") /\ (PutElementBytes => pc' = "url")
  BY DEF MaterialiseElement, PutElementBytes, StoreBytes, Goto, EndRun
<1>8. (SetEventMetadata => pc' = "archive") /\ (HoldArchive => pc' = "record")
  BY DEF SetEventMetadata, HoldArchive, Goto, EndRun
<1>9. HoldPolicy \/ ReportAbsent \/ SetEventACL \/ HoldVersion \/ UpsertSnapshot => pc' = "versions"
  BY DEF HoldPolicy, ReportAbsent, SetEventACL, HoldVersion, UpsertSnapshot, ToVersions,
         NextVersion, Goto
<1>10. CopyVersion => pc' \in {"copy", "record"} /\ (pc' = "copy" => at'.doc = "version")
  BY <1>1, Moves DEF CopyVersion, Docs, Goto
<1>11. RecordURL => pc' = "copy"
  BY DEF RecordURL, NextElement, Goto
<1>12. (LinksCopied => pc' \in {"manifest", "publish"}) /\ (PutManifest => pc' = "snapshot")
  BY DEF LinksCopied, PutManifest, Goto
<1>13. SkipRecord \/ HoldPublication \/ Publish => pc' = "events"
  BY DEF SkipRecord, HoldPublication, Publish, NextEvent, Goto
<1>14. PreserveRecord => pc' = "row" /\ at'.doc = "record"
  BY <1>1, Moves DEF PreserveRecord, Docs
<1>15. ~Finish
  BY DEF Finish, EndRun, Goto
<1> QED
  BY <1>2, <1>3, <1>4, <1>5, <1>6, <1>7, <1>8, <1>9, <1>10, <1>11, <1>12, <1>13, <1>14, <1>15

\* An event is left at the end of its record only, or by the end of the run.
LEMMA StaysInEvent ==
  ASSUME Control, Work, pc' \in EventLabels
  PROVE  /\ Continues /\ at'.event = at.event
         /\ Export' = Export /\ Event' = Event /\ Archive' = Archive
         /\ \/ pc \in EventLabels
            \/ SkipEvent /\ pc' = "row" /\ at'.doc = "latest"
         /\ pc = "row" => InsertMediapackage
<1>1. /\ RunsOK /\ Placed /\ pc # "idle" /\ at \in Places
      /\ Continues
  <2>1. pc' # "idle"
    BY DEF EventLabels
  <2> QED
    BY <2>1, WorkRuns DEF Control, Placed
<1>2. /\ at'.event = at.event
      /\ pc \in EventLabels \/ (SkipEvent /\ pc' = "row" /\ at'.doc = "latest")
      /\ pc = "row" => InsertMediapackage
  <2>1. CASE SkipSeries \/ HoldSeries \/ PutSeries \/ SetSeriesACL
    BY <2>1, <1>1, Moves DEF SkipSeries, HoldSeries, PutSeries, SetSeriesACL, Goto, EventLabels
  <2>2. CASE SkipEvent
    BY <2>2, <1>1, Moves DEF SkipEvent, EventLabels, Docs
  <2>3. CASE SkipRecord \/ HoldPublication \/ Publish
    BY <2>3, <1>1, Moves DEF SkipRecord, HoldPublication, Publish, EventLabels
  <2>4. CASE \/ SetEventMetadata \/ HoldArchive \/ HoldPolicy \/ ReportAbsent \/ SetEventACL
             \/ HoldVersion \/ UpsertSnapshot \/ CopyVersion
    BY <2>4, <1>1, Moves DEF SetEventMetadata, HoldArchive, HoldPolicy, ReportAbsent,
         SetEventACL, HoldVersion, UpsertSnapshot, CopyVersion, Goto, EventLabels, EndRun, Docs
  <2>5. CASE InsertMediapackage \/ MaterialiseElement \/ PutElementBytes \/ PutManifest \/ LinksCopied
    BY <2>5 DEF InsertMediapackage, MaterialiseElement, PutElementBytes, PutManifest,
           LinksCopied, StoreBytes, Goto, EndRun, EventLabels
  <2>6. CASE SkipElement \/ InsertElement \/ RecordURL \/ PreserveRecord
    <3>1. at.doc \in Docs
      BY <1>1 DEF Places, Docs
    <3> QED
      BY <2>6, <3>1, <1>1, Moves DEF SkipElement, InsertElement, RecordURL, PreserveRecord,
           EventLabels, Docs
  <2>7. ~Finish
    BY DEF Finish, EndRun, Goto, EventLabels
  <2> QED
    BY <2>1, <2>2, <2>3, <2>4, <2>5, <2>6, <2>7 DEF Work
<1> QED
  BY <1>1, <1>2, SameRun, SameEvent

-----------------------------------------------------------------------------
(* Foreign keys *)

LEMMA BeforeFacts ==
  ASSUME NEW rows, IsList(rows), NEW n \in Nat \ {0}
  PROVE  /\ Before(rows, 1) = {}
         /\ n \notin DOMAIN rows => Before(rows, n) = Members(rows) /\ \A i \in DOMAIN rows : i < n
         /\ n \in DOMAIN rows => Before(rows, n + 1) = Before(rows, n) \cup {rows[n]}
<1>1. Before(rows, 1) = {}
  BY DEF Before, IsList
<1>2. ASSUME n \notin DOMAIN rows
      PROVE  Before(rows, n) = Members(rows) /\ \A i \in DOMAIN rows : i < n
  <2>1. \A i \in DOMAIN rows : i < n
    BY <1>2 DEF IsList
  <2> QED
    BY <2>1 DEF Before, Members
<1>3. ASSUME n \in DOMAIN rows
      PROVE  Before(rows, n + 1) = Before(rows, n) \cup {rows[n]}
  <2>1. {i \in DOMAIN rows : i < n + 1} = {i \in DOMAIN rows : i < n} \cup {n}
    BY <1>3 DEF IsList
  <2> QED
    BY <2>1 DEF Before
<1> QED
  BY <1>1, <1>2, <1>3

LEMMA BehindFacts ==
  ASSUME Control, InDoc
  PROVE  /\ at.element = 1 => Behind = {}
         /\ at.element \notin DOMAIN Doc.elements => Behind = Members(Doc.elements)
         /\ Doc' = Doc /\ at'.element = at.element => Behind' = Behind
         /\ Doc' = Doc /\ at'.element = at.element + 1 /\ at.element \in DOMAIN Doc.elements =>
              Behind' = Behind \cup {El}
         /\ Doc' = Doc /\ at'.element = 1 => Behind' = {}
<1> DEFINE rows == Doc.elements
<1>1. IsList(rows) /\ at.element \in Nat \ {0}
  BY DocFacts DEF Control, Placed, Places
<1>2. /\ Before(rows, 1) = {}
      /\ at.element \notin DOMAIN rows => Before(rows, at.element) = Members(rows)
      /\ at.element \in DOMAIN rows =>
              Before(rows, at.element + 1) = Before(rows, at.element) \cup {rows[at.element]}
  <2> HIDE DEF rows
  <2> QED
    BY <1>1, BeforeFacts
<1> QED
  BY <1>2 DEF Behind, El

LEMMA KeysWork ==
  ASSUME Control, Keys, Work
  PROVE  Keys'
<1>1. /\ series \subseteq series' /\ DOMAIN mps \subseteq DOMAIN mps'
      /\ \A id \in DOMAIN elements : id \in DOMAIN elements' /\ elements'[id] = elements[id]
  BY Grows
<1>2. \A e \in DOMAIN mps' : mps'[e] \in series' \cup {NoRow}
  <2>1. CASE InsertMediapackage
    BY <1>1, <2>1 DEF InsertMediapackage, Insert, Put, Keys
  <2>2. CASE SetEventMetadata
    BY <1>1, <2>2 DEF SetEventMetadata, Put, Keys
  <2> QED
    BY <1>1, <2>1, <2>2, Writes DEF Keys
<1>3. \A id \in DOMAIN elements' : elements'[id].mp \in DOMAIN mps'
  <2>1. CASE InsertElement
    <3>1. Event.id \in DOMAIN mps
      BY <2>1 DEF InsertElement, Keys, EventLabels
    <3> QED
      BY <1>1, <2>1, <3>1 DEF InsertElement, Insert, Put, Keys
  <2> QED
    BY <1>1, <2>1, Writes DEF Keys
<1>4. \A k \in DOMAIN snapshots' : k[1] \in DOMAIN mps'
  <2>1. CASE UpsertSnapshot
    <3>1. Event.id \in DOMAIN mps
      BY <2>1 DEF UpsertSnapshot, Keys, EventLabels
    <3> QED
      BY <1>1, <2>1, <3>1 DEF UpsertSnapshot, Put, Keys
  <2> QED
    BY <1>1, <2>1, Writes DEF Keys
<1>5. \A e \in DOMAIN publications' :
        e \in DOMAIN mps' /\ publications'[e].elements \subseteq DOMAIN elements'
  <2>1. CASE Publish
    <3> DEFINE before == IF Event.id \in DOMAIN publications THEN publications[Event.id].elements
                         ELSE {}
               ids == {el.id : el \in Operable(Doc)}
    <3>1. pc = "publish" /\ at.doc = "record" /\ Event.id \in DOMAIN mps
      BY <2>1 DEF Publish, Keys, EventLabels, Control, InDocOK, InDoc
    <3>2. before \cup ids \subseteq DOMAIN elements
      BY <3>1 DEF Keys
    <3>3. \A e \in DOMAIN publications' :
            \/ e = Event.id /\ publications'[e].elements = before \cup ids
            \/ e \in DOMAIN publications /\ publications'[e] = publications[e]
      BY <2>1 DEF Publish, Put
    <3> QED
      BY <1>1, <3>1, <3>2, <3>3 DEF Keys
  <2> QED
    BY <1>1, <2>1, Writes DEF Keys
<1>6. ASSUME pc' \in EventLabels \ {"row"}
      PROVE  Event'.id \in DOMAIN mps'
  <2>1. Event' = Event /\ (pc \in EventLabels \ {"row"} \/ InsertMediapackage)
    BY <1>6, StaysInEvent
  <2>2. CASE InsertMediapackage
    BY <2>1, <2>2 DEF InsertMediapackage, Insert, Put
  <2> QED
    BY <1>1, <2>1, <2>2 DEF Keys
<1>7. ASSUME pc' \in {"materialise", "element"}
      PROVE  \A el \in Behind' : IsOperable(el) => el.id \in DOMAIN elements'
  <2>1. Continues /\ at'.event = at.event /\ RunsOK /\ Placed /\ pc # "idle" /\ at \in Places
    BY <1>7, StaysInEvent, WorkRuns DEF EventLabels, Control, Placed
  <2>2. CASE InsertMediapackage \/ MaterialiseElement
    <3>1. at' = at /\ InDoc /\ (pc = "row" \/ pc = "materialise")
          /\ (pc = "row" => at.element = 1)
      BY <1>7, <2>2 DEF InsertMediapackage, MaterialiseElement, StoreBytes, Goto, InDoc,
           EventLabels, EndRun, Control, InDocOK
    <3>2. Behind' = Behind /\ (pc = "row" => Behind = {})
      BY <2>1, <3>1, SameDoc, BehindFacts
    <3> QED
      BY <1>1, <3>1, <3>2 DEF Keys
  <2>3. CASE SkipElement
    <3>1. /\ NextElement("materialise") /\ at.element \in DOMAIN Doc.elements /\ ~IsOperable(El)
          /\ InDoc /\ pc = "materialise"
      BY <1>7, <2>3 DEF SkipElement, OverElements, Goto, InDoc, EventLabels
    <3>2. Behind' = Behind \cup {El}
      BY <2>1, <3>1, SameDoc, BehindFacts, Moves
    <3> QED
      BY <1>1, <3>1, <3>2 DEF Keys
  <2>4. CASE InsertElement
    <3>1. /\ NextElement("materialise") /\ at.element \in DOMAIN Doc.elements
          /\ InDoc /\ pc = "element" /\ El.id \in DOMAIN elements'
      BY <2>4 DEF InsertElement, InDoc, EventLabels, Insert, Put, Control, InDocOK
    <3>2. Behind' = Behind \cup {El}
      BY <2>1, <3>1, SameDoc, BehindFacts, Moves
    <3> QED
      BY <1>1, <3>1, <3>2 DEF Keys
  <2> QED
    BY <1>7, <2>2, <2>3, <2>4, LabelAfter DEF Work
<1>8. ASSUME pc' \in {"copy", "url", "publish"}, at'.doc = "record"
      PROVE  \A el \in Operable(Doc)' : el.id \in DOMAIN elements'
  <2>1. Continues /\ at'.event = at.event /\ RunsOK /\ Placed /\ pc # "idle" /\ at \in Places
        /\ at.doc \in Docs
    BY <1>8, StaysInEvent, WorkRuns DEF EventLabels, Control, Placed, Places, Docs
  <2>2. CASE SkipElement
    <3>1. /\ OverElements("copy", at.doc) /\ at.element \notin DOMAIN Doc.elements
          /\ InDoc /\ pc = "materialise"
      BY <1>8, <2>1, <2>2 DEF SkipElement, OverElements, NextElement, Goto, InDoc, EventLabels
    <3>2. Doc' = Doc /\ Behind = Members(Doc.elements)
      BY <2>1, <3>1, SameDoc, BehindFacts, Moves
    <3> QED
      BY <1>1, <3>1, <3>2 DEF Keys, Operable
  <2>3. CASE PutElementBytes \/ RecordURL \/ LinksCopied
    <3>1. /\ at'.doc = at.doc /\ at'.version = at.version /\ pc \in {"copy", "url"}
      BY <1>8, <2>1, <2>3, Moves DEF PutElementBytes, StoreBytes, RecordURL, LinksCopied, Goto, EndRun
    <3>2. Doc' = Doc
      BY <2>1, <3>1, SameDoc
    <3> QED
      BY <1>1, <1>8, <3>1, <3>2 DEF Keys, Operable
  <2> QED
    BY <1>8, <2>2, <2>3, LabelAfter DEF Work
<1> QED
  BY <1>2, <1>3, <1>4, <1>5, <1>6, <1>7, <1>8 DEF Keys

\* A run that starts, dies or does nothing leaves the target.
Still == UNCHANGED <<history, target>> /\ Kept /\ pc' \in {"idle", "series"}

LEMMA NextStill ==
  ASSUME Control, [Next]_vars, ~Work
  PROVE  Kept /\ UNCHANGED target /\ (Still \/ UNCHANGED vars)
<1>1. Kept
  BY NextControl
<1>2. CASE StartRun \/ Fault
  BY <1>1, <1>2 DEF StartRun, Fault, EndRun, Goto, Still
<1>3. CASE UNCHANGED vars
  BY <1>1, <1>3 DEF vars
<1> QED
  BY <1>2, <1>3 DEF Next

LEMMA SameVars ==
  ASSUME UNCHANGED vars
  PROVE  /\ Run' = Run /\ Export' = Export /\ Series' = Series /\ Event' = Event /\ Doc' = Doc
         /\ El' = El /\ Archive' = Archive /\ Behind' = Behind
<1>1. UNCHANGED <<history, runs, pc, at>>
  BY DEF vars, process
<1>2. Run' = Run /\ Export' = Export /\ Series' = Series /\ Event' = Event
  BY <1>1 DEF Run, Export, Series, Event
<1>3. Doc' = Doc /\ El' = El
  BY <1>1, <1>2 DEF Doc, El
<1> QED
  BY <1>1, <1>2, <1>3 DEF Archive, Behind

LEMMA NextKeys ==
  ASSUME Control, Keys, [Next]_vars
  PROVE  Keys'
<1>1. CASE Work
  BY <1>1, KeysWork
<1>2. CASE Still
  BY <1>2 DEF Still, target, Keys, EventLabels
<1>3. CASE UNCHANGED vars
  BY <1>3, SameVars DEF vars, process, target, Keys
<1> QED
  BY <1>1, <1>2, <1>3, NextStill

KeysInv == Control /\ Keys

LEMMA KeysInvariant == Spec => []KeysInv
<1>1. Init => KeysInv
  <2>1. ASSUME Init PROVE Keys
    BY <2>1 DEF Init, Keys, Empty, EventLabels
  <2> QED
    BY <2>1, InitControl DEF KeysInv
<1>2. KeysInv /\ [Next]_vars => KeysInv'
  BY NextControl, NextKeys DEF KeysInv
<1> QED
  BY <1>1, <1>2, PTL DEF Spec

\* Runs read exports of the installation and have an outcome, a process runs
\* under an unfinished run, and the rows keep their foreign keys, wherever runs
\* die.
THEOREM MigrateTypeOK == Spec => []TypeOK
<1>1. KeysInv => TypeOK
  <2> SUFFICES ASSUME KeysInv PROVE TypeOK
    OBVIOUS
  <2>1. PICK S : runs \in Seq(RunRows(S))
    BY DEF KeysInv, Control, RunsOK
  <2>2. \A i \in DOMAIN runs : runs[i].outcome \in Outcomes
    <3>1. \A i \in DOMAIN runs : i \in 1 .. Len(runs)
      BY <2>1
    <3>2. \A i \in 1 .. Len(runs) : runs[i] \in RunRows(S)
      BY <2>1, ElementOfSeq
    <3> QED
      BY <3>1, <3>2 DEF RunRows
  <2> QED
    BY <2>2 DEF KeysInv, Control, RunsOK, Placed, Keys, TypeOK
<1> QED
  BY <1>1, KeysInvariant, PTL

-----------------------------------------------------------------------------
(* Bytes before rows *)

LEMMA StoredWork ==
  ASSUME Control, Stored, Work
  PROVE  Stored'
<1>1. /\ cas \subseteq cas'
      /\ \A url \in DOMAIN urlMap : url \in DOMAIN urlMap' /\ urlMap'[url] = urlMap[url]
  BY Grows
<1>2. \A id \in DOMAIN elements' : elements'[id].sha \in cas'
  <2>1. CASE InsertElement
    <3>1. Sha(Export, El) \in cas
      BY <2>1 DEF InsertElement, Stored
    <3> QED
      BY <1>1, <2>1, <3>1 DEF InsertElement, Insert, Put, Stored, NamedIsStored
  <2> QED
    BY <1>1, <2>1, Writes DEF Stored, NamedIsStored
<1>3. \A url \in DOMAIN urlMap' : urlMap'[url] \in cas'
  <2>1. CASE RecordURL
    <3>1. Sha(Export, El) \in cas
      BY <2>1 DEF RecordURL, Stored
    <3> QED
      BY <1>1, <2>1, <3>1 DEF RecordURL, Insert, Put, Stored, NamedIsStored
  <2> QED
    BY <1>1, <2>1, Writes DEF Stored, NamedIsStored
<1>4. \A k \in DOMAIN snapshots' :
        /\ {snapshots'[k].manifest, snapshots'[k].source} \subseteq cas'
        /\ \A entry \in snapshots'[k].manifest[3] : entry[2] \in cas'
  <2>1. CASE UpsertSnapshot
    <3>1. /\ pc = "snapshot" /\ InDoc /\ {Canonical, SourceXML} \subseteq cas
          /\ at.element \notin DOMAIN Doc.elements
          /\ \A el \in Behind : el.url \in DOMAIN urlMap
      BY <2>1 DEF UpsertSnapshot, Stored, Control, InDocOK, InDoc, EventLabels
    <3>2. \A el \in Operable(Doc) : urlMap[el.url] \in cas
      BY <3>1, BehindFacts DEF Stored, NamedIsStored, Operable
    <3>3. \A entry \in Canonical[3] : entry[2] \in cas
      BY <3>2 DEF Canonical
    <3>4. \A k \in DOMAIN snapshots' :
            \/ snapshots'[k] = [manifest |-> Canonical, source |-> SourceXML]
            \/ k \in DOMAIN snapshots /\ snapshots'[k] = snapshots[k]
      BY <2>1 DEF UpsertSnapshot, Put
    <3> HIDE DEF Canonical
    <3> QED
      BY <1>1, <3>1, <3>3, <3>4 DEF Stored, NamedIsStored
  <2> QED
    BY <1>1, <2>1, Writes DEF Stored, NamedIsStored
<1>5. ASSUME pc' \in EventLabels
      PROVE  /\ Continues /\ at'.event = at.event /\ RunsOK /\ Placed /\ pc # "idle"
             /\ at \in Places /\ at.doc \in Docs /\ pc' # "idle" /\ Export' = Export
  BY <1>5, StaysInEvent, WorkRuns DEF Control, Placed, Places, Docs, EventLabels
<1>6. ASSUME pc' \in {"element", "url"}
      PROVE  Sha(Export, El)' \in cas'
  <2>1. MaterialiseElement \/ PutElementBytes
    BY <1>5, <1>6, LabelAfter DEF Work, EventLabels
  <2>2. at' = at /\ Sha(Export, El) \in cas'
    BY <1>6, <2>1 DEF MaterialiseElement, PutElementBytes, StoreBytes, Goto, EndRun
  <2>3. Export' = Export /\ El' = El
    BY <1>5, <1>6, <2>2, SameDoc DEF EventLabels
  <2> QED
    BY <2>2, <2>3 DEF Sha, Bytes
<1>7. ASSUME pc' \in {"copy", "url", "manifest", "snapshot"}
      PROVE  \A el \in Behind' : el.url \in DOMAIN urlMap'
  <2>1. /\ Continues /\ at'.event = at.event /\ RunsOK /\ Placed /\ pc # "idle"
        /\ at \in Places /\ at.doc \in Docs /\ pc' # "idle" /\ Export' = Export /\ Event' = Event
    BY <1>5, <1>7, StaysInEvent DEF EventLabels
  <2>2. CASE RecordURL
    <3>1. /\ NextElement("copy") /\ at.element \in DOMAIN Doc.elements
          /\ InDoc /\ pc = "url" /\ El.url \in DOMAIN urlMap'
      BY <2>2 DEF RecordURL, InDoc, EventLabels, Insert, Put, Control, InDocOK
    <3>2. Behind' = Behind \cup {El}
      BY <2>1, <3>1, SameDoc, BehindFacts, Moves
    <3> QED
      BY <1>1, <3>1, <3>2 DEF Stored
  <2>3. CASE SkipElement
    <3>1. /\ OverElements("copy", at.doc) /\ InDoc
      BY <1>7, <2>1, <2>3 DEF SkipElement, OverElements, NextElement, Goto, InDoc, EventLabels
    <3>2. Behind' = {}
      BY <2>1, <3>1, SameDoc, BehindFacts, Moves
    <3> QED
      BY <3>2
  <2>4. CASE CopyVersion
    <3>1. /\ OverElements("copy", "version") /\ at.version \in DOMAIN Event.versions
          /\ pc = "versions"
      BY <1>7, <2>1, <2>4, LabelAfter DEF CopyVersion, Goto
    <3>2. at'.doc = "version" /\ at'.element = 1 /\ at'.version = at.version
      BY <2>1, <3>1, Moves DEF Docs
    <3>3. Doc' = Event.versions[at.version]
      BY <2>1, <3>2 DEF Doc
    <3>4. IsList(Event.versions[at.version].elements)
      BY <2>1, <3>1, Located DEF EventLabels, Members
    <3>5. Behind' = {}
      BY <3>2, <3>3, <3>4, BeforeFacts DEF Behind
    <3> QED
      BY <3>5
  <2>5. CASE PutElementBytes \/ LinksCopied \/ PutManifest
    <3>1. at' = at /\ pc \in {"copy", "manifest"} /\ InDoc
      BY <1>7, <2>5 DEF PutElementBytes, StoreBytes, EndRun, LinksCopied, PutManifest, Goto,
           InDoc, EventLabels
    <3>2. Behind' = Behind
      BY <2>1, <3>1, SameDoc, BehindFacts
    <3> QED
      BY <1>1, <3>1, <3>2 DEF Stored
  <2> QED
    BY <1>7, <2>1, <2>2, <2>3, <2>4, <2>5, LabelAfter DEF Work
<1>8. ASSUME pc' = "snapshot"
      PROVE  {Canonical', SourceXML'} \subseteq cas'
  <2>1. PutManifest
    BY <1>5, <1>8, LabelAfter DEF Work, EventLabels
  <2>2. at' = at /\ urlMap' = urlMap /\ {Canonical, SourceXML} \subseteq cas'
    BY <2>1 DEF PutManifest, Goto
  <2>3. Event' = Event /\ Doc' = Doc
    BY <1>5, <1>8, <2>2, SameDoc, StaysInEvent DEF EventLabels
  <2> QED
    BY <2>2, <2>3 DEF Canonical, SourceXML, Document
<1> QED
  BY <1>2, <1>3, <1>4, <1>6, <1>7, <1>8 DEF Stored, NamedIsStored

LEMMA NextStored ==
  ASSUME Control, Stored, [Next]_vars
  PROVE  Stored'
<1>1. CASE Work
  BY <1>1, StoredWork
<1>2. CASE Still
  BY <1>2 DEF Still, target, Stored, NamedIsStored
<1>3. CASE UNCHANGED vars
  <2>1. Canonical' = Canonical /\ SourceXML' = SourceXML
    BY <1>3, SameVars DEF vars, process, target, Canonical, SourceXML, Document
  <2>2. Sha(Export, El)' = Sha(Export, El)
    BY <1>3, SameVars DEF Sha, Bytes
  <2> QED
    BY <1>3, <2>1, <2>2, SameVars DEF vars, process, target, Stored, NamedIsStored
<1> QED
  BY <1>1, <1>2, <1>3, NextStill

StoredInv == Control /\ Stored

LEMMA StoredInvariant == Spec => []StoredInv
<1>1. Init => StoredInv
  <2>1. ASSUME Init PROVE Stored
    BY <2>1 DEF Init, Stored, NamedIsStored, Empty
  <2> QED
    BY <2>1, InitControl DEF StoredInv
<1>2. StoredInv /\ [Next]_vars => StoredInv'
  BY NextControl, NextStored DEF StoredInv
<1> QED
  BY <1>1, <1>2, PTL DEF Spec

\* Wherever runs die, no element, link or snapshot names an object that was not
\* stored.
THEOREM MigrateNamedIsStored == Spec => []NamedIsStored
<1>1. StoredInv => NamedIsStored
  BY DEF StoredInv, Stored
<1> QED
  BY <1>1, StoredInvariant, PTL

\* A link keeps the content that was recorded for it, whatever runs follow.
THEOREM MigrateLinkKeepsItsContent == Spec => LinkKeepsItsContent
<1> DEFINE Keeps == \A url \in DOMAIN urlMap : url \in DOMAIN urlMap' /\ urlMap'[url] = urlMap[url]
<1>1. ASSUME Control, [Next]_vars
      PROVE  [Keeps]_vars
  BY <1>1, Grows, NextStill DEF target
<1>2. Control /\ [Next]_vars => [Keeps]_vars
  BY <1>1
<1>3. Spec => []Control
  BY KeysInvariant, PTL DEF KeysInv
<1> QED
  BY <1>2, <1>3, PTL DEF Spec, LinkKeepsItsContent

-----------------------------------------------------------------------------
(* What is in the target was in an export *)

LEMMA PresentSays ==
  ASSUME NEW x, NEW urls, Agree(x, urls), NEW entries,
         Present(x, urls) = [state |-> "present", entries |-> entries]
  PROVE  urls # {} /\ \A u \in urls : Bytes(x, u) \in DOMAIN PolicyOf /\ PolicyOf[Bytes(x, u)] = entries
<1> DEFINE u0 == CHOOSE u \in urls : u \in Urns
           bytes == Bytes(x, u0)
<1>1. u0 \in urls
  BY DEF Agree
<1>2. \A u \in urls : Bytes(x, u) = bytes
  BY <1>1 DEF Agree
<1>3. bytes \in DOMAIN PolicyOf /\ PolicyOf[bytes] = entries
  <2>1. Present(x, urls) = IF bytes \in DOMAIN PolicyOf
                           THEN [state |-> "present", entries |-> PolicyOf[bytes]] ELSE Unresolvable
    BY DEF Present
  <2>2. Unresolvable # [state |-> "present", entries |-> entries]
    BY DEF Unresolvable
  <2> HIDE DEF bytes
  <2> QED
    BY <2>1, <2>2
<1> QED
  BY <1>1, <1>2, <1>3

\* An archival policy is unresolvable, absent or what all attachments say.
LEMMA ArchiveFacts ==
  ASSUME NEW x, NEW event
  PROVE  LET acl == ResolveArchiveACL(x, Latest(event))
         IN /\ acl.state \in {"unresolvable", "absent", "present"}
            /\ acl.state = "absent" => acl.entries = {}
            /\ acl.state = "present" =>
                 /\ acl = [state |-> "present", entries |-> acl.entries]
                 /\ acl.entries = event.eav => Says(x, event, acl.entries)
<1> DEFINE version == Latest(event)
           acl == ResolveArchiveACL(x, version)
           episode == SecurityAttachments(version, "episode")
           inPackage == SecurityAttachments(version, "series")
           urls == IF episode # {} THEN episode ELSE inPackage
           bad == x.mergeMode # "override"
                  \/ \E copies \in {episode, inPackage} : copies # {} /\ ~Agree(x, copies)
<1>1. acl = IF bad THEN Unresolvable ELSE IF urls = {} THEN Absent ELSE Present(x, urls)
  BY DEF ResolveArchiveACL
<1>2. \/ Present(x, urls) = Unresolvable
      \/ \E entries : Present(x, urls) = [state |-> "present", entries |-> entries]
  <2> DEFINE bytes == Bytes(x, CHOOSE u \in urls : u \in Urns)
  <2>1. Present(x, urls) = IF bytes \in DOMAIN PolicyOf
                           THEN [state |-> "present", entries |-> PolicyOf[bytes]] ELSE Unresolvable
    BY DEF Present
  <2> HIDE DEF bytes
  <2> QED
    BY <2>1
<1> HIDE DEF acl
<1>3. acl \in {Unresolvable, Absent} \/ \E entries : acl = [state |-> "present", entries |-> entries]
  BY <1>1, <1>2
<1>4. CASE acl \in {Unresolvable, Absent}
  BY <1>4 DEF Unresolvable, Absent, acl
<1>5. ASSUME NEW entries, acl = [state |-> "present", entries |-> entries]
      PROVE  /\ acl.state = "present" /\ acl.entries = entries
             /\ entries = event.eav => Says(x, event, entries)
  <2>1. acl # Unresolvable /\ acl # Absent
    BY <1>5 DEF Unresolvable, Absent
  <2>2. acl = Present(x, urls) /\ ~bad /\ urls # {}
    BY <1>1, <2>1
  <2>3. Agree(x, urls)
    BY <2>2
  <2>4. \A u \in urls : Bytes(x, u) \in DOMAIN PolicyOf /\ PolicyOf[Bytes(x, u)] = entries
    <3> HIDE DEF urls
    <3> QED
      BY <1>5, <2>2, <2>3, PresentSays
  <2>5. acl.state = "present" /\ acl.entries = entries
    BY <1>5
  <2>6. entries = event.eav => Says(x, event, entries)
    <3> HIDE DEF episode, inPackage
    <3> QED
      BY <2>2, <2>4 DEF Says, episode, inPackage
  <2> QED
    BY <2>5, <2>6
<1> QED
  BY <1>3, <1>4, <1>5 DEF acl

LEMMA SourcesKept ==
  ASSUME Sources, Kept
  PROVE  /\ \A key \in DOMAIN policies :
              key[1] = "event" =>
                \E i \in DOMAIN runs' : \E event \in Ours(Read(i)'.events) :
                  /\ event.id = key[2]
                  /\ ResolveArchiveACL(Read(i)', Latest(event))
                       = [state |-> "present", entries |-> policies[key]]
                  /\ event.eav = policies[key]
         /\ \A id \in DOMAIN elements :
              \E i \in DOMAIN runs' : \E r \in ElementRows(Read(i)') :
                r[2].id = id /\ elements[id] = [mp |-> r[1], sha |-> Sha(Read(i)', r[2])]
         /\ \A e \in DOMAIN publications : \A id \in publications[e].elements :
              \E i \in DOMAIN runs' : \E p \in PublishedRows(Read(i)', e) :
                id \in {el.id : el \in Operable(p)}
<1>1. \A i \in DOMAIN runs : i \in DOMAIN runs' /\ Read(i)' = Read(i)
  BY DEF Kept, Read
<1> QED
  BY <1>1 DEF Sources

LEMMA OwnRows ==
  ASSUME NEW x
  PROVE  /\ \A event \in Ours(x.events) : \A el \in Operable(Latest(event)) :
              <<event.id, el>> \in ElementRows(x)
         /\ \A p \in Ours(x.published) : \A el \in Operable(p) : <<p.id, el>> \in ElementRows(x)
  BY DEF ElementRows

LEMMA SourcesWork ==
  ASSUME Control, Sources, Work
  PROVE  Sources'
<1>1. /\ Kept /\ pc # "idle" /\ RunsOK /\ Placed /\ InDocOK
  BY NextControl, WorkRuns DEF Next, Control
<1>2. /\ \E i \in DOMAIN runs' : Read(i)' = Export
      /\ pc \in EventLabels => Event \in Ours(Export.events)
  BY <1>1, Located DEF Kept, Read
<1>3. \A key \in DOMAIN policies' :
        key[1] = "event" =>
          \E i \in DOMAIN runs' : \E event \in Ours(Read(i)'.events) :
            /\ event.id = key[2]
            /\ ResolveArchiveACL(Read(i)', Latest(event))
                 = [state |-> "present", entries |-> policies'[key]]
            /\ event.eav = policies'[key]
  <2>1. CASE SetSeriesACL
    <3> DEFINE new == <<"series", Series.id>>
    <3>2. new[1] # "event"
      OBVIOUS
    <3>3. policies' = policies \/ policies' = Put(policies, new, Series.policy)
      BY <2>1 DEF SetSeriesACL
    <3> HIDE DEF new
    <3>1. \A key \in DOMAIN policies' :
            key[1] = "event" => key \in DOMAIN policies /\ policies'[key] = policies[key]
      BY <3>2, <3>3 DEF Put
    <3> QED
      BY <1>1, <3>1, SourcesKept
  <2>2. CASE SetEventACL
    <3> DEFINE new == <<"event", Event.id>>
    <3>1. /\ Event \in Ours(Export.events) /\ Archive.entries = Event.eav
          /\ Archive = [state |-> "present", entries |-> Archive.entries]
      BY <1>2, <2>2, ArchiveFacts DEF SetEventACL, EventLabels, Archive
    <3>2. \A key \in DOMAIN policies' :
            \/ key = new /\ policies'[key] = Archive.entries
            \/ key \in DOMAIN policies /\ policies'[key] = policies[key]
      BY <2>2 DEF SetEventACL, Put
    <3>3. \E i \in DOMAIN runs' : \E event \in Ours(Read(i)'.events) :
            /\ event.id = new[2]
            /\ ResolveArchiveACL(Read(i)', Latest(event))
                 = [state |-> "present", entries |-> Archive.entries]
            /\ event.eav = Archive.entries
      BY <1>2, <3>1 DEF Archive
    <3> HIDE DEF new
    <3> QED
      BY <1>1, <3>2, <3>3, SourcesKept
  <2> QED
    BY <1>1, <2>1, <2>2, Writes, SourcesKept
<1>4. \A id \in DOMAIN elements' :
        \E i \in DOMAIN runs' : \E r \in ElementRows(Read(i)') :
          r[2].id = id /\ elements'[id] = [mp |-> r[1], sha |-> Sha(Read(i)', r[2])]
  <2>1. CASE InsertElement
    <3> DEFINE row == [mp |-> Event.id, sha |-> Sha(Export, El)]
    <3>1. /\ pc = "element" /\ InDoc /\ at.doc \in {"latest", "record"}
          /\ at.element \in DOMAIN Doc.elements /\ IsOperable(El)
      BY <1>1, <2>1 DEF InsertElement, InDocOK, InDoc, EventLabels
    <3>2. El \in Operable(Doc)
      BY <3>1 DEF El, Operable, Members
    <3>3. <<Event.id, El>> \in ElementRows(Export)
      <4>1. CASE at.doc = "latest"
        BY <1>1, <1>2, <3>1, <3>2, <4>1, DocFacts, OwnRows DEF EventLabels
      <4>2. CASE at.doc = "record"
        <5>1. Doc \in Ours(Export.published) /\ Doc.id = Event.id
          BY <1>1, <3>1, <4>2, DocFacts DEF PublishedRows
        <5> QED
          BY <3>2, <5>1, OwnRows
      <4> QED
        BY <3>1, <4>1, <4>2
    <3>4. \A id \in DOMAIN elements' :
            \/ id = El.id /\ elements'[id] = row
            \/ id \in DOMAIN elements /\ elements'[id] = elements[id]
      BY <2>1 DEF InsertElement, Insert, Put
    <3>5. \E i \in DOMAIN runs' : \E r \in ElementRows(Read(i)') :
            r[2].id = El.id /\ row = [mp |-> r[1], sha |-> Sha(Read(i)', r[2])]
      <4> DEFINE r == <<Event.id, El>>
      <4>1. r[2].id = El.id /\ row = [mp |-> r[1], sha |-> Sha(Export, r[2])]
        OBVIOUS
      <4> HIDE DEF row
      <4> QED
        BY <1>2, <3>3, <4>1
    <3> HIDE DEF row
    <3> QED
      BY <1>1, <3>4, <3>5, SourcesKept
  <2> QED
    BY <1>1, <2>1, Writes, SourcesKept
<1>5. \A e \in DOMAIN publications' : \A id \in publications'[e].elements :
        \E i \in DOMAIN runs' : \E p \in PublishedRows(Read(i)', e) :
          id \in {el.id : el \in Operable(p)}
  <2>1. CASE Publish
    <3> DEFINE ids == {el.id : el \in Operable(Doc)}
    <3>1. Doc \in PublishedRows(Export, Event.id)
      BY <1>1, <2>1, DocFacts DEF Publish, InDocOK, InDoc, EventLabels
    <3>2. \A e \in DOMAIN publications' : \A id \in publications'[e].elements :
            \/ e = Event.id /\ id \in ids
            \/ e \in DOMAIN publications /\ id \in publications[e].elements
      BY <2>1 DEF Publish, Put
    <3>3. \A id \in ids : \E i \in DOMAIN runs' : \E p \in PublishedRows(Read(i)', Event.id) :
            id \in {el.id : el \in Operable(p)}
      BY <1>2, <3>1
    <3> HIDE DEF ids
    <3> QED
      BY <1>1, <3>2, <3>3, SourcesKept
  <2> QED
    BY <1>1, <2>1, Writes, SourcesKept
<1> QED
  BY <1>3, <1>4, <1>5 DEF Sources

LEMMA NextSources ==
  ASSUME Control, Sources, [Next]_vars
  PROVE  Sources'
<1>1. CASE Work
  BY <1>1, SourcesWork
<1>2. CASE ~Work
  <2>1. Kept /\ UNCHANGED target
    BY <1>2, NextStill
  <2> QED
    BY <2>1, SourcesKept DEF target, Sources
<1> QED
  BY <1>1, <1>2

SourcesInv == Control /\ Sources

LEMMA SourcesInvariant == Spec => []SourcesInv
<1>1. Init => SourcesInv
  <2>1. ASSUME Init PROVE Sources
    BY <2>1 DEF Init, Sources, Empty
  <2> QED
    BY <2>1, InitControl DEF SourcesInv
<1>2. SourcesInv /\ [Next]_vars => SourcesInv'
  BY NextControl, NextSources DEF SourcesInv
<1> QED
  BY <1>1, <1>2, PTL DEF Spec

\* A policy in the target is what every attachment of its flavor and the
\* enforcement copy said, in one export some run has read.
THEOREM MigratePolicyIsUnanimous == Spec => []PolicyIsUnanimous
<1>1. ASSUME Sources
      PROVE  PolicyIsUnanimous
  <2> SUFFICES ASSUME NEW key \in DOMAIN policies, key[1] = "event"
               PROVE  \E i \in DOMAIN runs : \E event \in Ours(history[runs[i].export].events) :
                        event.id = key[2] /\ Says(history[runs[i].export], event, policies[key])
    BY DEF PolicyIsUnanimous
  <2>1. PICK i \in DOMAIN runs : \E event \in Ours(Read(i).events) :
           /\ event.id = key[2]
           /\ ResolveArchiveACL(Read(i), Latest(event))
                = [state |-> "present", entries |-> policies[key]]
           /\ event.eav = policies[key]
    BY <1>1 DEF Sources
  <2>2. PICK event \in Ours(Read(i).events) :
           /\ event.id = key[2]
           /\ ResolveArchiveACL(Read(i), Latest(event))
                = [state |-> "present", entries |-> policies[key]]
           /\ event.eav = policies[key]
    BY <2>1
  <2>3. Says(Read(i), event, policies[key])
    BY <2>2, ArchiveFacts
  <2> QED
    BY <2>2, <2>3 DEF Read
<1>2. SourcesInv => PolicyIsUnanimous
  BY <1>1 DEF SourcesInv
<1> QED
  BY <1>2, SourcesInvariant, PTL

-----------------------------------------------------------------------------
(* What a run has done, as far as it has got *)

\* The elements of a document have rows, and their bytes are stored.
RowsDone(doc) ==
  \A el \in Operable(doc) : el.id \in DOMAIN elements /\ Sha(Export, el) \in cas
\* Its links have been copied: each is recorded with its content, or held.
LinkDone(e, el) == Sha(Export, el) \in cas /\ LinkAccounted(Export, e, el.url)
LinksDone(e, doc) == \A el \in Members(doc.elements) : LinkDone(e, el)

\* A version: held, or its manifests are stored and its row names them; but a
\* held link may have lent the manifest the content another one recorded.
Unit(e, n, version) == {OwnManifest(Export, e, version), Document(e, n, version)}
VersionDone(event, n) ==
  LET version == event.versions[n]
  IN \/ \E why \in {<<"archive">>, <<"version", n>>} : Held(event.id, why)
     \/ /\ LinksDone(event.id, version)
        /\ \/ /\ Unit(event.id, n, version) \subseteq cas
              /\ HasVersion(Export, event.id, n, version)
           \/ \E url \in Links(version) : Held(event.id, <<"url", url>>)

\* What an earlier export left may stay, in policies and in publications.
PolicyDone(event) == OneExport => PolicyAccounted(Export, event)

RecordDone(event) ==
  \A p \in PublishedRows(Export, event.id) :
    \/ Held(p.id, <<"publication">>)
    \/ /\ Record(event.id) \in cas /\ RowsDone(p) /\ LinksDone(event.id, p)
       /\ OneExport => HasPublication(Export, p)

MetadataDone(event) == event.id \in DOMAIN mps /\ mps[event.id] = Latest(event).series

EventDone(event) ==
  /\ RowsDone(Latest(event)) /\ MetadataDone(event) /\ PolicyDone(event)
  /\ \A n \in DOMAIN event.versions : VersionDone(event, n)
  /\ RecordDone(event)

\* Of the event the process is at, what lies behind its label.
AfterMetadata == pc = "archive" \/ InVersions \/ InRecord
EventSoFar ==
  /\ pc = "metadata" \/ AfterMetadata => RowsDone(Latest(Event))
  /\ AfterMetadata => MetadataDone(Event)
  /\ InVersions \/ InRecord => PolicyDone(Event)
  /\ InVersions => \A n \in DOMAIN Event.versions : n < at.version => VersionDone(Event, n)
  /\ InRecord => \A n \in DOMAIN Event.versions : VersionDone(Event, n)
  /\ pc \in {"materialise", "element"} =>
       \A el \in Behind : IsOperable(el) => el.id \in DOMAIN elements /\ Sha(Export, el) \in cas
  /\ pc \in {"copy", "url", "manifest", "snapshot", "publish"} =>
       \A el \in Behind : LinkDone(Event.id, el)
  /\ InDoc /\ at.doc = "record" =>
       Record(Event.id) \in cas /\ (pc \in {"copy", "url", "publish"} => RowsDone(Doc))

Progress ==
  pc # "idle" =>
    /\ \A s \in Before(Export.series, at.series) : s.org = Org => SeriesAccounted(s)
    /\ pc = "series acl" => Series.id \in series
    /\ \A event \in Before(Export.events, at.event) : event.org = Org => EventDone(event)
    /\ pc \in EventLabels => EventSoFar
    /\ \A line \in Run.lines : line[1] = "hold" => Run.holds > 0

\* What a step leaves of what the run has done.
Advances ==
  /\ Export' = Export /\ OneExport' = OneExport
  /\ Run.lines \subseteq Run'.lines
  /\ series \subseteq series' /\ cas \subseteq cas'
  /\ \A id \in DOMAIN elements : id \in DOMAIN elements' /\ elements'[id] = elements[id]
  /\ \A url \in DOMAIN urlMap : url \in DOMAIN urlMap' /\ urlMap'[url] = urlMap[url]
SamePolicy(key) ==
  /\ key \in DOMAIN policies' <=> key \in DOMAIN policies
  /\ key \in DOMAIN policies => policies'[key] = policies[key]

LEMMA WorkAdvances ==
  ASSUME Control, Work, Continues
  PROVE  Advances
<1>1. RunsOK /\ Placed /\ pc # "idle" /\ Len(runs) \in DOMAIN runs
  BY WorkRuns, Located DEF Control
<1>2. Export' = Export
  BY <1>1, SameRun
<1>3. OneExport' = OneExport
  BY <1>1 DEF Continues, OneExport, Run
<1> QED
  BY <1>2, <1>3, Grows DEF Continues, Advances

\* The rows that are written over are those of the series or the event at hand.
LEMMA Frame ==
  ASSUME Work
  PROVE  /\ \A e \in DOMAIN mps :
              e \in DOMAIN mps' /\ (mps'[e] = mps[e] \/ (SetEventMetadata /\ e = Event.id))
         /\ \A key :
              \/ SamePolicy(key)
              \/ SetSeriesACL /\ key = <<"series", Series.id>>
              \/ SetEventACL /\ key = <<"event", Event.id>>
         /\ \A k \in DOMAIN snapshots :
              /\ k \in DOMAIN snapshots'
              /\ snapshots'[k] = snapshots[k] \/ (UpsertSnapshot /\ k = <<Event.id, at.version>>)
         /\ \A e \in DOMAIN publications :
              /\ e \in DOMAIN publications'
              /\ publications'[e] = publications[e] \/ (Publish /\ e = Event.id)
<1>1. \A e \in DOMAIN mps :
        e \in DOMAIN mps' /\ (mps'[e] = mps[e] \/ (SetEventMetadata /\ e = Event.id))
  <2>1. CASE InsertMediapackage
    BY <2>1 DEF InsertMediapackage, Insert, Put
  <2>2. CASE SetEventMetadata
    BY <2>2 DEF SetEventMetadata, Put
  <2> QED
    BY <2>1, <2>2, Writes
<1>2. \A key : \/ SamePolicy(key)
               \/ SetSeriesACL /\ key = <<"series", Series.id>>
               \/ SetEventACL /\ key = <<"event", Event.id>>
  <2>1. CASE SetSeriesACL
    <3> DEFINE new == <<"series", Series.id>>
    <3>1. policies' = policies \/ policies' = Put(policies, new, Series.policy)
      BY <2>1 DEF SetSeriesACL
    <3>2. ASSUME NEW key, key # new PROVE SamePolicy(key)
      <4> HIDE DEF new
      <4> QED
        BY <3>1, <3>2 DEF SamePolicy, Put
    <3> QED
      BY <2>1, <3>2
  <2>2. CASE SetEventACL
    <3> DEFINE new == <<"event", Event.id>>
    <3>1. policies' = Put(policies, new, Archive.entries)
      BY <2>2 DEF SetEventACL
    <3>2. ASSUME NEW key, key # new PROVE SamePolicy(key)
      <4> HIDE DEF new
      <4> QED
        BY <3>1, <3>2 DEF SamePolicy, Put
    <3> QED
      BY <2>2, <3>2
  <2> QED
    BY <2>1, <2>2, Writes DEF SamePolicy
<1>3. \A k \in DOMAIN snapshots :
        /\ k \in DOMAIN snapshots'
        /\ snapshots'[k] = snapshots[k] \/ (UpsertSnapshot /\ k = <<Event.id, at.version>>)
  <2>1. CASE UpsertSnapshot
    BY <2>1 DEF UpsertSnapshot, Put
  <2> QED
    BY <2>1, Writes
<1>4. \A e \in DOMAIN publications :
        /\ e \in DOMAIN publications'
        /\ publications'[e] = publications[e] \/ (Publish /\ e = Event.id)
  <2>1. CASE Publish
    BY <2>1 DEF Publish, Put
  <2> QED
    BY <2>1, Writes
<1> QED
  BY <1>1, <1>2, <1>3, <1>4

LEMMA RowsKept ==
  ASSUME Advances, NEW doc, RowsDone(doc)
  PROVE  RowsDone(doc)'
  BY DEF Advances, RowsDone, Sha, Bytes

LEMMA HeldKept ==
  ASSUME Advances, NEW id, NEW why
  PROVE  /\ Held(id, why) => Held(id, why)'
         /\ Said(why, id) => Said(why, id)'
  BY DEF Advances, Held, Said

LEMMA LinkKept ==
  ASSUME Advances, NEW e, NEW el, LinkDone(e, el)
  PROVE  LinkDone(e, el)'
<1>1. Sha(Export, el)' = Sha(Export, el) /\ Bytes(Export, el.url)' = Bytes(Export, el.url)
  BY DEF Advances, Sha, Bytes
<1>2. LinkAccounted(Export, e, el.url)'
  BY <1>1, HeldKept DEF Advances, LinkDone, LinkAccounted, File
<1> QED
  BY <1>1, <1>2 DEF LinkDone, Advances

LEMMA LinksKept ==
  ASSUME Advances, NEW e, NEW doc, LinksDone(e, doc)
  PROVE  LinksDone(e, doc)'
  BY LinkKept DEF LinksDone

LEMMA SeriesKept ==
  ASSUME Advances, NEW s, SeriesAccounted(s), SamePolicy(<<"series", s.id>>)
  PROVE  SeriesAccounted(s)'
<1> DEFINE key == <<"series", s.id>>
<1>1. CASE Held(s.id, <<"series">>)
  BY <1>1, HeldKept DEF SeriesAccounted
<1>2. CASE /\ s.id \in series
           /\ IF s.policy = NoRow THEN Said("acl-absent", s.id)
              ELSE key \in DOMAIN policies /\ policies[key] = s.policy
  <2>1. s.id \in series'
    BY <1>2 DEF Advances
  <2>2. IF s.policy = NoRow THEN Said("acl-absent", s.id)'
        ELSE key \in DOMAIN policies' /\ policies'[key] = s.policy
    BY <1>2, HeldKept DEF SamePolicy
  <2> QED
    BY <2>1, <2>2 DEF SeriesAccounted
<1> QED
  BY <1>1, <1>2 DEF SeriesAccounted

LEMMA PolicyKept ==
  ASSUME Advances, NEW event, PolicyDone(event), SamePolicy(<<"event", event.id>>)
  PROVE  PolicyDone(event)'
<1> DEFINE key == <<"event", event.id>>
           acl == ResolveArchiveACL(Export, Latest(event))
<1>1. OneExport' = OneExport /\ acl' = acl
  BY DEF Advances
<1>2. ASSUME PolicyAccounted(Export, event)
      PROVE  PolicyAccounted(Export, event)'
  <2>1. CASE Held(event.id, <<"archive">>) \/ Held(event.id, <<"policy">>)
    BY <2>1, HeldKept DEF PolicyAccounted
  <2>2. CASE IF key \in DOMAIN policies THEN acl.state = "present" /\ policies[key] = acl.entries
             ELSE acl.state = "absent" /\ Said("acl-absent", event.id)
    <3> HIDE DEF acl
    <3>1. IF key \in DOMAIN policies' THEN acl'.state = "present" /\ policies'[key] = acl'.entries
          ELSE acl'.state = "absent" /\ Said("acl-absent", event.id)'
      BY <1>1, <2>2, HeldKept DEF SamePolicy
    <3> QED
      BY <3>1 DEF PolicyAccounted, acl
  <2> QED
    BY <1>2, <2>1, <2>2 DEF PolicyAccounted
<1> QED
  BY <1>1, <1>2 DEF PolicyDone

LEMMA VersionKept ==
  ASSUME Advances, NEW event, NEW n, VersionDone(event, n),
         <<event.id, n>> \in DOMAIN snapshots =>
           /\ <<event.id, n>> \in DOMAIN snapshots'
           /\ snapshots'[<<event.id, n>>] = snapshots[<<event.id, n>>]
  PROVE  VersionDone(event, n)'
<1> DEFINE version == event.versions[n]
<1>1. CASE \E why \in {<<"archive">>, <<"version", n>>} : Held(event.id, why)
  BY <1>1, HeldKept DEF VersionDone
<1>2. ASSUME LinksDone(event.id, version), NEW url \in Links(version), Held(event.id, <<"url", url>>)
      PROVE  VersionDone(event, n)'
  <2>1. LinksDone(event.id, version)' /\ Held(event.id, <<"url", url>>)'
    BY <1>2, LinksKept, HeldKept
  <2> QED
    BY <1>2, <2>1 DEF VersionDone
<1>3. CASE /\ LinksDone(event.id, version) /\ Unit(event.id, n, version) \subseteq cas
           /\ HasVersion(Export, event.id, n, version)
  <2>1. LinksDone(event.id, version)'
    BY <1>3, LinksKept
  <2>2. OwnManifest(Export, event.id, version)' = OwnManifest(Export, event.id, version)
    BY DEF Advances, OwnManifest, Sha, Bytes
  <2>3. Unit(event.id, n, version)' \subseteq cas'
    BY <1>3, <2>2 DEF Advances, Unit, Document
  <2>4. HasVersion(Export, event.id, n, version)'
    BY <1>3, <2>2 DEF HasVersion, Document
  <2> QED
    BY <2>1, <2>3, <2>4 DEF VersionDone
<1> QED
  BY <1>1, <1>2, <1>3 DEF VersionDone

LEMMA RecordKept ==
  ASSUME Advances, NEW event, RecordDone(event),
         event.id \in DOMAIN publications =>
           event.id \in DOMAIN publications' /\ publications'[event.id] = publications[event.id]
  PROVE  RecordDone(event)'
<1> SUFFICES ASSUME NEW p \in PublishedRows(Export, event.id)
             PROVE  \/ Held(p.id, <<"publication">>)'
                    \/ /\ Record(event.id) \in cas' /\ RowsDone(p)' /\ LinksDone(event.id, p)'
                       /\ OneExport' => HasPublication(Export, p)'
  BY DEF RecordDone, Advances
<1>1. CASE Held(p.id, <<"publication">>)
  BY <1>1, HeldKept
<1>2. CASE /\ Record(event.id) \in cas /\ RowsDone(p) /\ LinksDone(event.id, p)
           /\ OneExport => HasPublication(Export, p)
  <2>1. Record(event.id) \in cas' /\ RowsDone(p)' /\ LinksDone(event.id, p)'
    BY <1>2, RowsKept, LinksKept DEF Advances
  <2>2. ASSUME HasPublication(Export, p)
        PROVE  HasPublication(Export, p)'
    <3>1. p.id = event.id
      BY DEF PublishedRows
    <3>2. p.id \in DOMAIN publications' /\ publications'[p.id] = publications[p.id]
      BY <2>2, <3>1 DEF HasPublication
    <3>3. \A el \in Operable(p) : el.id \in DOMAIN elements' /\ elements'[el.id] = elements[el.id]
      BY <2>2 DEF HasPublication, Advances
    <3>4. \A el : Sha(Export, el)' = Sha(Export, el)
      BY DEF Advances, Sha, Bytes
    <3> QED
      BY <2>2, <3>2, <3>3, <3>4 DEF HasPublication
  <2> QED
    BY <1>2, <2>1, <2>2 DEF Advances
<1> QED
  BY <1>1, <1>2 DEF RecordDone

LEMMA EventStays ==
  ASSUME Advances, NEW event, EventDone(event),
         event.id \in DOMAIN mps => event.id \in DOMAIN mps' /\ mps'[event.id] = mps[event.id],
         SamePolicy(<<"event", event.id>>),
         \A n : <<event.id, n>> \in DOMAIN snapshots =>
                  /\ <<event.id, n>> \in DOMAIN snapshots'
                  /\ snapshots'[<<event.id, n>>] = snapshots[<<event.id, n>>],
         event.id \in DOMAIN publications =>
           event.id \in DOMAIN publications' /\ publications'[event.id] = publications[event.id]
  PROVE  EventDone(event)'
<1>1. RowsDone(Latest(event))'
  BY RowsKept DEF EventDone
<1>2. MetadataDone(event)'
  BY DEF EventDone, MetadataDone
<1>3. PolicyDone(event)'
  BY PolicyKept DEF EventDone
<1>4. \A n \in DOMAIN event.versions : VersionDone(event, n)'
  BY VersionKept DEF EventDone
<1>5. RecordDone(event)'
  BY RecordKept DEF EventDone
<1> QED
  BY <1>1, <1>2, <1>3, <1>4, <1>5 DEF EventDone

\* What is done for an event stays, unless a step is at that event.
LEMMA EventKept ==
  ASSUME Control, Work, Continues, NEW event, EventDone(event),
         pc \in EventLabels => event.id # Event.id
  PROVE  EventDone(event)'
<1>1. Advances
  BY WorkAdvances
<1>2. /\ ~(SetEventMetadata /\ event.id = Event.id) /\ ~(SetEventACL /\ event.id = Event.id)
      /\ ~(UpsertSnapshot /\ event.id = Event.id) /\ ~(Publish /\ event.id = Event.id)
  BY DEF SetEventMetadata, SetEventACL, UpsertSnapshot, Publish, EventLabels
<1>3. SamePolicy(<<"event", event.id>>)
  BY <1>2, Frame
<1>4. \A n : <<event.id, n>> \in DOMAIN snapshots =>
               /\ <<event.id, n>> \in DOMAIN snapshots'
               /\ snapshots'[<<event.id, n>>] = snapshots[<<event.id, n>>]
  BY <1>2, Frame
<1> QED
  BY <1>1, <1>2, <1>3, <1>4, Frame, EventStays

\* The stages of an event follow one another.
LEMMA Stages ==
  ASSUME Control, Work, pc' \in EventLabels
  PROVE  /\ pc' = "metadata" \/ AfterMetadata' =>
              \/ pc = "metadata" \/ AfterMetadata
              \/ SkipElement /\ at.doc = "latest" /\ at.element \notin DOMAIN Doc.elements
         /\ AfterMetadata' => AfterMetadata \/ SetEventMetadata
         /\ InVersions' \/ InRecord' =>
              InVersions \/ InRecord \/ HoldArchive \/ HoldPolicy \/ ReportAbsent \/ SetEventACL
         /\ InVersions' =>
              \/ InVersions /\ at'.version = at.version /\ ~UpsertSnapshot
              \/ (HoldVersion \/ UpsertSnapshot) /\ InVersions /\ at'.version = at.version + 1
              \/ at'.version = 1
         /\ InRecord' =>
              InRecord \/ HoldArchive \/ (CopyVersion /\ at.version \notin DOMAIN Event.versions)
<1>1. /\ at \in Places /\ at.doc \in Docs /\ pc' # "idle" /\ InDocOK
      /\ pc \in EventLabels \/ (SkipEvent /\ pc' = "row" /\ at'.doc = "latest")
  BY StaysInEvent DEF Control, Placed, Places, Docs, EventLabels
<1>2. CASE SkipEvent
  <2>1. pc = "events" /\ pc' = "row" /\ at'.doc = "latest"
    BY <1>1, <1>2, LabelAfter DEF SkipEvent, EventLabels
  <2> QED
    BY <2>1 DEF AfterMetadata, InVersions, InRecord
<1>3. CASE InsertMediapackage \/ MaterialiseElement \/ InsertElement
  <2>1. /\ pc \in {"row", "materialise", "element"} /\ pc' \in {"materialise", "element"}
        /\ at'.doc = at.doc /\ at'.version = at.version
    BY <1>1, <1>3, Moves DEF InsertMediapackage, MaterialiseElement, InsertElement, StoreBytes,
         Goto, EndRun
  <2> QED
    BY <2>1 DEF AfterMetadata, InVersions, InRecord
<1>4. CASE SkipElement
  <2>1. /\ pc = "materialise" /\ at'.doc = at.doc /\ at'.version = at.version
        /\ at.doc \in {"latest", "record"}
        /\ \/ pc' = "materialise"
           \/ /\ at.element \notin DOMAIN Doc.elements
              /\ pc' = IF at.doc = "latest" THEN "metadata" ELSE "copy"
    BY <1>1, <1>4, Moves DEF SkipElement, InDocOK, InDoc, EventLabels
  <2> QED
    BY <1>4, <2>1 DEF AfterMetadata, InVersions, InRecord
<1>5. CASE SetEventMetadata
  <2>1. pc = "metadata" /\ pc' = "archive"
    BY <1>1, <1>5, LabelAfter DEF SetEventMetadata
  <2> QED
    BY <1>5, <2>1 DEF AfterMetadata, InVersions, InRecord
<1>6. CASE HoldArchive
  <2>1. pc = "archive" /\ pc' = "record"
    BY <1>1, <1>6, LabelAfter DEF HoldArchive
  <2> QED
    BY <1>6, <2>1 DEF AfterMetadata, InVersions, InRecord
<1>7. CASE HoldPolicy \/ ReportAbsent \/ SetEventACL
  <2>1. pc = "archive" /\ pc' = "versions" /\ at'.version = 1
    BY <1>1, <1>7, Moves DEF HoldPolicy, ReportAbsent, SetEventACL
  <2> QED
    BY <1>7, <2>1 DEF AfterMetadata, InVersions, InRecord
<1>8. CASE HoldVersion \/ UpsertSnapshot
  <2>1. pc \in {"versions", "snapshot"} /\ pc' = "versions" /\ at'.version = at.version + 1
    BY <1>1, <1>8, Moves DEF HoldVersion, UpsertSnapshot
  <2> QED
    BY <1>8, <2>1 DEF AfterMetadata, InVersions, InRecord
<1>9. CASE CopyVersion
  <2>1. /\ pc = "versions" /\ at'.version = at.version
        /\ \/ pc' = "copy" /\ at'.doc = "version"
           \/ pc' = "record" /\ at.version \notin DOMAIN Event.versions
    BY <1>1, <1>9, Moves DEF CopyVersion, Goto, Docs
  <2> QED
    BY <1>9, <2>1 DEF AfterMetadata, InVersions, InRecord, UpsertSnapshot
<1>10. CASE PutElementBytes \/ RecordURL \/ LinksCopied \/ PutManifest
  <2>1. /\ at'.doc = at.doc /\ at'.version = at.version /\ ~UpsertSnapshot
        /\ \/ pc = "copy" /\ pc' = "url"
           \/ pc = "url" /\ pc' = "copy"
           \/ pc = "copy" /\ pc' = IF at.doc = "version" THEN "manifest" ELSE "publish"
           \/ pc = "manifest" /\ pc' = "snapshot"
    BY <1>1, <1>10, Moves DEF PutElementBytes, StoreBytes, EndRun, RecordURL, LinksCopied,
         PutManifest, Goto, UpsertSnapshot
  <2>2. pc \in {"copy", "url"} => at.doc \in {"version", "record"}
    BY <1>1 DEF InDocOK, InDoc, EventLabels
  <2>3. AfterMetadata /\ (InVersions' => InVersions) /\ (InRecord' => InRecord)
    BY <2>1, <2>2 DEF AfterMetadata, InVersions, InRecord
  <2>4. InVersions \/ InRecord
    BY <2>1, <2>2 DEF InVersions, InRecord
  <2> QED
    BY <2>1, <2>3, <2>4
<1>11. CASE PreserveRecord
  <2>1. pc = "record" /\ pc' = "row" /\ at'.doc = "record"
    BY <1>1, <1>11, LabelAfter DEF PreserveRecord
  <2> QED
    BY <2>1 DEF AfterMetadata, InVersions, InRecord
<1> QED
  BY <1>1, <1>2, <1>3, <1>4, <1>5, <1>6, <1>7, <1>8, <1>9, <1>10, <1>11, LabelAfter
     DEF Work, EventLabels

LEMMA Unique ==
  ASSUME Control, pc # "idle"
  PROVE  /\ pc \in EventLabels =>
              /\ \A event \in Before(Export.events, at.event) : event.org = Org => event.id # Event.id
              /\ \A event \in Ours(Export.events) : event.id = Event.id => event = Event
         /\ \A e : \A p, q \in PublishedRows(Export, e) : p = q
         /\ pc = "series acl" =>
              \A s \in Before(Export.series, at.series) : s.org = Org => s.id # Series.id
<1>1. KeyedById(Export) /\ WellFormed(Export) /\ at \in Places
  BY Located DEF Control, Placed
<1>2. ASSUME pc \in EventLabels
      PROVE  /\ \A event \in Before(Export.events, at.event) : event.org = Org => event.id # Event.id
             /\ \A event \in Ours(Export.events) : event.id = Event.id => event = Event
  <2>1. at.event \in DOMAIN Export.events /\ Event.org = Org /\ Event = Export.events[at.event]
    BY <1>2 DEF Control, Placed, Event
  <2>2. \A i \in DOMAIN Export.events :
          Export.events[i].org = Org /\ Export.events[i].id = Event.id => i = at.event
    BY <1>1, <2>1 DEF KeyedById, Keyed
  <2>3. at.event \in Nat /\ DOMAIN Export.events \subseteq Nat
    BY <1>1 DEF Places, WellFormed, IsList
  <2> QED
    BY <2>1, <2>2, <2>3 DEF Before, Ours, Members
<1>3. \A e : \A p, q \in PublishedRows(Export, e) : p = q
  BY <1>1 DEF KeyedById, Keyed, PublishedRows, Ours, Members
<1>4. ASSUME pc = "series acl"
      PROVE  \A s \in Before(Export.series, at.series) : s.org = Org => s.id # Series.id
  <2>1. at.series \in DOMAIN Export.series /\ Series.org = Org /\ Series = Export.series[at.series]
    BY <1>4 DEF Control, Placed, Series
  <2>2. \A i \in DOMAIN Export.series :
          Export.series[i].org = Org /\ Export.series[i].id = Series.id => i = at.series
    BY <1>1, <2>1 DEF KeyedById, Keyed
  <2>3. at.series \in Nat /\ DOMAIN Export.series \subseteq Nat
    BY <1>1 DEF Places, WellFormed, IsList
  <2> QED
    BY <2>1, <2>2, <2>3 DEF Before
<1> QED
  BY <1>2, <1>3, <1>4

LEMMA Reported ==
  ASSUME Control, Work, NEW id, NEW why
  PROVE  /\ Hold(id, why) => Held(id, why)'
         /\ Report({<<why, id>>}, 0) => Said(why, id)'
<1>1. runs # <<>> /\ history' = history /\ RunsOK
  BY WorkRuns DEF Control, Placed, Continues, Ends
<1>2. ASSUME NEW lines, NEW holds \in Nat, Report(lines, holds)
      PROVE  lines \subseteq Run'.lines
  BY <1>1, <1>2, RunReported
<1> QED
  BY <1>2 DEF Hold, Held, Said

LEMMA PolicyStep ==
  ASSUME Control, Sources, Work, HoldArchive \/ HoldPolicy \/ ReportAbsent \/ SetEventACL
  PROVE  PolicyDone(Event)'
<1> DEFINE key == <<"event", Event.id>>
<1>1. /\ pc = "archive" /\ Continues /\ Export' = Export /\ Event' = Event /\ Archive' = Archive
      /\ pc # "idle" /\ pc \in EventLabels
  <2>1. pc' \in {"record", "versions"} /\ pc = "archive"
    BY DEF HoldArchive, HoldPolicy, ReportAbsent, SetEventACL, Goto, ToVersions
  <2> QED
    BY <2>1, StaysInEvent DEF EventLabels
<1>2. OneExport' = OneExport
  BY <1>1, WorkAdvances DEF Advances
<1>3. CASE HoldArchive \/ HoldPolicy
  <2>1. Held(Event.id, <<"archive">>)' \/ Held(Event.id, <<"policy">>)'
    BY <1>1, <1>3, Reported DEF HoldArchive, HoldPolicy
  <2> QED
    BY <2>1 DEF PolicyDone, PolicyAccounted
<1>4. CASE ReportAbsent
  <2>1. /\ Archive.state = "absent" /\ UNCHANGED policies
        /\ Said("acl-absent", Event.id)'
    BY <1>1, <1>4, Reported DEF ReportAbsent, target
  <2>2. ASSUME OneExport, key \in DOMAIN policies
        PROVE  FALSE
    <3>1. key[1] = "event" /\ key[2] = Event.id
      OBVIOUS
    <3>2. PICK i \in DOMAIN runs : \E event \in Ours(Read(i).events) :
             /\ event.id = Event.id
             /\ ResolveArchiveACL(Read(i), Latest(event))
                  = [state |-> "present", entries |-> policies[key]]
      <4> HIDE DEF key
      <4> QED
        BY <2>2, <3>1 DEF Sources
    <3>3. Read(i) = Export
      BY <2>2 DEF OneExport, Read, Export
    <3>4. Archive = [state |-> "present", entries |-> policies[key]]
      BY <1>1, <3>2, <3>3, Unique DEF Archive
    <3> QED
      BY <2>1, <3>4
  <2>3. OneExport => /\ ~(key \in DOMAIN policies)'
                     /\ Archive'.state = "absent" /\ Said("acl-absent", Event.id)'
    BY <1>1, <2>1, <2>2
  <2> QED
    BY <1>2, <2>3 DEF PolicyDone, PolicyAccounted, Archive
<1>5. CASE SetEventACL
  <2>1. Archive.state = "present" /\ policies' = Put(policies, key, Archive.entries)
    BY <1>5 DEF SetEventACL
  <2>2. key \in DOMAIN policies' /\ policies'[key] = Archive.entries
    BY <2>1 DEF Put
  <2>3. key' \in DOMAIN policies' /\ policies'[key'] = Archive'.entries /\ Archive'.state = "present"
    BY <1>1, <2>1, <2>2
  <2> QED
    BY <2>3 DEF PolicyDone, PolicyAccounted, Archive
<1> QED
  BY <1>3, <1>4, <1>5

LEMMA VersionStep ==
  ASSUME Control, Stored, Progress, Work, HoldVersion \/ UpsertSnapshot,
         NEW n, n = at.version
  PROVE  VersionDone(Event, n)'
<1>1. /\ pc \in {"versions", "snapshot"} /\ pc # "idle" /\ pc \in EventLabels
      /\ Continues /\ Export' = Export /\ Event' = Event
  <2>1. pc \in {"versions", "snapshot"} /\ pc' = "versions"
    BY DEF HoldVersion, UpsertSnapshot, Goto, NextVersion
  <2> QED
    BY <2>1, StaysInEvent DEF EventLabels
<1>2. Advances
  BY <1>1, WorkAdvances
<1>3. CASE HoldVersion
  <2>1. Hold(Event.id, <<"version", n>>)
    BY <1>3 DEF HoldVersion
  <2>2. Held(Event.id, <<"version", n>>)'
    BY <1>1, <2>1, Reported
  <2> QED
    BY <2>2 DEF VersionDone
<1>4. CASE UpsertSnapshot
  <2>1. /\ pc = "snapshot" /\ InDoc /\ at.doc = "version" /\ at.element \notin DOMAIN Doc.elements
    BY <1>4 DEF UpsertSnapshot, InDoc, EventLabels, Control, InDocOK
  <2>2. PICK version : version = Doc
    OBVIOUS
  <2>3. version = Event.versions[n]
    BY <2>1, <2>2 DEF Doc
  <2>4. LinksDone(Event.id, version)
    <3>1. \A el \in Behind : LinkDone(Event.id, el)
      BY <1>1, <2>1 DEF Progress, EventSoFar
    <3> QED
      BY <2>1, <2>2, <3>1, BehindFacts DEF LinksDone
  <2>5. LinksDone(Event.id, version)'
    BY <1>1, <1>2, <2>4, LinksKept
  <2>6. ASSUME NEW url \in Links(version), Held(Event.id, <<"url", url>>)
        PROVE  VersionDone(Event, n)'
    <3>1. Held(Event.id, <<"url", url>>)'
      BY <1>1, <1>2, <2>6, HeldKept
    <3> QED
      BY <1>1, <2>3, <2>5, <2>6, <3>1 DEF VersionDone
  <2>7. ASSUME \A el \in Members(version.elements) : urlMap[el.url] = Sha(Export, el)
        PROVE  VersionDone(Event, n)'
    <3> DEFINE own == OwnManifest(Export, Event.id, version)
               xml == Document(Event.id, n, version)
    <3>1. Canonical = own
      BY <2>2, <2>7 DEF Canonical, OwnManifest, Operable
    <3>2. SourceXML = xml
      BY <2>2 DEF SourceXML
    <3>3. {own, xml} \subseteq cas'
      BY <1>2, <2>1, <3>1, <3>2 DEF Stored, Advances
    <3>4. /\ <<Event.id, n>> \in DOMAIN snapshots'
          /\ snapshots'[<<Event.id, n>>] = [manifest |-> own, source |-> xml]
      BY <1>4, <3>1, <3>2 DEF UpsertSnapshot, Put
    <3>5. own' = own /\ xml' = xml
      BY <1>1 DEF OwnManifest, Sha, Bytes, Document
    <3>6. Unit(Event.id, n, version)' \subseteq cas'
      BY <3>3, <3>5 DEF Unit
    <3>7. HasVersion(Export, Event.id, n, version)'
      BY <1>1, <3>4, <3>5 DEF HasVersion
    <3> QED
      BY <1>1, <2>3, <2>5, <3>6, <3>7 DEF VersionDone
  <2>8. \A el \in Members(version.elements) :
          urlMap[el.url] = Sha(Export, el) \/ Held(Event.id, <<"url", el.url>>)
    BY <2>4 DEF LinksDone, LinkDone, LinkAccounted, Sha
  <2> QED
    BY <2>6, <2>7, <2>8 DEF Links
<1> QED
  BY <1>3, <1>4

\* The element at hand is done, whichever step was at it.
LEMMA LinksStep ==
  ASSUME Control, Stored, Progress, Work,
         pc' \in {"copy", "url", "manifest", "snapshot", "publish"}
  PROVE  \A el \in Behind' : LinkDone(Event.id, el)'
<1>1. /\ Continues /\ at'.event = at.event /\ RunsOK /\ Placed /\ pc # "idle"
      /\ at \in Places /\ at.doc \in Docs /\ pc' # "idle" /\ Export' = Export /\ Event' = Event
  BY StaysInEvent, WorkRuns DEF Control, Placed, Places, Docs, EventLabels
<1>2. Advances
  BY <1>1, WorkAdvances
<1>3. CASE RecordURL
  <2>1. /\ NextElement("copy") /\ at.element \in DOMAIN Doc.elements
        /\ InDoc /\ pc = "url" /\ pc \in EventLabels
    BY <1>3 DEF RecordURL, InDoc, EventLabels, Control, InDocOK
  <2>2. Behind' = Behind \cup {El}
    BY <1>1, <2>1, SameDoc, BehindFacts, Moves
  <2>3. \A el \in Behind : LinkDone(Event.id, el)'
    BY <1>1, <1>2, <2>1, LinkKept DEF Progress, EventSoFar
  <2>4. ASSUME NEW el, el = El
        PROVE  LinkDone(Event.id, el)'
    <3>1. Sha(Export, el) \in cas /\ Sha(Export, el)' = Sha(Export, el)
          /\ Bytes(Export, el.url)' = Bytes(Export, el.url)
      BY <1>1, <2>1, <2>4 DEF Stored, Sha, Bytes
    <3>2. /\ el.url \in DOMAIN urlMap'
          /\ urlMap'[el.url] = Sha(Export, el) \/ Hold(Event.id, <<"url", el.url>>)
      BY <1>3, <2>4 DEF RecordURL, Insert, Put
    <3>3. Hold(Event.id, <<"url", el.url>>) => Held(Event.id, <<"url", el.url>>)'
      BY <1>1, Reported
    <3>4. LinkAccounted(Export, Event.id, el.url)'
      BY <3>1, <3>2, <3>3 DEF LinkAccounted, Sha
    <3> QED
      BY <1>2, <3>1, <3>4 DEF LinkDone, Advances
  <2> QED
    BY <2>2, <2>3, <2>4
<1>4. CASE SkipElement
  <2>1. /\ OverElements("copy", at.doc) /\ InDoc
    BY <1>1, <1>4 DEF SkipElement, OverElements, NextElement, Goto, InDoc, EventLabels
  <2>2. Behind' = {}
    BY <1>1, <2>1, SameDoc, BehindFacts, Moves
  <2> QED
    BY <2>2
<1>5. CASE CopyVersion
  <2>1. /\ OverElements("copy", "version") /\ at.version \in DOMAIN Event.versions
        /\ pc = "versions"
    BY <1>1, <1>5, LabelAfter DEF CopyVersion, Goto
  <2>2. at'.doc = "version" /\ at'.element = 1 /\ at'.version = at.version
    BY <1>1, <2>1, Moves DEF Docs
  <2>3. Doc' = Event.versions[at.version]
    BY <1>1, <2>2 DEF Doc
  <2>4. IsList(Event.versions[at.version].elements)
    BY <1>1, <2>1, Located DEF EventLabels, Members
  <2>5. Behind' = {}
    BY <2>2, <2>3, <2>4, BeforeFacts DEF Behind
  <2> QED
    BY <2>5
<1>6. CASE PutElementBytes \/ LinksCopied \/ PutManifest
  <2>1. at' = at /\ pc \in {"copy", "manifest"} /\ InDoc /\ pc \in EventLabels
    BY <1>1, <1>6 DEF PutElementBytes, StoreBytes, EndRun, LinksCopied, PutManifest, Goto,
         InDoc, EventLabels
  <2>2. Behind' = Behind
    BY <1>1, <2>1, SameDoc, BehindFacts
  <2>3. \A el \in Behind : LinkDone(Event.id, el)'
    BY <1>1, <1>2, <2>1, LinkKept DEF Progress, EventSoFar
  <2> QED
    BY <2>2, <2>3
<1> QED
  BY <1>1, <1>3, <1>4, <1>5, <1>6, LabelAfter DEF Work

LEMMA RowsStep ==
  ASSUME Control, Stored, Progress, Work, pc' \in {"materialise", "element"}
  PROVE  \A el \in Behind' :
           IsOperable(el) => el.id \in DOMAIN elements' /\ Sha(Export, el)' \in cas'
<1>1. /\ Continues /\ at'.event = at.event /\ RunsOK /\ Placed /\ pc # "idle"
      /\ at \in Places /\ at.doc \in Docs /\ pc' # "idle" /\ Export' = Export /\ Event' = Event
  BY StaysInEvent, WorkRuns DEF Control, Placed, Places, Docs, EventLabels
<1>2. Advances
  BY <1>1, WorkAdvances
<1>3. \A el : Sha(Export, el)' = Sha(Export, el)
  BY <1>1 DEF Sha, Bytes
<1>4. pc \in {"materialise", "element"} =>
        \A el \in Behind :
          IsOperable(el) => el.id \in DOMAIN elements' /\ Sha(Export, el)' \in cas'
  <2>1. pc \in {"materialise", "element"} =>
          \A el \in Behind : IsOperable(el) => el.id \in DOMAIN elements /\ Sha(Export, el) \in cas
    BY <1>1 DEF Progress, EventSoFar, EventLabels
  <2> QED
    BY <1>2, <1>3, <2>1 DEF Advances
<1>5. CASE InsertMediapackage \/ MaterialiseElement
  <2>1. at' = at /\ InDoc /\ (pc = "row" \/ pc = "materialise")
        /\ (pc = "row" => at.element = 1)
    BY <1>1, <1>5 DEF InsertMediapackage, MaterialiseElement, StoreBytes, Goto, InDoc,
         EventLabels, EndRun, Control, InDocOK
  <2>2. Behind' = Behind /\ (pc = "row" => Behind = {})
    BY <1>1, <2>1, SameDoc, BehindFacts
  <2> QED
    BY <1>4, <2>1, <2>2
<1>6. CASE SkipElement
  <2>1. /\ NextElement("materialise") /\ at.element \in DOMAIN Doc.elements /\ ~IsOperable(El)
        /\ InDoc /\ pc = "materialise"
    BY <1>6 DEF SkipElement, OverElements, Goto, InDoc, EventLabels
  <2>2. Behind' = Behind \cup {El}
    BY <1>1, <2>1, SameDoc, BehindFacts, Moves
  <2> QED
    BY <1>4, <2>1, <2>2
<1>7. CASE InsertElement
  <2>1. /\ NextElement("materialise") /\ at.element \in DOMAIN Doc.elements
        /\ InDoc /\ pc = "element" /\ El.id \in DOMAIN elements' /\ Sha(Export, El) \in cas
    BY <1>7 DEF InsertElement, InDoc, EventLabels, Insert, Put, Control, InDocOK, Stored
  <2>2. Behind' = Behind \cup {El}
    BY <1>1, <2>1, SameDoc, BehindFacts, Moves
  <2>3. Sha(Export, El) \in cas'
    BY <1>2, <2>1 DEF Advances
  <2> QED
    BY <1>3, <1>4, <2>1, <2>2, <2>3
<1> QED
  BY <1>1, <1>5, <1>6, <1>7, LabelAfter DEF Work

LEMMA RecordStep ==
  ASSUME Control, Progress, Work, pc' \in EventLabels, InDoc', at'.doc = "record"
  PROVE  /\ Record(Event.id)' \in cas'
         /\ pc' \in {"copy", "url", "publish"} => RowsDone(Doc)'
<1>1. /\ Continues /\ at'.event = at.event /\ RunsOK /\ Placed /\ pc # "idle" /\ InDocOK
      /\ at \in Places /\ at.doc \in Docs /\ pc' # "idle" /\ Export' = Export /\ Event' = Event
  BY StaysInEvent, WorkRuns DEF Control, Placed, Places, Docs, EventLabels
<1>2. Advances
  BY <1>1, WorkAdvances
<1>3. \/ PreserveRecord
      \/ /\ InDoc /\ at.doc = "record" /\ at'.version = at.version
         /\ \/ pc \in {"copy", "url", "publish"}
            \/ pc' \notin {"copy", "url", "publish"}
            \/ SkipElement /\ pc' = "copy" /\ at.element \notin DOMAIN Doc.elements
  <2>1. CASE \/ InsertMediapackage \/ MaterialiseElement \/ InsertElement
             \/ PutElementBytes \/ RecordURL \/ LinksCopied \/ PutManifest
    <3>1. /\ pc \in {"row", "materialise", "element", "copy", "url", "manifest"}
          /\ at'.doc = at.doc /\ at'.version = at.version
          /\ pc \in {"copy", "url"} \/ pc' \in {"materialise", "element", "snapshot"}
      BY <1>1, <2>1, Moves DEF InsertMediapackage, MaterialiseElement, InsertElement, StoreBytes,
         PutElementBytes, RecordURL, LinksCopied, PutManifest, Goto, EndRun
    <3> QED
      BY <3>1 DEF InDoc, EventLabels
  <2>2. CASE SkipElement
    <3>1. /\ pc = "materialise" /\ at'.doc = at.doc /\ at'.version = at.version
          /\ pc' = "copy" => at.element \notin DOMAIN Doc.elements
          /\ pc' \in {"materialise", "metadata", "copy"}
      BY <1>1, <2>2, Moves DEF SkipElement
    <3> QED
      BY <2>2, <3>1 DEF InDoc, EventLabels
  <2> QED
    BY <1>1, <2>1, <2>2, LabelAfter DEF Work, InDoc, EventLabels
<1>4. CASE PreserveRecord
  <2>1. Record(Event.id) \in cas' /\ pc' = "row"
    BY <1>1, <1>4, LabelAfter DEF PreserveRecord
  <2> QED
    BY <1>1, <2>1 DEF Record
<1>5. CASE InDoc /\ at.doc = "record" /\ at'.version = at.version
  <2>1. Record(Event.id)' \in cas'
    BY <1>1, <1>2, <1>5 DEF Progress, EventSoFar, InDoc, Advances, Record
  <2>2. Doc' = Doc
    BY <1>1, <1>5, SameDoc
  <2>3. CASE pc \in {"copy", "url", "publish"}
    <3>1. RowsDone(Doc)
      BY <1>1, <1>5, <2>3 DEF Progress, EventSoFar, InDoc
    <3> QED
      BY <1>2, <2>1, <2>2, <3>1, RowsKept
  <2>4. CASE SkipElement /\ pc' = "copy" /\ at.element \notin DOMAIN Doc.elements
    <3>1. pc = "materialise"
      BY <2>4 DEF SkipElement
    <3>2. \A el \in Behind : IsOperable(el) => el.id \in DOMAIN elements /\ Sha(Export, el) \in cas
      BY <1>1, <3>1 DEF Progress, EventSoFar, EventLabels
    <3>3. RowsDone(Doc)
      BY <1>5, <2>4, <3>2, BehindFacts DEF RowsDone, Operable
    <3> QED
      BY <1>2, <2>1, <2>2, <3>3, RowsKept
  <2> QED
    BY <1>3, <1>4, <2>1, <2>3, <2>4
<1> QED
  BY <1>3, <1>4, <1>5

LEMMA EventStep ==
  ASSUME Control, Stored, Sources, Progress, Work, pc' \in EventLabels
  PROVE  EventSoFar'
<1>1. /\ Continues /\ at'.event = at.event /\ RunsOK /\ Placed /\ pc # "idle" /\ InDocOK
      /\ at \in Places /\ at.doc \in Docs /\ pc' # "idle" /\ Export' = Export /\ Event' = Event
      /\ pc \in EventLabels => EventSoFar
  BY StaysInEvent, WorkRuns DEF Control, Placed, Places, Docs, EventLabels, Progress
<1>2. Advances
  BY <1>1, WorkAdvances
<1>3. ASSUME pc' = "metadata" \/ AfterMetadata'
      PROVE  RowsDone(Latest(Event))'
  <2>1. CASE pc = "metadata" \/ AfterMetadata
    <3>1. RowsDone(Latest(Event))
      BY <1>1, <2>1 DEF EventSoFar, EventLabels, AfterMetadata, InVersions, InRecord
    <3> QED
      BY <1>1, <1>2, <3>1, RowsKept
  <2>2. CASE SkipElement /\ at.doc = "latest" /\ at.element \notin DOMAIN Doc.elements
    <3>1. pc = "materialise" /\ InDoc /\ Doc = Latest(Event)
      BY <2>2 DEF SkipElement, InDoc, EventLabels, Doc
    <3>2. \A el \in Behind : IsOperable(el) => el.id \in DOMAIN elements /\ Sha(Export, el) \in cas
      BY <1>1, <3>1 DEF EventSoFar, EventLabels
    <3>3. RowsDone(Latest(Event))
      BY <2>2, <3>1, <3>2, BehindFacts DEF RowsDone, Operable
    <3> QED
      BY <1>1, <1>2, <3>3, RowsKept
  <2> QED
    BY <1>3, <2>1, <2>2, Stages
<1>4. ASSUME AfterMetadata'
      PROVE  MetadataDone(Event)'
  <2>1. CASE SetEventMetadata
    <3>1. mps' = Put(mps, Event.id, Latest(Event).series)
      BY <1>4, <2>1 DEF SetEventMetadata, EndRun, Goto, AfterMetadata, InVersions, InRecord
    <3>2. Event.id \in DOMAIN mps' /\ mps'[Event.id] = Latest(Event).series
      BY <3>1 DEF Put
    <3> QED
      BY <1>1, <3>2 DEF MetadataDone
  <2>2. CASE AfterMetadata
    <3>1. MetadataDone(Event) /\ ~SetEventMetadata
      BY <1>1, <2>2 DEF EventSoFar, EventLabels, AfterMetadata, InVersions, InRecord,
         SetEventMetadata
    <3>2. Event.id \in DOMAIN mps' /\ mps'[Event.id] = Latest(Event).series
      BY <3>1, Frame DEF MetadataDone
    <3> QED
      BY <1>1, <3>2 DEF MetadataDone
  <2> QED
    BY <1>4, <2>1, <2>2, Stages
<1>5. ASSUME InVersions' \/ InRecord'
      PROVE  PolicyDone(Event)'
  <2>1. CASE HoldArchive \/ HoldPolicy \/ ReportAbsent \/ SetEventACL
    BY <2>1, PolicyStep
  <2>2. CASE InVersions \/ InRecord
    <3>1. PolicyDone(Event) /\ ~SetEventACL /\ ~SetSeriesACL
      BY <1>1, <2>2 DEF EventSoFar, EventLabels, InVersions, InRecord, SetEventACL, SetSeriesACL
    <3>2. SamePolicy(<<"event", Event.id>>)
      BY <3>1, Frame
    <3> QED
      BY <1>1, <1>2, <3>1, <3>2, PolicyKept
  <2> QED
    BY <1>5, <2>1, <2>2, Stages
<1>6. ASSUME NEW n, VersionDone(Event, n), ~UpsertSnapshot \/ n # at.version
      PROVE  VersionDone(Event, n)'
  <2>1. ~(UpsertSnapshot /\ <<Event.id, n>> = <<Event.id, at.version>>)
    BY <1>6
  <2>2. <<Event.id, n>> \in DOMAIN snapshots =>
           /\ <<Event.id, n>> \in DOMAIN snapshots'
           /\ snapshots'[<<Event.id, n>>] = snapshots[<<Event.id, n>>]
    BY <2>1, Frame
  <2> QED
    BY <1>1, <1>2, <1>6, <2>2, VersionKept
<1>7. DOMAIN Event.versions \subseteq Nat /\ at.version \in Nat \ {0}
      /\ \A n \in DOMAIN Event.versions :
           /\ at.version \notin DOMAIN Event.versions => n < at.version
           /\ n >= 1
  <2>1. at.version \in Nat \ {0}
    BY <1>1 DEF Places
  <2>2. CASE pc \in EventLabels
    <3>1. IsList(Event.versions)
      BY <1>1, <2>2, Located
    <3> QED
      BY <2>1, <3>1 DEF IsList
  <2>3. CASE SkipEvent
    <3>1. Event \in Members(Export.events)
      BY <2>3 DEF SkipEvent, Event, Members
    <3>2. IsList(Event.versions)
      BY <1>1, <3>1, Located DEF WellFormed
    <3> QED
      BY <2>1, <3>2 DEF IsList
  <2> QED
    BY <2>2, <2>3, StaysInEvent
<1>8. ASSUME InVersions', NEW n \in DOMAIN Event.versions, n < at'.version
      PROVE  VersionDone(Event, n)'
  <2>1. CASE InVersions /\ at'.version = at.version /\ ~UpsertSnapshot
    BY <1>1, <1>6, <1>8, <2>1 DEF EventSoFar, InVersions, EventLabels
  <2>2. CASE (HoldVersion \/ UpsertSnapshot) /\ InVersions /\ at'.version = at.version + 1
    <3>1. CASE n = at.version
      BY <2>2, <3>1, VersionStep
    <3>2. CASE n # at.version
      <4>1. n < at.version
        BY <1>7, <1>8, <2>2, <3>2
      <4> QED
        BY <1>1, <1>6, <2>2, <3>2, <4>1 DEF EventSoFar, InVersions, EventLabels
    <3> QED
      BY <3>1, <3>2
  <2>3. CASE at'.version = 1
    BY <1>7, <1>8, <2>3
  <2> QED
    BY <1>8, <2>1, <2>2, <2>3, Stages
<1>9. ASSUME InRecord', NEW n \in DOMAIN Event.versions
      PROVE  VersionDone(Event, n)'
  <2>1. CASE InRecord
    <3>1. ~UpsertSnapshot /\ pc \in EventLabels
      BY <2>1 DEF InRecord, UpsertSnapshot, EventLabels
    <3> QED
      BY <1>1, <1>6, <1>9, <2>1, <3>1 DEF EventSoFar
  <2>2. CASE HoldArchive
    <3>1. Held(Event.id, <<"archive">>)'
      BY <1>1, <2>2, Reported DEF HoldArchive
    <3> QED
      BY <3>1 DEF VersionDone
  <2>3. CASE CopyVersion /\ at.version \notin DOMAIN Event.versions
    <3>1. ~UpsertSnapshot /\ InVersions /\ pc \in EventLabels /\ n < at.version
      BY <1>7, <1>9, <2>3 DEF CopyVersion, InVersions, UpsertSnapshot, EventLabels
    <3> QED
      BY <1>1, <1>6, <1>9, <3>1 DEF EventSoFar
  <2> QED
    BY <1>9, <2>1, <2>2, <2>3, Stages
<1>10. pc' \in {"materialise", "element"} =>
         \A el \in Behind' :
           IsOperable(el) => el.id \in DOMAIN elements' /\ Sha(Export, el)' \in cas'
  BY RowsStep
<1>11. pc' \in {"copy", "url", "manifest", "snapshot", "publish"} =>
         \A el \in Behind' : LinkDone(Event.id, el)'
  BY LinksStep
<1>12. InDoc' /\ at'.doc = "record" =>
         Record(Event.id)' \in cas' /\ (pc' \in {"copy", "url", "publish"} => RowsDone(Doc)')
  BY RecordStep
<1>13. InVersions' => \A n \in DOMAIN Event'.versions : n < at'.version => VersionDone(Event, n)'
  BY <1>1, <1>8
<1>14. InRecord' => \A n \in DOMAIN Event'.versions : VersionDone(Event, n)'
  BY <1>1, <1>9
<1> QED
  BY <1>3, <1>4, <1>5, <1>10, <1>11, <1>12, <1>13, <1>14 DEF EventSoFar

LEMMA HoldsCounted ==
  ASSUME Control, Work, Continues, \A line \in Run.lines : line[1] = "hold" => Run.holds > 0
  PROVE  \A line \in Run'.lines : line[1] = "hold" => Run'.holds > 0
<1>1. runs # <<>> /\ history' = history /\ RunsOK /\ Run.holds \in Nat
  BY WorkRuns, Located DEF Control, Placed, Continues
<1>2. CASE UNCHANGED runs
  BY <1>2 DEF Run
<1>3. ASSUME NEW id, NEW why, Hold(id, why)
      PROVE  Run'.holds > 0
  <2>1. Run'.holds = Run.holds + 1
    BY <1>1, <1>3, RunReported DEF Hold
  <2> QED
    BY <1>1, <2>1
<1>4. ASSUME NEW class, class # "hold", NEW id, Report({<<class, id>>}, 0)
      PROVE  \A line \in Run'.lines : line[1] = "hold" => Run'.holds > 0
  <2>1. Run'.lines = Run.lines \cup {<<class, id>>} /\ Run'.holds = Run.holds + 0
    BY <1>1, <1>4, RunReported
  <2>2. <<class, id>>[1] # "hold"
    BY <1>4
  <2> QED
    BY <1>1, <2>1, <2>2
<1>5. CASE HoldSeries \/ HoldArchive \/ HoldPolicy \/ HoldVersion \/ HoldPublication
  BY <1>3, <1>5 DEF HoldSeries, HoldArchive, HoldPolicy, HoldVersion, HoldPublication
<1>6. CASE RecordURL
  BY <1>2, <1>3, <1>6 DEF RecordURL
<1>7. CASE SetSeriesACL \/ ReportAbsent \/ PreserveRecord
  BY <1>2, <1>4, <1>7 DEF SetSeriesACL, ReportAbsent, PreserveRecord
<1>8. CASE MaterialiseElement \/ PutElementBytes \/ SetEventMetadata \/ Finish
  <2>1. UNCHANGED runs \/ pc' = "idle"
    BY <1>8 DEF MaterialiseElement, PutElementBytes, StoreBytes, SetEventMetadata, Finish, EndRun,
         Goto
  <2>2. pc' # "idle"
    <3>1. Len(runs) \in DOMAIN runs /\ Run.outcome = "running"
      BY <1>1, WorkRuns, RunsList DEF Control, Placed
    <3> QED
      BY <3>1, WorkRuns DEF Continues, Run, Control
  <2> QED
    BY <1>2, <2>1, <2>2
<1> QED
  BY <1>2, <1>5, <1>6, <1>7, <1>8 DEF Work, SkipSeries, PutSeries, SkipEvent, InsertMediapackage,
     SkipElement, InsertElement, SetEventACL, CopyVersion, LinksCopied, PutManifest,
     UpsertSnapshot, SkipRecord, Publish

LEMMA SeriesStep ==
  ASSUME Control, Progress, Work, Continues
  PROVE  /\ \A s \in Before(Export'.series, at'.series) : s.org = Org => SeriesAccounted(s)'
         /\ pc' = "series acl" => Series'.id \in series'
<1>1. /\ RunsOK /\ Placed /\ pc # "idle" /\ at \in Places /\ Export' = Export
      /\ IsList(Export.series) /\ at.series \in Nat \ {0} /\ pc' # "idle"
  <2>1. /\ RunsOK /\ Placed /\ pc # "idle" /\ at \in Places
    BY WorkRuns DEF Control, Placed
  <2>2. pc' # "idle"
    <3>1. Len(runs) \in DOMAIN runs /\ Run.outcome = "running"
      BY <2>1, Located DEF Placed
    <3> QED
      BY <3>1, WorkRuns DEF Continues, Run, Control
  <2> QED
    BY <2>1, <2>2, SameRun, Located DEF WellFormed, Places
<1>2. Advances
  BY WorkAdvances
<1>3. ASSUME NEW s \in Before(Export.series, at.series), s.org = Org
      PROVE  SeriesAccounted(s)'
  <2>1. SeriesAccounted(s)
    BY <1>1, <1>3 DEF Progress
  <2>2. ~(SetSeriesACL /\ <<"series", s.id>> = <<"series", Series.id>>)
    BY <1>1, <1>3, Unique DEF SetSeriesACL
  <2>3. SamePolicy(<<"series", s.id>>)
    BY <2>2, Frame
  <2> QED
    BY <1>2, <2>1, <2>3, SeriesKept
<1>4. ASSUME at'.series = at.series
      PROVE  \A s \in Before(Export'.series, at'.series) : s.org = Org => SeriesAccounted(s)'
  BY <1>1, <1>3, <1>4
<1>5. ASSUME NEW own, own = Series, at.series \in DOMAIN Export.series,
             at'.series = at.series + 1, own.org = Org => SeriesAccounted(own)'
      PROVE  \A s \in Before(Export'.series, at'.series) : s.org = Org => SeriesAccounted(s)'
  <2>1. Before(Export.series, at'.series) = Before(Export.series, at.series) \cup {own}
    BY <1>1, <1>5, BeforeFacts DEF Series
  <2> QED
    BY <1>1, <1>3, <1>5, <2>1
<1>6. PICK own : own = Series
  OBVIOUS
<1>7. CASE SkipSeries
  <2>1. CASE at.series \in DOMAIN Export.series
    <3>1. own.org # Org /\ at'.series = at.series + 1 /\ pc' = "series"
      BY <1>1, <1>6, <1>7, <2>1, Moves DEF SkipSeries
    <3> QED
      BY <1>5, <1>6, <2>1, <3>1
  <2>2. CASE at.series \notin DOMAIN Export.series
    BY <1>4, <1>7, <2>2 DEF SkipSeries, Goto
  <2> QED
    BY <2>1, <2>2
<1>8. CASE HoldSeries
  <2>1. /\ at.series \in DOMAIN Export.series /\ at'.series = at.series + 1 /\ pc' = "series"
        /\ Hold(own.id, <<"series">>)
    BY <1>1, <1>6, <1>8, Moves DEF HoldSeries, AtSeries
  <2>2. Held(own.id, <<"series">>)'
    BY <2>1, Reported
  <2>3. SeriesAccounted(own)'
    BY <2>2 DEF SeriesAccounted
  <2> QED
    BY <1>5, <1>6, <2>1, <2>3
<1>9. CASE PutSeries
  <2>1. at' = at /\ Series' = Series /\ Series.id \in series'
    BY <1>1, <1>9 DEF PutSeries, Goto, Series
  <2> QED
    BY <1>4, <2>1
<1>10. CASE SetSeriesACL
  <2>1. /\ at.series \in DOMAIN Export.series /\ at'.series = at.series + 1 /\ pc' = "series"
        /\ own.id \in series' /\ pc = "series acl"
    BY <1>1, <1>2, <1>6, <1>10, Moves DEF SetSeriesACL, Placed, Progress, Advances
  <2>2. CASE own.policy = NoRow
    <3>1. Said("acl-absent", own.id)'
      BY <1>6, <1>10, <2>2, Reported DEF SetSeriesACL
    <3>2. SeriesAccounted(own)'
      BY <2>1, <2>2, <3>1 DEF SeriesAccounted
    <3> QED
      BY <1>5, <1>6, <2>1, <3>2
  <2>3. CASE own.policy # NoRow
    <3> DEFINE key == <<"series", own.id>>
    <3>1. policies' = Put(policies, key, own.policy)
      BY <1>6, <1>10, <2>3 DEF SetSeriesACL
    <3>2. key \in DOMAIN policies' /\ policies'[key] = own.policy
      BY <3>1 DEF Put
    <3>3. SeriesAccounted(own)'
      BY <2>1, <2>3, <3>2 DEF SeriesAccounted
    <3> QED
      BY <1>5, <1>6, <2>1, <3>3
  <2> QED
    BY <2>2, <2>3
<1>11. CASE ~(SkipSeries \/ HoldSeries \/ PutSeries \/ SetSeriesACL)
  <2>1. pc' # "series acl"
    BY <1>1, <1>11, LabelAfter DEF Work
  <2>2. at'.series = at.series
    <3>1. CASE SkipEvent \/ SkipRecord \/ HoldPublication \/ Publish
      BY <1>1, <3>1, Moves DEF SkipEvent, SkipRecord, HoldPublication, Publish, Docs
    <3>2. CASE \/ SetEventMetadata \/ HoldArchive \/ HoldPolicy \/ ReportAbsent \/ SetEventACL
               \/ HoldVersion \/ UpsertSnapshot \/ CopyVersion
      BY <1>1, <3>2, Moves DEF SetEventMetadata, HoldArchive, HoldPolicy, ReportAbsent,
         SetEventACL, HoldVersion, UpsertSnapshot, CopyVersion, Goto, EndRun, Docs
    <3>3. CASE InsertMediapackage \/ MaterialiseElement \/ PutElementBytes \/ PutManifest \/ LinksCopied
      BY <1>1, <3>3 DEF InsertMediapackage, MaterialiseElement, PutElementBytes, PutManifest,
           LinksCopied, StoreBytes, Goto, EndRun
    <3>4. CASE SkipElement \/ InsertElement \/ RecordURL \/ PreserveRecord
      <4>1. at.doc \in Docs
        BY <1>1 DEF Places, Docs
      <4> QED
        BY <1>1, <3>4, <4>1, Moves DEF SkipElement, InsertElement, RecordURL, PreserveRecord, Docs
    <3>5. ~Finish
      BY <1>1 DEF Finish, EndRun, Goto
    <3> QED
      BY <1>11, <3>1, <3>2, <3>3, <3>4, <3>5 DEF Work
  <2> QED
    BY <1>4, <2>1, <2>2
<1> QED
  BY <1>7, <1>8, <1>9, <1>10, <1>11

\* With its record an event is done.
LEMMA EventEnds ==
  ASSUME Control, Sources, Progress, Work, SkipRecord \/ HoldPublication \/ Publish,
         NEW event, event = Event
  PROVE  EventDone(event)'
<1>1. /\ RunsOK /\ Placed /\ pc # "idle" /\ pc \in EventLabels /\ InRecord /\ pc' = "events"
      /\ EventSoFar /\ Continues
  <2>1. pc \in {"record", "publish"} /\ pc' = "events"
    BY DEF SkipRecord, HoldPublication, Publish, NextEvent, Goto
  <2> QED
    BY <2>1, WorkRuns DEF Control, InRecord, EventLabels, Progress
<1>2. Advances
  BY <1>1, WorkAdvances
<1>3. /\ RowsDone(Latest(event)) /\ MetadataDone(event) /\ PolicyDone(event)
      /\ \A n \in DOMAIN event.versions : VersionDone(event, n)
  BY <1>1 DEF EventSoFar, AfterMetadata
<1>4. ~SetEventMetadata /\ ~SetEventACL /\ ~SetSeriesACL /\ ~UpsertSnapshot
  BY DEF SkipRecord, HoldPublication, Publish, SetEventMetadata, SetEventACL, SetSeriesACL,
     UpsertSnapshot
<1>5. RowsDone(Latest(event))' /\ MetadataDone(event)'
  BY <1>2, <1>3, <1>4, RowsKept, Frame DEF MetadataDone
<1>6. PolicyDone(event)'
  <2>1. SamePolicy(<<"event", event.id>>)
    BY <1>4, Frame
  <2> QED
    BY <1>2, <1>3, <2>1, PolicyKept
<1>7. \A n \in DOMAIN event.versions : VersionDone(event, n)'
  BY <1>2, <1>3, <1>4, Frame, VersionKept
<1>8. RecordDone(event)'
  <2> SUFFICES ASSUME NEW p \in PublishedRows(Export, event.id)
               PROVE  \/ Held(p.id, <<"publication">>)'
                      \/ /\ Record(event.id) \in cas' /\ RowsDone(p)' /\ LinksDone(event.id, p)'
                         /\ OneExport' => HasPublication(Export, p)'
    BY <1>2 DEF RecordDone, Advances
  <2>1. p.id = event.id
    BY DEF PublishedRows
  <2>2. ~SkipRecord
    BY DEF SkipRecord, Unrecorded
  <2>3. CASE HoldPublication
    <3>1. Hold(p.id, <<"publication">>)
      BY <2>1, <2>3 DEF HoldPublication
    <3> QED
      BY <3>1, Reported
  <2>4. CASE Publish
    <3>1. /\ pc = "publish" /\ InDoc /\ at.doc = "record" /\ at.element \notin DOMAIN Doc.elements
          /\ InDocOK
      BY <2>4 DEF Publish, InDoc, EventLabels, Control, InDocOK
    <3>2. p = Doc
      BY <1>1, <3>1, DocFacts, Unique
    <3>3. Record(event.id) \in cas /\ RowsDone(p) /\ \A el \in Behind : LinkDone(event.id, el)
      BY <1>1, <3>1, <3>2 DEF EventSoFar
    <3>4. LinksDone(event.id, p)
      BY <3>1, <3>2, <3>3, BehindFacts DEF LinksDone
    <3>5. Record(event.id) \in cas' /\ RowsDone(p)' /\ LinksDone(event.id, p)'
      BY <1>2, <3>3, <3>4, RowsKept, LinksKept DEF Advances
    <3>6. ASSUME OneExport
          PROVE  HasPublication(Export, p)'
      <4> DEFINE ids == {el.id : el \in Operable(p)}
                 before == IF event.id \in DOMAIN publications THEN publications[event.id].elements
                           ELSE {}
      <4>1. \A i \in DOMAIN runs : Read(i) = Export
        BY <3>6 DEF OneExport, Read, Export
      <4>2. \A id \in before : id \in ids
        <5> SUFFICES ASSUME NEW id \in before
                     PROVE  id \in ids
          OBVIOUS
        <5>1. event.id \in DOMAIN publications /\ id \in publications[event.id].elements
          OBVIOUS
        <5>2. PICK i \in DOMAIN runs : \E q \in PublishedRows(Read(i), event.id) :
                 id \in {el.id : el \in Operable(q)}
          BY <5>1 DEF Sources
        <5> QED
          BY <1>1, <4>1, <5>2, Unique
      <4>3. publications' = Put(publications, event.id,
               [state |-> Pin(p).state, read |-> Pin(p).read, elements |-> before \cup ids])
        BY <2>4, <3>2 DEF Publish
      <4>4. /\ p.id \in DOMAIN publications'
            /\ publications'[p.id] = [state |-> Pin(p).state, read |-> Pin(p).read, elements |-> ids]
        <5>1. before \cup ids = ids
          BY <4>2
        <5> HIDE DEF ids, before
        <5> QED
          BY <2>1, <4>3, <5>1 DEF Put
      <4>5. ASSUME NEW el \in Operable(p)
            PROVE  el.id \in DOMAIN elements' /\ elements'[el.id] = [mp |-> p.id, sha |-> Sha(Export, el)]
        <5>1. el.id \in DOMAIN elements
          BY <3>3 DEF RowsDone
        <5>2. PICK i \in DOMAIN runs : \E r \in ElementRows(Read(i)) :
                 r[2].id = el.id /\ elements[el.id] = [mp |-> r[1], sha |-> Sha(Read(i), r[2])]
          BY <5>1 DEF Sources
        <5>3. PICK r \in ElementRows(Export) :
                 r[2].id = el.id /\ elements[el.id] = [mp |-> r[1], sha |-> Sha(Export, r[2])]
          BY <4>1, <5>2
        <5>4. <<p.id, el>> \in ElementRows(Export)
          BY OwnRows DEF PublishedRows
        <5>5. r[1] = p.id /\ Bytes(Export, r[2].url) = Bytes(Export, el.url)
          <6>1. KeyedById(Export)
            BY <1>1, Located
          <6>2. <<p.id, el>>[1] = p.id /\ <<p.id, el>>[2] = el
            OBVIOUS
          <6> QED
            BY <5>3, <5>4, <6>1, <6>2 DEF KeyedById
        <5>6. elements[el.id] = [mp |-> p.id, sha |-> Sha(Export, el)]
          BY <5>3, <5>5 DEF Sha
        <5> QED
          BY <1>2, <5>1, <5>6 DEF Advances
      <4>6. \A el : Sha(Export, el)' = Sha(Export, el)
        BY <1>2 DEF Advances, Sha, Bytes
      <4> QED
        BY <4>4, <4>5, <4>6 DEF HasPublication
    <3> QED
      BY <1>2, <3>5, <3>6 DEF Advances
  <2> QED
    BY <2>2, <2>3, <2>4
<1> QED
  BY <1>5, <1>6, <1>7, <1>8 DEF EventDone

LEMMA ProgressWork ==
  ASSUME Control, Stored, Sources, Progress, Work
  PROVE  Progress'
<1>1. CASE pc' = "idle"
  BY <1>1 DEF Progress
<1>2. CASE pc' # "idle"
  <2>1. /\ RunsOK /\ Placed /\ pc # "idle" /\ at \in Places /\ Continues /\ Export' = Export
        /\ IsList(Export.events) /\ at.event \in Nat \ {0}
    BY <1>2, WorkRuns, SameRun, Located DEF Control, Placed, WellFormed, Places
  <2>2. /\ \A s \in Before(Export'.series, at'.series) : s.org = Org => SeriesAccounted(s)'
        /\ pc' = "series acl" => Series'.id \in series'
    BY <2>1, SeriesStep
  <2>3. \A line \in Run'.lines : line[1] = "hold" => Run'.holds > 0
    BY <2>1, HoldsCounted DEF Progress
  <2>4. pc' \in EventLabels => EventSoFar'
    BY EventStep
  <2>5. \A event \in Before(Export.events, at.event) : event.org = Org => EventDone(event)'
    BY <2>1, Unique, EventKept DEF Progress
  <2>6. ASSUME at'.event = at.event
        PROVE  \A event \in Before(Export'.events, at'.event) : event.org = Org => EventDone(event)'
    BY <2>1, <2>5, <2>6
  <2>7. ASSUME NEW own, own = Event, at.event \in DOMAIN Export.events,
               at'.event = at.event + 1, own.org = Org => EventDone(own)'
        PROVE  \A event \in Before(Export'.events, at'.event) : event.org = Org => EventDone(event)'
    <3>1. Before(Export.events, at'.event) = Before(Export.events, at.event) \cup {own}
      BY <2>1, <2>7, BeforeFacts DEF Event
    <3> QED
      BY <2>1, <2>5, <2>7, <3>1
  <2>8. PICK own : own = Event
    OBVIOUS
  <2>9. \A event \in Before(Export'.events, at'.event) : event.org = Org => EventDone(event)'
    <3>1. CASE pc' \in EventLabels
      BY <2>6, <3>1, StaysInEvent
    <3>2. CASE SkipEvent
      <4>1. CASE Event.org = Org
        <5>1. pc' = "row"
          BY <3>2, <4>1 DEF SkipEvent, OverElements, Goto
        <5> QED
          BY <3>1, <5>1 DEF EventLabels
      <4>2. CASE Event.org # Org
        <5>1. at.event \in DOMAIN Export.events /\ at'.event = at.event + 1
          BY <2>1, <3>2, <4>2, Moves DEF SkipEvent
        <5> QED
          BY <2>7, <2>8, <4>2, <5>1
      <4> QED
        BY <4>1, <4>2
    <3>3. CASE SkipRecord \/ HoldPublication \/ Publish
      <4>1. at'.event = at.event + 1 /\ pc \in EventLabels
        BY <2>1, <3>3, Moves DEF SkipRecord, HoldPublication, Publish, EventLabels
      <4>2. at.event \in DOMAIN Export.events
        BY <2>1, <4>1 DEF Placed
      <4> QED
        BY <2>7, <2>8, <3>3, <4>1, <4>2, EventEnds
    <3>4. CASE SkipSeries \/ HoldSeries \/ PutSeries \/ SetSeriesACL
      <4>1. at'.event = at.event
        BY <2>1, <3>4, Moves DEF SkipSeries, HoldSeries, PutSeries, SetSeriesACL, Goto
      <4> QED
        BY <2>6, <4>1
    <3> QED
      BY <1>2, <3>1, <3>2, <3>3, <3>4, LabelAfter DEF Work, EventLabels
  <2> QED
    BY <2>2, <2>3, <2>4, <2>9 DEF Progress
<1> QED
  BY <1>1, <1>2

LEMMA NextProgress ==
  ASSUME Control, Stored, Sources, Progress, [Next]_vars
  PROVE  Progress'
<1>1. CASE Work
  BY <1>1, ProgressWork
<1>2. CASE StartRun
  <2>1. /\ pc' = "series" /\ at' = Start /\ RunsOK' /\ Run'.lines = {}
        /\ Run'.export \in DOMAIN history' /\ history' \in Histories
    <3>1. \E i \in DOMAIN history :
             runs' = Append(runs, [export |-> i, outcome |-> "running", lines |-> {}, holds |-> 0])
      BY <1>2 DEF StartRun
    <3> QED
      BY <1>2, <3>1, RunStarted DEF StartRun, Goto, Control, Placed
  <2>2. WellFormed(Export')
    BY <2>1, ExportsAssumption DEF Export, Members
  <2>3. Before(Export'.series, 1) = {} /\ Before(Export'.events, 1) = {}
    BY <2>2, BeforeFacts DEF WellFormed
  <2>4. at'.series = 1 /\ at'.event = 1
    BY <2>1 DEF Start
  <2> QED
    BY <2>1, <2>3, <2>4 DEF Progress, EventLabels
<1>3. CASE Fault
  BY <1>3 DEF Fault, EndRun, Goto, Progress
<1>4. CASE UNCHANGED vars
  <2>1. UNCHANGED <<history, runs, pc, at, target>>
    BY <1>4 DEF vars, process
  <2>2. Advances
    BY <2>1, <1>4, SameVars DEF Advances, OneExport, target
  <2>3. /\ \A s : SeriesAccounted(s) => SeriesAccounted(s)'
        /\ \A event : EventDone(event) => EventDone(event)'
    BY <2>1, <2>2, SeriesKept, EventStays DEF target, SamePolicy
  <2>4. pc \in EventLabels /\ EventSoFar => EventSoFar'
    <3> SUFFICES ASSUME pc \in EventLabels, EventSoFar PROVE EventSoFar'
      OBVIOUS
    <3>1. Event' = Event /\ Doc' = Doc /\ Behind' = Behind /\ at' = at /\ pc' = pc
          /\ InDoc' = InDoc /\ InVersions' = InVersions /\ InRecord' = InRecord
          /\ AfterMetadata' = AfterMetadata
      BY <1>4, <2>1, SameVars DEF InDoc, InVersions, InRecord, AfterMetadata
    <3>2. /\ RowsDone(Latest(Event)) => RowsDone(Latest(Event))'
          /\ RowsDone(Doc) => RowsDone(Doc)'
          /\ MetadataDone(Event) => MetadataDone(Event)'
          /\ PolicyDone(Event) => PolicyDone(Event)'
      BY <2>1, <2>2, <3>1, RowsKept, PolicyKept DEF target, SamePolicy, MetadataDone
    <3>3. \A n : VersionDone(Event, n) => VersionDone(Event, n)'
      BY <2>1, <2>2, <3>1, VersionKept DEF target
    <3>4. \A el : /\ LinkDone(Event.id, el) => LinkDone(Event.id, el)'
                  /\ Sha(Export, el)' = Sha(Export, el)
      BY <2>2, <3>1, LinkKept DEF Advances, Sha, Bytes
    <3>5. Record(Event.id)' = Record(Event.id) /\ cas' = cas /\ elements' = elements
      BY <2>1, <3>1 DEF Record, target
    <3> QED
      BY <3>1, <3>2, <3>3, <3>4, <3>5 DEF EventSoFar
  <2> QED
    BY <1>4, <2>1, <2>3, <2>4, SameVars DEF Progress, target
<1> QED
  BY <1>1, <1>2, <1>3, <1>4 DEF Next

-----------------------------------------------------------------------------
(* A run that ends accounts for its export *)

Accounts ==
  /\ \A s \in Ours(Export.series) : SeriesAccounted(s)
  /\ \A event \in Ours(Export.events) : EventDone(event)
AccountsInv == Control /\ Stored /\ Sources /\ Progress /\ (Ended => Accounts)

\* At the end of the loops everything is behind them.
LEMMA AllDone ==
  ASSUME Control, Progress, Finish
  PROVE  Accounts
<1>1. /\ pc = "events" /\ at.event \notin DOMAIN Export.events
      /\ at.series \notin DOMAIN Export.series /\ at.event \in Nat \ {0} /\ at.series \in Nat \ {0}
  BY DEF Finish, Control, Placed, Places
<1>2. IsList(Export.series) /\ IsList(Export.events)
  BY <1>1, Located DEF Control, WellFormed
<1>3. /\ Before(Export.series, at.series) = Members(Export.series)
      /\ Before(Export.events, at.event) = Members(Export.events)
  BY <1>1, <1>2, BeforeFacts
<1> QED
  BY <1>1, <1>3 DEF Progress, Accounts, Ours

\* The end of a run, and a step that does nothing, leave what is done.
LEMMA AccountsKept ==
  ASSUME Advances, UNCHANGED target, Accounts
  PROVE  Accounts'
<1>1. \A s : SeriesAccounted(s) => SeriesAccounted(s)'
  BY SeriesKept DEF target, SamePolicy
<1>2. \A event : EventDone(event) => EventDone(event)'
  BY EventStays DEF target, SamePolicy
<1> QED
  BY <1>1, <1>2 DEF Accounts, Advances

LEMMA FinishAdvances ==
  ASSUME Control, Finish
  PROVE  Advances /\ UNCHANGED target /\ Ends
<1>1. Work /\ UNCHANGED target /\ pc' = "idle" /\ RunsOK /\ Placed /\ pc # "idle"
  BY DEF Work, Finish, EndRun, Goto, Control
<1>2. Ends /\ Export' = Export
  <2>1. history' = history /\ runs # <<>>
    BY <1>1 DEF Finish, Placed
  <2>2. Ends
    BY <1>1, <2>1, RunEnded DEF Finish, Outcomes
  <2> QED
    BY <1>1, <2>2, SameRun
<1>3. Len(runs) \in DOMAIN runs
  BY <1>1, Located
<1>4. OneExport' = OneExport /\ Run.lines \subseteq Run'.lines
  BY <1>2, <1>3 DEF Ends, OneExport, Run
<1> QED
  BY <1>1, <1>2, <1>4 DEF Advances, target

\* Only the end of its loops ends a run as complete.
LEMMA FinishEnds ==
  ASSUME Control, Work, Ended'
  PROVE  Finish
<1>1. RunsOK /\ Placed /\ pc # "idle" /\ Len(runs) \in DOMAIN runs /\ Run.outcome = "running"
  BY WorkRuns, Located DEF Control, Placed
<1>2. Ends /\ pc' = "idle"
  BY <1>1, WorkRuns DEF Ended, Continues, Run
<1>3. ~(EndRun("failed"))
  <2> SUFFICES ASSUME EndRun("failed") PROVE FALSE
    OBVIOUS
  <2>1. Run'.outcome = "failed"
    BY <1>1, <1>2, RunEnded DEF Ends, Outcomes, Placed
  <2> QED
    BY <2>1 DEF Ended
<1>4. ~MaterialiseElement /\ ~PutElementBytes /\ ~SetEventMetadata
  BY <1>2, <1>3 DEF MaterialiseElement, PutElementBytes, StoreBytes, SetEventMetadata, Goto
<1>5. pc' # "idle" \/ Finish
  BY <1>1, <1>4 DEF Work, SkipSeries, HoldSeries, PutSeries, SetSeriesACL, SkipEvent,
     InsertMediapackage, SkipElement, InsertElement, HoldArchive, HoldPolicy, ReportAbsent,
     SetEventACL, HoldVersion, CopyVersion, RecordURL, LinksCopied, PutManifest,
     UpsertSnapshot, SkipRecord, HoldPublication, PreserveRecord, Publish, Goto,
     NextSeries, NextEvent, NextVersion, NextElement, OverElements, ToVersions
<1> QED
  BY <1>2, <1>5

LEMMA AccountsNext ==
  ASSUME AccountsInv, [Next]_vars
  PROVE  AccountsInv'
<1>1. Control' /\ Stored' /\ Sources' /\ Progress'
  BY NextControl, NextStored, NextSources, NextProgress DEF AccountsInv
<1>2. ASSUME Ended'
      PROVE  Accounts'
  <2>1. CASE Work
    <3>1. Finish
      BY <1>2, <2>1, FinishEnds DEF AccountsInv
    <3> QED
      BY <3>1, AllDone, FinishAdvances, AccountsKept DEF AccountsInv
  <2>2. CASE StartRun
    BY <1>2, <2>2, RunStarted DEF StartRun, Ended, AccountsInv, Control, Placed
  <2>3. CASE Fault
    <3>1. Run'.outcome \in {"failed", "running"}
      BY <2>3, RunEnded DEF Fault, AccountsInv, Control, Placed, Outcomes
    <3> QED
      BY <1>2, <3>1 DEF Ended
  <2>4. CASE UNCHANGED vars
    <3>1. UNCHANGED <<history, runs, target>> /\ Run' = Run
      BY <2>4, SameVars DEF vars, process
    <3>2. Advances /\ Ended
      BY <1>2, <2>4, <3>1, SameVars DEF Advances, OneExport, Ended, target
    <3> QED
      BY <3>1, <3>2, AccountsKept DEF AccountsInv
  <2> QED
    BY <2>1, <2>2, <2>3, <2>4 DEF Next
<1> QED
  BY <1>1, <1>2 DEF AccountsInv

LEMMA InitAccounts == Init => AccountsInv
<1>1. ASSUME Init PROVE Stored /\ Sources /\ Progress /\ ~Ended
  BY <1>1 DEF Init, Stored, NamedIsStored, Sources, Progress, Ended, Empty
<1> QED
  BY <1>1, InitControl DEF AccountsInv

LEMMA AccountsInvariant == Spec => []AccountsInv
<1>1. Init => AccountsInv
  BY InitAccounts
<1>2. AccountsInv /\ [Next]_vars => AccountsInv'
  BY AccountsNext
<1> QED
  BY <1>1, <1>2, PTL DEF Spec

\* Loss is reported: what a run that ended has not migrated, a hold of that run
\* names; this after any runs before it that died at any of their steps.
THEOREM MigrateRunAccountsForExport == Spec => []RunAccountsForExport
<1>1. ASSUME Accounts
      PROVE  RunAccountsForExport
  <2>1. ASSUME NEW event \in Ours(Export.events), NEW n \in DOMAIN event.versions
        PROVE  VersionAccounted(Export, event, n) /\ LinksAccounted(Export, event, n)
    <3>1. VersionDone(event, n)
      BY <1>1, <2>1 DEF Accounts, EventDone
    <3> QED
      BY <3>1 DEF VersionDone, VersionAccounted, LinksAccounted, LinksDone, LinkDone, Links
  <2>2. ASSUME NEW event \in Ours(Export.events), OneExport
        PROVE  /\ PolicyAccounted(Export, event)
               /\ \A p \in PublishedRows(Export, event.id) :
                    HasPublication(Export, p) \/ Held(p.id, <<"publication">>)
    BY <1>1, <2>2 DEF Accounts, EventDone, PolicyDone, RecordDone
  <2> QED
    BY <1>1, <2>1, <2>2 DEF RunAccountsForExport, Accounts
<1>2. AccountsInv => RunAccountsForExport
  BY <1>1 DEF AccountsInv, RunAccountsForExport
<1> QED
  BY <1>2, AccountsInvariant, PTL

-----------------------------------------------------------------------------
(* A run over an export that one has completed writes nothing *)

\* What a run has done that completed without a hold.
Copied(el) == Sha(Export, el) \in cas /\ el.url \in DOMAIN urlMap /\ urlMap[el.url] = Sha(Export, el)
SeriesComplete(s) ==
  s.id \in series /\ (s.policy # NoRow => <<"series", s.id>> \in DOMAIN policies
                                            /\ policies[<<"series", s.id>>] = s.policy)
EventComplete(event) ==
  LET acl == ResolveArchiveACL(Export, Latest(event))
      key == <<"event", event.id>>
  IN
  /\ RowsDone(Latest(event)) /\ MetadataDone(event)
  /\ acl.state = "present" => key \in DOMAIN policies /\ policies[key] = acl.entries
  /\ \A n \in DOMAIN event.versions :
       /\ \A el \in Members(event.versions[n].elements) : Copied(el)
       /\ Unit(event.id, n, event.versions[n]) \subseteq cas
       /\ HasVersion(Export, event.id, n, event.versions[n])
  /\ \A p \in PublishedRows(Export, event.id) :
       /\ Record(event.id) \in cas /\ RowsDone(p) /\ HasPublication(Export, p)
       /\ \A el \in Members(p.elements) : Copied(el)
Completed ==
  /\ \A s \in Ours(Export.series) : SeriesComplete(s)
  /\ \A event \in Ours(Export.events) : EventComplete(event)

\* Rows are functions of their keys.
Functions ==
  /\ mps = [e \in DOMAIN mps |-> mps[e]]
  /\ policies = [key \in DOMAIN policies |-> policies[key]]
  /\ snapshots = [k \in DOMAIN snapshots |-> snapshots[k]]
  /\ publications = [e \in DOMAIN publications |-> publications[e]]

QuietInv == AccountsInv /\ Functions /\ (Settled => Completed)

LEMMA NextFunctions ==
  ASSUME Control, Functions, [Next]_vars
  PROVE  Functions'
<1>1. CASE Work
  <2>1. mps' = [e \in DOMAIN mps' |-> mps'[e]]
    <3>1. CASE InsertMediapackage
      BY <3>1 DEF InsertMediapackage, Insert, Put, Functions
    <3>2. CASE SetEventMetadata
      BY <3>2 DEF SetEventMetadata, Put, Functions
    <3> QED
      BY <1>1, <3>1, <3>2, Writes DEF Functions
  <2>2. policies' = [key \in DOMAIN policies' |-> policies'[key]]
    <3>1. CASE SetSeriesACL
      BY <3>1 DEF SetSeriesACL, Put, Functions
    <3>2. CASE SetEventACL
      BY <3>2 DEF SetEventACL, Put, Functions
    <3> QED
      BY <1>1, <3>1, <3>2, Writes DEF Functions
  <2>3. snapshots' = [k \in DOMAIN snapshots' |-> snapshots'[k]]
    BY <1>1, Writes DEF UpsertSnapshot, Put, Functions
  <2>4. publications' = [e \in DOMAIN publications' |-> publications'[e]]
    BY <1>1, Writes DEF Publish, Put, Functions
  <2> QED
    BY <2>1, <2>2, <2>3, <2>4 DEF Functions
<1>2. CASE ~Work
  BY <1>2, NextStill DEF target, Functions
<1> QED
  BY <1>1, <1>2

LEMMA NoHoldCompletes ==
  ASSUME Control, Accounts, Progress, pc # "idle", ~(Run.holds > 0), OneExport
  PROVE  Completed
<1>1. \A id, why : ~Held(id, why)
  <2> SUFFICES ASSUME NEW id, NEW why, <<"hold", id, why>> \in Run.lines
               PROVE  FALSE
    BY DEF Held
  <2>1. <<"hold", id, why>>[1] = "hold"
    OBVIOUS
  <2> QED
    BY <2>1 DEF Progress
<1>2. \A s \in Ours(Export.series) : SeriesComplete(s)
  BY <1>1 DEF Accounts, SeriesAccounted, SeriesComplete
<1>3. ASSUME NEW e, NEW doc, LinksDone(e, doc)
      PROVE  \A el \in Members(doc.elements) : Copied(el)
  BY <1>1, <1>3 DEF LinksDone, LinkDone, LinkAccounted, Copied, Sha
<1>4. ASSUME NEW event \in Ours(Export.events)
      PROVE  EventComplete(event)
  <2> DEFINE acl == ResolveArchiveACL(Export, Latest(event))
             key == <<"event", event.id>>
  <2>1. /\ RowsDone(Latest(event)) /\ MetadataDone(event) /\ PolicyDone(event) /\ RecordDone(event)
        /\ \A n \in DOMAIN event.versions : VersionDone(event, n)
    BY <1>4 DEF Accounts, EventDone
  <2>2. acl.state = "present" => key \in DOMAIN policies /\ policies[key] = acl.entries
    <3>1. IF key \in DOMAIN policies THEN acl.state = "present" /\ policies[key] = acl.entries
          ELSE acl.state = "absent"
      BY <1>1, <2>1 DEF PolicyDone, PolicyAccounted
    <3> HIDE DEF acl, key
    <3> QED
      BY <3>1
  <2>3. ASSUME NEW n \in DOMAIN event.versions
        PROVE  /\ \A el \in Members(event.versions[n].elements) : Copied(el)
               /\ Unit(event.id, n, event.versions[n]) \subseteq cas
               /\ HasVersion(Export, event.id, n, event.versions[n])
    BY <1>1, <1>3, <2>1, <2>3 DEF VersionDone
  <2>4. ASSUME NEW p \in PublishedRows(Export, event.id)
        PROVE  /\ Record(event.id) \in cas /\ RowsDone(p) /\ HasPublication(Export, p)
               /\ \A el \in Members(p.elements) : Copied(el)
    BY <1>1, <1>3, <2>1, <2>4 DEF RecordDone
  <2> HIDE DEF acl, key
  <2> QED
    BY <2>1, <2>2, <2>3, <2>4 DEF EventComplete, acl, key
<1> QED
  BY <1>2, <1>4 DEF Completed

LEMMA CompletedKept ==
  ASSUME Export' = Export, UNCHANGED target, Completed
  PROVE  Completed'
<1>1. \A el : Sha(Export, el)' = Sha(Export, el)
  BY DEF Sha, Bytes
<1>2. \A el : Copied(el) => Copied(el)'
  BY <1>1 DEF Copied, target
<1>3. \A doc : RowsDone(doc) => RowsDone(doc)'
  BY <1>1 DEF RowsDone, target
<1>4. \A s : SeriesComplete(s) => SeriesComplete(s)'
  BY DEF SeriesComplete, target
<1>5. ASSUME NEW event, EventComplete(event)
      PROVE  EventComplete(event)'
  <2> DEFINE acl == ResolveArchiveACL(Export, Latest(event))
             key == <<"event", event.id>>
  <2>1. RowsDone(Latest(event))' /\ MetadataDone(event)'
    BY <1>3, <1>5 DEF EventComplete, MetadataDone, target
  <2>2. acl' = acl /\ policies' = policies
    BY DEF target
  <2>3. acl'.state = "present" => key \in DOMAIN policies' /\ policies'[key] = acl'.entries
    BY <1>5, <2>2 DEF EventComplete
  <2>4. ASSUME NEW n \in DOMAIN event.versions
        PROVE  /\ \A el \in Members(event.versions[n].elements) : Copied(el)'
               /\ Unit(event.id, n, event.versions[n])' \subseteq cas'
               /\ HasVersion(Export, event.id, n, event.versions[n])'
    <3>1. OwnManifest(Export, event.id, event.versions[n])' = OwnManifest(Export, event.id, event.versions[n])
      BY <1>1 DEF OwnManifest
    <3> QED
      BY <1>2, <1>5, <3>1 DEF EventComplete, Unit, HasVersion, Document, target
  <2>5. ASSUME NEW p \in PublishedRows(Export, event.id)
        PROVE  /\ Record(event.id) \in cas' /\ RowsDone(p)' /\ HasPublication(Export, p)'
               /\ \A el \in Members(p.elements) : Copied(el)'
    <3>1. HasPublication(Export, p)'
      BY <1>1, <1>5 DEF EventComplete, HasPublication, target
    <3> QED
      BY <1>2, <1>3, <1>5, <3>1 DEF EventComplete, target
  <2> HIDE DEF acl, key
  <2> QED
    BY <2>1, <2>3, <2>4, <2>5 DEF EventComplete, acl, key
<1> QED
  BY <1>4, <1>5 DEF Completed

\* Every statement finds what it would write.
LEMMA Quiet ==
  ASSUME Control, Functions, Completed, Work
  PROVE  UNCHANGED target
<1>1. /\ RunsOK /\ Placed /\ pc # "idle" /\ InDocOK
      /\ pc \in EventLabels => Event \in Ours(Export.events) /\ EventComplete(Event)
  <2>1. /\ RunsOK /\ Placed /\ pc # "idle" /\ InDocOK
        /\ pc \in EventLabels => Event \in Ours(Export.events)
    BY WorkRuns, Located DEF Control
  <2> QED
    BY <2>1 DEF Completed
<1>2. ASSUME InDoc, at.doc = "record"
      PROVE  EventComplete(Event) /\ Doc \in PublishedRows(Export, Event.id)
  BY <1>1, <1>2, DocFacts DEF InDoc
<1>3. ASSUME AtSeries \/ pc = "series acl"
      PROVE  ~Series.deleted => SeriesComplete(Series)
  <2>1. Series \in Ours(Export.series)
    BY <1>1, <1>3 DEF AtSeries, Placed, Series, Ours, Members
  <2> QED
    BY <2>1 DEF Completed
<1>4. series' = series
  <2>1. CASE PutSeries
    BY <1>3, <2>1 DEF PutSeries, SeriesComplete
  <2> QED
    BY <2>1, Writes
<1>5. mps' = mps
  <2>1. CASE InsertMediapackage
    <3>1. Event.id \in DOMAIN mps
      BY <1>1, <2>1 DEF InsertMediapackage, EventLabels, EventComplete, MetadataDone
    <3> QED
      BY <2>1, <3>1 DEF InsertMediapackage, Insert
  <2>2. CASE SetEventMetadata
    <3>1. Event.id \in DOMAIN mps /\ mps[Event.id] = Latest(Event).series
      BY <1>1, <2>2 DEF SetEventMetadata, EventLabels, EventComplete, MetadataDone
    <3>2. mps' = mps \/ mps' = Put(mps, Event.id, mps[Event.id])
      BY <2>2, <3>1 DEF SetEventMetadata
    <3> QED
      BY <3>1, <3>2 DEF Put, Functions
  <2> QED
    BY <2>1, <2>2, Writes
<1>6. policies' = policies
  <2>1. CASE SetSeriesACL
    <3> DEFINE key == <<"series", Series.id>>
    <3>4. pc = "series acl" /\ ~Series.deleted
      BY <1>1, <2>1 DEF SetSeriesACL, Placed
    <3>1. SeriesComplete(Series)
      BY <1>3, <3>4
    <3>2. CASE Series.policy = NoRow
      BY <2>1, <3>2 DEF SetSeriesACL
    <3>3. CASE Series.policy # NoRow
      <4>1. key \in DOMAIN policies /\ policies[key] = Series.policy
        BY <3>1, <3>3 DEF SeriesComplete
      <4>2. policies' = Put(policies, key, Series.policy)
        BY <2>1, <3>3 DEF SetSeriesACL
      <4> HIDE DEF key
      <4> QED
        BY <4>1, <4>2 DEF Put, Functions
    <3> QED
      BY <3>2, <3>3
  <2>2. CASE SetEventACL
    <3> DEFINE key == <<"event", Event.id>>
    <3>1. policies' = Put(policies, key, policies[key]) /\ key \in DOMAIN policies
      BY <1>1, <2>2 DEF SetEventACL, EventComplete, Archive, EventLabels
    <3> HIDE DEF key
    <3> QED
      BY <3>1 DEF Put, Functions
  <2> QED
    BY <2>1, <2>2, Writes
<1>7. elements' = elements
  <2>1. CASE InsertElement
    <3>1. /\ pc = "element" /\ InDoc /\ at.doc \in {"latest", "record"} /\ El \in Operable(Doc)
          /\ pc \in EventLabels
      BY <1>1, <2>1 DEF InsertElement, InDoc, InDocOK, EventLabels, El, Operable, Members
    <3>2. RowsDone(Doc)
      BY <1>1, <1>2, <3>1, DocFacts DEF EventComplete
    <3> QED
      BY <2>1, <3>1, <3>2 DEF InsertElement, Insert, RowsDone
  <2> QED
    BY <2>1, Writes
<1>8. ASSUME InDoc, at.doc \in {"version", "record"}
      PROVE  \A el \in Members(Doc.elements) : Copied(el)
  <2>1. pc \in EventLabels
    BY <1>8 DEF InDoc
  <2> QED
    BY <1>1, <1>2, <1>8, <2>1, DocFacts DEF EventComplete
<1>9. urlMap' = urlMap
  <2>1. CASE RecordURL
    <3>1. InDoc /\ at.doc \in {"version", "record"} /\ El \in Members(Doc.elements)
      BY <1>1, <2>1 DEF RecordURL, InDoc, InDocOK, EventLabels, El, Members
    <3>2. El.url \in DOMAIN urlMap
      BY <1>8, <3>1 DEF Copied
    <3> QED
      BY <2>1, <3>2 DEF RecordURL, Insert
  <2> QED
    BY <2>1, Writes
<1>10. ASSUME pc \in {"manifest", "snapshot"}
       PROVE  /\ Canonical = OwnManifest(Export, Event.id, Event.versions[at.version])
              /\ SourceXML = Document(Event.id, at.version, Event.versions[at.version])
              /\ at.version \in DOMAIN Event.versions
  <2>1. InDoc /\ at.doc = "version" /\ Doc = Event.versions[at.version]
        /\ at.version \in DOMAIN Event.versions
    BY <1>1, <1>10, DocFacts DEF InDoc, InDocOK, EventLabels
  <2>2. \A el \in Operable(Doc) : urlMap[el.url] = Sha(Export, el)
    BY <1>8, <2>1 DEF Copied, Operable
  <2> QED
    BY <2>1, <2>2 DEF Canonical, SourceXML, OwnManifest
<1>11. snapshots' = snapshots
  <2>1. CASE UpsertSnapshot
    <3> DEFINE key == <<Event.id, at.version>>
    <3>1. snapshots' = Put(snapshots, key, snapshots[key]) /\ key \in DOMAIN snapshots
      BY <1>1, <1>10, <2>1 DEF UpsertSnapshot, EventComplete, HasVersion, EventLabels
    <3> HIDE DEF key
    <3> QED
      BY <3>1 DEF Put, Functions
  <2> QED
    BY <2>1, Writes
<1>12. publications' = publications
  <2>1. CASE Publish
    <3> DEFINE ids == {el.id : el \in Operable(Doc)}
               before == IF Event.id \in DOMAIN publications THEN publications[Event.id].elements
                         ELSE {}
    <3>1. pc = "publish" /\ InDoc /\ at.doc = "record"
      BY <1>1, <2>1 DEF Publish, InDoc, InDocOK, EventLabels
    <3>2. Doc \in PublishedRows(Export, Event.id) /\ HasPublication(Export, Doc) /\ Doc.id = Event.id
      BY <1>2, <3>1 DEF EventComplete, PublishedRows
    <3>3. /\ Event.id \in DOMAIN publications
          /\ publications[Event.id] = [state |-> Pin(Doc).state, read |-> Pin(Doc).read, elements |-> ids]
      BY <3>2 DEF HasPublication
    <3>4. before \cup ids = ids
      BY <3>3
    <3>5. publications' = Put(publications, Event.id,
             [state |-> Pin(Doc).state, read |-> Pin(Doc).read, elements |-> before \cup ids])
      BY <2>1 DEF Publish
    <3> HIDE DEF ids, before
    <3>6. publications' = Put(publications, Event.id, publications[Event.id])
      BY <3>3, <3>4, <3>5
    <3> QED
      BY <3>3, <3>6 DEF Put, Functions
  <2> QED
    BY <2>1, Writes
<1>13. cas' = cas
  <2>1. CASE MaterialiseElement
    <3>1. /\ pc = "materialise" /\ InDoc /\ at.doc \in {"latest", "record"} /\ El \in Operable(Doc)
          /\ pc \in EventLabels
      BY <1>1, <2>1 DEF MaterialiseElement, InDoc, InDocOK, EventLabels, El, Operable, Members
    <3>2. RowsDone(Doc)
      BY <1>1, <1>2, <3>1, DocFacts DEF EventComplete
    <3> QED
      BY <2>1, <3>1, <3>2 DEF MaterialiseElement, StoreBytes, RowsDone
  <2>2. CASE PutElementBytes
    <3>1. InDoc /\ at.doc \in {"version", "record"} /\ El \in Members(Doc.elements)
      BY <1>1, <2>2 DEF PutElementBytes, InDoc, InDocOK, EventLabels, El, Members
    <3>2. Sha(Export, El) \in cas
      BY <1>8, <3>1 DEF Copied
    <3> QED
      BY <2>2, <3>2 DEF PutElementBytes, StoreBytes
  <2>3. CASE PutManifest
    <3>1. {Canonical, SourceXML} \subseteq cas
      BY <1>1, <1>10, <2>3 DEF PutManifest, EventComplete, Unit, EventLabels
    <3> QED
      BY <2>3, <3>1 DEF PutManifest
  <2>4. CASE PreserveRecord
    <3>1. PublishedRow(Export, Event.id) \in PublishedRows(Export, Event.id)
      BY <2>4 DEF PreserveRecord, Publishable, Unrecorded, PublishedRow
    <3>2. Record(Event.id) \in cas
      BY <1>1, <2>4, <3>1 DEF PreserveRecord, EventComplete, EventLabels
    <3> QED
      BY <2>4, <3>2 DEF PreserveRecord
  <2> QED
    BY <2>1, <2>2, <2>3, <2>4, Writes
<1> QED
  BY <1>4, <1>5, <1>6, <1>7, <1>9, <1>11, <1>12, <1>13 DEF target

LEMMA QuietNext ==
  ASSUME QuietInv, [Next]_vars
  PROVE  QuietInv'
<1>1. AccountsInv' /\ Functions' /\ Control
  BY AccountsNext, NextFunctions DEF QuietInv, AccountsInv
<1>2. ASSUME Settled'
      PROVE  Completed'
  <2>1. CASE Work
    <3>1. RunsOK /\ Placed /\ pc # "idle" /\ Len(runs) \in DOMAIN runs /\ (Continues \/ Ends)
      BY <1>1, <2>1, WorkRuns, Located DEF Control
    <3>2. Export' = Export /\ DOMAIN runs' = DOMAIN runs /\ Len(runs') = Len(runs)
      BY <3>1, SameRun DEF Continues, Ends
    <3>3. CASE Settled
      BY <2>1, <3>2, <3>3, <1>1, Quiet, CompletedKept DEF QuietInv
    <3>4. CASE ~Settled
      <4>1. OneExport
        BY <1>2, <3>1, <3>2 DEF Settled, OneExport, Continues, Ends, Run
      <4>2. PICK j \in DOMAIN runs' : runs'[j].outcome = "complete"
        BY <1>2 DEF Settled
      <4>3. Run'.outcome = "complete" /\ runs' # <<>>
        <5>1. Run' = runs'[Len(runs')]
          BY DEF Run
        <5>2. j = Len(runs')
          BY <3>1, <3>2, <3>4, <4>1, <4>2 DEF Settled, Continues, Ends
        <5>3. runs' # <<>>
          BY <3>1, <3>2
        <5> QED
          BY <4>2, <5>1, <5>2, <5>3
      <4>4. Finish
        BY <1>1, <2>1, <4>3, FinishEnds DEF Ended
      <4>5. ~(Run.holds > 0)
        <5> SUFFICES ASSUME Run.holds > 0 PROVE FALSE
          OBVIOUS
        <5>1. Run'.outcome = "complete-with-holds"
          BY <3>1, <4>4, RunEnded DEF Finish, Outcomes, Placed
        <5> QED
          BY <4>3, <5>1
      <4> QED
        BY <1>1, <3>1, <3>2, <4>1, <4>4, <4>5, AllDone, NoHoldCompletes, FinishAdvances,
           CompletedKept DEF QuietInv, AccountsInv
    <3> QED
      BY <3>3, <3>4
  <2>2. CASE ~Work /\ ~UNCHANGED vars
    <3>1. UNCHANGED <<history, target>> /\ Control'
      BY <1>1, <2>2, NextStill DEF Still, AccountsInv
    <3>2. Settled /\ Run'.export = Run.export
      <4>1. CASE StartRun
        <5>1. PICK i \in DOMAIN history :
                 /\ DOMAIN runs' = DOMAIN runs \cup {Len(runs) + 1}
                 /\ \A k \in DOMAIN runs : runs'[k] = runs[k]
                 /\ Len(runs') = Len(runs) + 1
                 /\ Run'.export = i /\ Run'.outcome = "running"
          BY <1>1, <4>1, RunStarted DEF StartRun, Control, Placed
        <5>2. PICK j \in DOMAIN runs' : runs'[j].outcome = "complete"
          BY <1>2 DEF Settled
        <5>3. j \in DOMAIN runs
          BY <5>1, <5>2 DEF Run
        <5>4. Len(runs) \in DOMAIN runs
          BY <1>1, <5>3, RunsList DEF Control
        <5>5. \A k \in DOMAIN runs : runs[k].export = Run'.export
          BY <1>2, <5>1 DEF Settled, OneExport
        <5>6. Run.export = Run'.export
          BY <5>4, <5>5 DEF Run
        <5> QED
          BY <5>1, <5>2, <5>3, <5>5, <5>6 DEF Settled, OneExport
      <4>2. CASE Fault
        <5>1. Ends /\ Run'.outcome \in {"failed", "running"} /\ Len(runs) \in DOMAIN runs
          BY <1>1, <4>2, RunEnded, Located DEF Fault, Control, Placed, Outcomes
        <5>2. PICK j \in DOMAIN runs' : runs'[j].outcome = "complete"
          BY <1>2 DEF Settled
        <5>3. j \in DOMAIN runs /\ runs[j].outcome = "complete"
          BY <5>1, <5>2 DEF Ends, Run
        <5>4. Run'.export = Run.export
          BY <5>1 DEF Ends, Run
        <5>5. OneExport
          BY <1>2, <5>1, <5>4 DEF Settled, OneExport, Ends
        <5> QED
          BY <5>3, <5>4, <5>5 DEF Settled
      <4> QED
        BY <2>2, <4>1, <4>2 DEF Next
    <3>3. Export' = Export
      BY <3>1, <3>2 DEF Export
    <3> QED
      BY <3>1, <3>2, <3>3, CompletedKept DEF QuietInv
  <2>3. CASE UNCHANGED vars
    <3>1. UNCHANGED <<history, runs, target>> /\ Run' = Run /\ Export' = Export
      BY <2>3, SameVars DEF vars, process
    <3>2. Settled
      BY <1>2, <3>1 DEF Settled, OneExport
    <3> QED
      BY <3>1, <3>2, CompletedKept DEF QuietInv
  <2> QED
    BY <2>1, <2>2, <2>3
<1> QED
  BY <1>1, <1>2 DEF QuietInv

\* A re-run converges: once a run has completed without a hold and every run has
\* read the same export, no step of any run, up to a fault or to its end, changes
\* a row, an object or a link of the target.
THEOREM MigrateRerunIsQuiet == Spec => RerunIsQuiet
<1>1. ASSUME QuietInv, [Next]_vars
      PROVE  [Settled' /\ Settled => UNCHANGED target]_vars
  <2>1. CASE Work
    BY <1>1, <2>1, Quiet DEF QuietInv, AccountsInv
  <2>2. CASE ~Work
    BY <1>1, <2>2, NextStill DEF QuietInv, AccountsInv
  <2> QED
    BY <2>1, <2>2
<1>2. QuietInv /\ [Next]_vars => [Settled' /\ Settled => UNCHANGED target]_vars
  BY <1>1
<1>3. Init => QuietInv
  <2>1. Init => Functions /\ ~Settled
    BY DEF Init, Functions, Settled, Empty
  <2> QED
    BY <2>1, InitAccounts DEF QuietInv
<1>4. QuietInv /\ [Next]_vars => QuietInv'
  BY QuietNext
<1> QED
  BY <1>2, <1>3, <1>4, PTL DEF Spec, RerunIsQuiet
=============================================================================

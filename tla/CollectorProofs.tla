-------------------------- MODULE CollectorProofs --------------------------
(***************************************************************************)
(* Proofs about Collector: as long as no sweep broke off and no two        *)
(* overlapped, a writer that created an object keeps it, and an object is  *)
(* deleted no earlier than the grace after a sweep last found it in use.   *)
(***************************************************************************)
EXTENDS Collector, TLAPS

-----------------------------------------------------------------------------
(* Type correctness *)

LEMMA InitType == Init => TypeOK
<1>1. 0 \in Times
  BY MaxTimeAssumption DEF Times
<1> QED
  BY <1>1 DEF Init, TypeOK, WriterTypeOK, SweepTypeOK, Examines

\* Time and the writers leave the sweeps alone, and the sweeps the writers.
LEMMA WriteType ==
  ASSUME TypeOK, Tick \/ \E w \in Writers : Write(w)
  PROVE  TypeOK'
<1>1. ASSUME SweepTypeOK, UNCHANGED sweep
      PROVE  SweepTypeOK'
  BY <1>1 DEF SweepTypeOK, Examines, sweep
<1>2. CASE Tick
  <2>1. now + 1 \in Times
    BY <1>2, MaxTimeAssumption DEF Tick, TypeOK, Times
  <2>2. WriterTypeOK'
    BY <1>2 DEF Tick, TypeOK, WriterTypeOK, writer
  <2> QED
    BY <1>1, <1>2, <2>1, <2>2 DEF Tick, TypeOK
<1>3. ASSUME NEW w \in Writers, Write(w)
      PROVE  TypeOK'
  <2>1. WriterTypeOK'
    <3> USE NoneAssumption DEF WriterTypeOK
    <3>1. now \in Times /\ WriterTypeOK
      BY DEF TypeOK
    <3>2. ASSUME NEW d \in Digests, CheckExists(w, d) PROVE WriterTypeOK'
      BY <3>1, <3>2 DEF CheckExists, Hold
    <3>3. CASE PutObject(w)
      BY <3>1, <3>3 DEF PutObject, Hold
    <3>4. CASE Reference(w)
      BY <3>1, <3>4 DEF Reference
    <3>5. CASE Abandon(w) \/ Drop(w)
      <4>1. Reset(w)
        BY <3>5 DEF Abandon, Drop
      <4>2. 0 \in Times
        BY MaxTimeAssumption DEF Times
      <4> QED
        BY <3>1, <4>1, <4>2 DEF Reset
    <3> QED
      BY <1>3, <3>2, <3>3, <3>4, <3>5 DEF Write
  <2>2. UNCHANGED <<now, since, sweep, disturbed, cleared>>
    BY <1>3 DEF Write, CheckExists, PutObject, Reference, Abandon, Drop
  <2>3. stored' \subseteq Digests
    BY <1>3 DEF Write, CheckExists, PutObject, Reference, Abandon, Drop,
                TypeOK, WriterTypeOK
  <2>4. dropped' \in [Digests -> Times \cup {LongAgo}]
    <3>1. CASE Drop(w)
      BY <3>1 DEF Drop, TypeOK, WriterTypeOK
    <3>2. CASE ~Drop(w)
      BY <1>3, <3>2 DEF Write, CheckExists, PutObject, Reference, Abandon, TypeOK
    <3> QED
      BY <3>1, <3>2
  <2> QED
    BY <1>1, <2>1, <2>2, <2>3, <2>4 DEF TypeOK
<1> QED
  BY <1>2, <1>3

LEMMA SweepType ==
  ASSUME TypeOK, NEW r \in Replicas, Sweep(r) \/ SweepBreaks(r)
  PROVE  TypeOK'
<1>1. UNCHANGED <<now, writer, dropped>>
  BY DEF Sweep, MarkSet, List, Visit, ReadAge, Recheck, DeleteObject, Forget,
         SweepEnds, SweepBreaks
<1>2. WriterTypeOK'
  BY <1>1 DEF TypeOK, WriterTypeOK, writer
<1>3. SweepTypeOK'
  <2> USE NoneAssumption DEF SweepTypeOK, Examines
  <2>1. SweepTypeOK /\ stored \subseteq Digests
    BY DEF TypeOK
  <2>2. CASE MarkSet(r)
    BY <2>1, <2>2 DEF MarkSet
  <2>3. CASE List(r)
    BY <2>1, <2>3 DEF List
  <2>4. ASSUME NEW d \in Digests, Visit(r, d) PROVE SweepTypeOK'
    BY <2>1, <2>4 DEF Visit, Advance
  <2>5. CASE ReadAge(r)
    BY <2>1, <2>5 DEF ReadAge, Idle, NextObject, Advance
  <2>6. CASE Recheck(r)
    BY <2>1, <2>6 DEF Recheck, NextObject, Advance
  <2>7. CASE DeleteObject(r) \/ Forget(r)
    BY <2>1, <2>7 DEF DeleteObject, Forget, NextObject, Advance
  <2>8. CASE SweepEnds(r) \/ SweepBreaks(r)
    BY <2>1, <2>8 DEF SweepEnds, SweepBreaks, Idle
  <2> QED
    BY <2>2, <2>3, <2>4, <2>5, <2>6, <2>7, <2>8 DEF Sweep
<1>4. stored' \subseteq Digests /\ disturbed' \in BOOLEAN
  BY DEF Sweep, MarkSet, List, Visit, ReadAge, Recheck, DeleteObject, Forget,
         SweepEnds, SweepBreaks, TypeOK
<1>5. /\ since' \in [Digests -> Times \cup {NoRow}]
      /\ cleared' \in [Digests -> Times \cup {LongAgo}]
  <2>1. ASSUME NEW d \in Digests, Visit(r, d)
        PROVE  /\ since' \in [Digests -> Times \cup {NoRow}]
               /\ cleared' \in [Digests -> Times \cup {LongAgo}]
    BY <2>1 DEF Visit, DeleteRow, Observe, TypeOK
  <2>2. CASE Recheck(r)
    BY <2>2 DEF Recheck, DeleteRow, Observe, TypeOK
  <2>3. CASE Forget(r)
    BY <2>3 DEF Forget, DeleteRow, TypeOK
  <2>4. CASE UNCHANGED <<since, cleared>>
    BY <2>4 DEF TypeOK
  <2> QED
    BY <2>1, <2>2, <2>3, <2>4
       DEF Sweep, MarkSet, List, ReadAge, DeleteObject, SweepEnds, SweepBreaks
<1> QED
  BY <1>1, <1>2, <1>3, <1>4, <1>5 DEF TypeOK

LEMMA NextType == TypeOK /\ [Next]_vars => TypeOK'
<1> SUFFICES ASSUME TypeOK, [Next]_vars
             PROVE  TypeOK'
  OBVIOUS
<1>1. CASE UNCHANGED vars
  BY <1>1 DEF vars, writer, sweep, TypeOK, WriterTypeOK, SweepTypeOK, Examines
<1> QED
  BY <1>1, WriteType, SweepType DEF Next

\* Every variable keeps its type, and a sweep examines no object it marked.
THEOREM TypeCorrect == Spec => []TypeOK
<1>1. Init => TypeOK
  BY InitType
<1>2. TypeOK /\ [Next]_vars => TypeOK'
  BY NextType
<1> QED
  BY <1>1, <1>2, PTL DEF Spec

-----------------------------------------------------------------------------
(* The inductive invariant *)

\* At most one sweep is under way.
Lone == \A r, q \in Sweeping : r = q

\* The object is deleted, its row not yet.
Leaving(d) == \E r \in Replicas : spc[r] = "forget" /\ current[r] = d

\* A row of the ledger belongs to an object.
Ledger == \A d \in Digests : since[d] # NoRow => d \in stored \/ Leaving(d)

\* What a sweep has listed is there until it deletes it, and each object is
\* visited once.
Listed ==
  \A r \in Replicas :
    /\ page[r] \subseteq stored
    /\ current[r] \notin page[r]
    /\ spc[r] \in {"idle", "list"} => page[r] = {}
    /\ spc[r] \in {"age", "recheck", "delete"} => current[r] \in stored

\* The operating rule: a put is at most Gap old when its row is committed.
Punctual ==
  \A w \in Writers : wpc[w] = "held" => at[w] <= now /\ now - at[w] <= Gap

\* The ledger's row of an object is not older than the object, as far as its
\* writer has not referenced it.
Young ==
  \A w \in Writers :
    /\ created[w] /\ wpc[w] = "held"
    /\ since[digest[w]] # NoRow /\ ~Leaving(digest[w])
    => at[w] <= since[digest[w]]

\* A sweep that is about to delete has a row whose grace has passed ...
Aged ==
  \A r \in Replicas : spc[r] \in {"recheck", "delete"} =>
    since[current[r]] # NoRow /\ now - since[current[r]] >= Grace

\* ... and nobody who created the object still needs it.
Vetoed ==
  \A r \in Replicas, w \in Writers :
    spc[r] = "delete" /\ created[w] /\ digest[w] = current[r]
    => wpc[w] \notin {"held", "referenced"}

\* A candidacy begins after the collector last saw a reference.
Restarted ==
  \A d \in Digests :
    /\ cleared[d] <= now
    /\ since[d] # NoRow => cleared[d] <= since[d]

Calm ==
  /\ Lone
  /\ Ledger
  /\ Listed
  /\ Young
  /\ Aged
  /\ Vetoed
  /\ \A w \in Writers : Safe(w)

IInv ==
  /\ TypeOK
  /\ Punctual
  /\ Restarted
  /\ ~disturbed => Calm

LEMMA Numbers ==
  ASSUME TypeOK
  PROVE  /\ now \in Int /\ Grace \in Int /\ Gap \in Int /\ Gap < Grace
         /\ \A d \in Digests : cleared[d] \in Int
         /\ \A d \in Digests : since[d] # NoRow => since[d] \in Int
         /\ \A w \in Writers : at[w] \in Int
BY GapAssumption, MaxTimeAssumption DEF TypeOK, WriterTypeOK, Times, LongAgo

LEMMA InitIInv == Init => IInv
<1> SUFFICES ASSUME Init
             PROVE  IInv
  OBVIOUS
<1>1. TypeOK
  BY InitType
<1>2. Restarted
  <2>1. -Grace <= 0
    BY GapAssumption
  <2> QED
    BY <2>1 DEF Init, Restarted, LongAgo
<1>3. Punctual
  BY DEF Init, Punctual
<1>4. Lone /\ Ledger /\ Listed /\ Aged
  BY NoneAssumption DEF Init, Lone, Sweeping, Ledger, Listed, Aged
<1>5. Young /\ Vetoed /\ \A w \in Writers : Safe(w)
  BY DEF Init, Young, Vetoed, Safe
<1> QED
  BY <1>1, <1>2, <1>3, <1>4, <1>5 DEF IInv, Calm

LEMMA TickIInv ==
  ASSUME IInv, TypeOK', Tick
  PROVE  IInv'
<1> USE DEF writer, sweep
<1>1. /\ now' = now + 1
      /\ UNCHANGED <<stored, since, writer, sweep, disturbed, cleared>>
  BY DEF Tick
<1>2. /\ now \in Int /\ Grace \in Int /\ Gap \in Int
      /\ \A d \in Digests : cleared[d] \in Int
      /\ \A d \in Digests : since[d] # NoRow => since[d] \in Int
      /\ \A w \in Writers : at[w] \in Int
  BY Numbers DEF IInv
<1>3. Punctual'
  BY <1>1, <1>2 DEF IInv, Punctual, Tick
<1>4. Restarted'
  BY <1>1, <1>2 DEF IInv, Restarted
<1>5. ASSUME ~disturbed'
      PROVE  Calm'
  <2>1. Calm
    BY <1>1, <1>5 DEF IInv
  <2>2. (Lone /\ Ledger /\ Listed /\ Young /\ Vetoed /\ \A w \in Writers : Safe(w))'
    BY <1>1, <2>1 DEF Calm, Lone, Sweeping, Ledger, Leaving, Listed, Young, Vetoed, Safe
  <2>3. Aged'
    <3> SUFFICES ASSUME NEW r \in Replicas, spc[r] \in {"recheck", "delete"}
                 PROVE  /\ since[current[r]] # NoRow
                        /\ now' - since[current[r]] >= Grace
      BY <1>1 DEF Aged
    <3>1. since[current[r]] # NoRow /\ now - since[current[r]] >= Grace
      BY <2>1 DEF Calm, Aged
    <3>2. current[r] \in Digests
      BY DEF IInv, TypeOK, SweepTypeOK, Examines
    <3> QED
      BY <1>1, <1>2, <3>1, <3>2
  <2> QED
    BY <2>2, <2>3 DEF Calm
<1> QED
  BY <1>1, <1>3, <1>4, <1>5 DEF IInv

\* A step of one writer.  It holds afterwards what it created before and had
\* not referenced, or what was not there before.
LEMMA WriterIInv ==
  ASSUME IInv, TypeOK', NEW w \in Writers,
         UNCHANGED <<now, since, sweep, disturbed, cleared>>,
         stored \subseteq stored',
         \A v \in Writers : v # w =>
           /\ wpc'[v] = wpc[v] /\ digest'[v] = digest[v]
           /\ at'[v] = at[v] /\ created'[v] = created[v],
         wpc'[w] = "held" => at'[w] = now,
         created'[w] /\ wpc'[w] \in {"held", "referenced"} =>
           \/ /\ created[w] /\ wpc[w] = "held" /\ wpc'[w] = "referenced"
              /\ digest'[w] = digest[w]
           \/ digest'[w] \notin stored /\ digest'[w] \in stored'
  PROVE  IInv'
<1> USE DEF sweep
<1>1. /\ now \in Int /\ Gap \in Int /\ 0 <= Gap
      /\ \A d \in Digests : since[d] # NoRow => since[d] \in Int
      /\ \A v \in Writers : at[v] \in Int
  BY Numbers, GapAssumption DEF IInv
<1>2. Punctual'
  BY <1>1 DEF IInv, Punctual
<1>3. Restarted'
  BY DEF IInv, Restarted
<1>4. ASSUME ~disturbed'
      PROVE  Calm'
  <2>1. Calm
    BY <1>4 DEF IInv
  <2>2. (Lone /\ Ledger /\ Listed /\ Aged)'
    BY <2>1 DEF Calm, Lone, Sweeping, Ledger, Leaving, Listed, Aged
  <2>3. \A v \in Writers : wpc'[v] = "held" => digest'[v] \in Digests
    BY DEF TypeOK, WriterTypeOK
  <2>4. Young'
    <3> SUFFICES ASSUME NEW v \in Writers, created'[v], wpc'[v] = "held",
                        since[digest'[v]] # NoRow, ~Leaving(digest'[v])
                 PROVE  at'[v] <= since[digest'[v]]
      BY DEF Young, Leaving
    <3>1. CASE v # w
      BY <2>1, <3>1 DEF Calm, Young
    <3>2. CASE v = w
      BY <2>1, <2>3, <3>2 DEF Calm, Ledger
    <3> QED
      BY <3>1, <3>2
  <2>5. Vetoed'
    <3> SUFFICES ASSUME NEW r \in Replicas, NEW v \in Writers, spc[r] = "delete",
                        created'[v], digest'[v] = current[r],
                        wpc'[v] \in {"held", "referenced"}
                 PROVE  FALSE
      BY DEF Vetoed
    <3>1. CASE v # w
      BY <2>1, <3>1 DEF Calm, Vetoed
    <3>2. CASE v = w
      BY <2>1, <3>2 DEF Calm, Vetoed, Listed
    <3> QED
      BY <3>1, <3>2
  <2>6. (\A v \in Writers : Safe(v))'
    BY <2>1 DEF Calm, Safe
  <2> QED
    BY <2>2, <2>4, <2>5, <2>6 DEF Calm
<1> QED
  BY <1>2, <1>3, <1>4 DEF IInv

LEMMA WriteIInv ==
  ASSUME IInv, TypeOK', NEW w \in Writers, Write(w)
  PROVE  IInv'
<1> USE DEF writer
<1>1. UNCHANGED <<now, since, sweep, disturbed, cleared>> /\ stored \subseteq stored'
  BY DEF Write, CheckExists, PutObject, Reference, Abandon, Drop
<1>2. WriterTypeOK
  BY DEF IInv, TypeOK
<1>3. ASSUME NEW d \in Digests, CheckExists(w, d)
      PROVE  IInv'
  BY <1>1, <1>2, <1>3, WriterIInv DEF CheckExists, Hold, WriterTypeOK
<1>4. CASE PutObject(w)
  BY <1>1, <1>2, <1>4, WriterIInv DEF PutObject, Hold, WriterTypeOK
<1>5. CASE Reference(w)
  BY <1>1, <1>2, <1>5, WriterIInv DEF Reference, WriterTypeOK
<1>6. CASE Abandon(w) \/ Drop(w)
  <2>1. Reset(w)
    BY <1>6 DEF Abandon, Drop
  <2> QED
    BY <1>1, <1>2, <2>1, WriterIInv DEF Reset, WriterTypeOK
<1> QED
  BY <1>3, <1>4, <1>5, <1>6 DEF Write

\* While one sweep is under way and alone, every other replica is idle.
LEMMA OthersIdle ==
  ASSUME IInv, Calm, NEW r \in Replicas, spc[r] # "idle"
  PROVE  \A q \in Replicas : q # r =>
           spc[q] = "idle" /\ page[q] = {} /\ current[q] = NoDigest
BY DEF IInv, TypeOK, SweepTypeOK, Examines, Calm, Lone, Sweeping, Listed

\* A step of the only sweep: what its replica may do to the rest.
LEMMA SweepIInv ==
  ASSUME IInv, TypeOK', NEW r \in Replicas, spc[r] # "idle",
         UNCHANGED <<now, writer, disturbed>>,
         \A q \in Replicas : q # r =>
           spc'[q] = spc[q] /\ page'[q] = page[q] /\ current'[q] = current[q],
         Restarted',
         ~disturbed /\ Calm =>
           /\ Ledger' /\ Young' /\ (\A w \in Writers : Safe(w))'
           /\ page'[r] \subseteq stored' /\ current'[r] \notin page'[r]
           /\ spc'[r] \in {"idle", "list"} => page'[r] = {}
           /\ spc'[r] \in {"age", "recheck", "delete"} => current'[r] \in stored'
           /\ spc'[r] \in {"recheck", "delete"} =>
                since'[current'[r]] # NoRow /\ now - since'[current'[r]] >= Grace
           /\ spc'[r] = "delete" => \A w \in Writers :
                created[w] /\ digest[w] = current'[r] => wpc[w] \notin {"held", "referenced"}
  PROVE  IInv'
<1> USE DEF writer
<1>1. Punctual'
  BY DEF IInv, Punctual
<1>2. ASSUME ~disturbed'
      PROVE  Calm'
  <2>1. ~disturbed /\ Calm
    BY <1>2 DEF IInv
  <2>2. \A q \in Replicas : q # r =>
          spc'[q] = "idle" /\ page'[q] = {} /\ current'[q] = NoDigest
    BY <2>1, OthersIdle
  <2>3. Lone'
    BY <2>2 DEF Lone, Sweeping
  <2>4. Listed'
    <3>1. NoDigest \notin {}
      OBVIOUS
    <3> QED
      BY <2>1, <2>2, <3>1 DEF Listed
  <2>5. Aged' /\ Vetoed'
    BY <2>1, <2>2 DEF Aged, Vetoed
  <2> QED
    BY <2>1, <2>3, <2>4, <2>5 DEF Calm
<1> QED
  BY <1>1, <1>2 DEF IInv

LEMMA MarkSetIInv ==
  ASSUME IInv, TypeOK', NEW r \in Replicas, MarkSet(r)
  PROVE  IInv'
<1> USE DEF writer
<1>1. /\ UNCHANGED <<now, stored, since, writer, current, page, cleared>>
      /\ spc[r] = "idle" /\ spc' = [spc EXCEPT ![r] = "list"]
      /\ disturbed' = (disturbed \/ Sweeping # {})
  BY DEF MarkSet
<1>2. Punctual' /\ Restarted'
  BY <1>1 DEF IInv, Punctual, Restarted
<1>3. ASSUME ~disturbed'
      PROVE  Calm'
  <2>1. Calm /\ Sweeping = {}
    BY <1>1, <1>3 DEF IInv
  <2>2. \A q \in Replicas : spc[q] = "idle" /\ (spc'[q] # "idle" => q = r /\ spc'[q] = "list")
    BY <1>1, <2>1 DEF Sweeping, IInv, TypeOK, SweepTypeOK
  <2>3. (Lone /\ Listed /\ Aged /\ Vetoed)'
    BY <1>1, <2>1, <2>2 DEF Calm, Lone, Sweeping, Listed, Aged, Vetoed
  <2>4. \A d \in Digests : ~Leaving(d)
    BY <2>2 DEF Leaving
  <2>5. (Ledger /\ Young /\ \A w \in Writers : Safe(w))'
    <3>1. \A w \in Writers : wpc[w] = "held" => digest[w] \in Digests
      BY DEF IInv, TypeOK, WriterTypeOK
    <3> QED
      BY <1>1, <2>1, <2>4, <3>1 DEF Calm, Ledger, Young, Safe
  <2> QED
    BY <2>3, <2>5 DEF Calm
<1> QED
  BY <1>2, <1>3 DEF IInv

LEMMA VisitIInv ==
  ASSUME IInv, TypeOK', NEW r \in Replicas, NEW d \in Digests, Visit(r, d)
  PROVE  IInv'
<1> USE DEF writer
<1>1. /\ UNCHANGED <<now, stored, writer, disturbed>>
      /\ spc[r] = "visit" /\ d \in page[r]
      /\ page' = [page EXCEPT ![r] = @ \ {d}]
  BY DEF Visit
<1>2. \/ /\ since' = [since EXCEPT ![d] = NoRow]
         /\ cleared' = [cleared EXCEPT ![d] = now]
         /\ UNCHANGED <<spc, current>>
      \/ /\ since' = [since EXCEPT ![d] = IF since[d] = NoRow THEN now ELSE since[d]]
         /\ UNCHANGED cleared
         /\ spc' = [spc EXCEPT ![r] = "age"]
         /\ current' = [current EXCEPT ![r] = d]
  BY DEF Visit, DeleteRow, Observe, Advance
<1>3. TypeOK /\ Restarted
  BY DEF IInv
<1>4. now \in Int /\ (\A w \in Writers : at[w] \in Int)
  BY <1>3, Numbers
<1>5. Restarted'
  BY <1>1, <1>2, <1>3, <1>4 DEF Restarted, TypeOK
<1>6. /\ page'[r] = page[r] \ {d}
      /\ \/ spc'[r] = "visit" /\ current'[r] = current[r]
         \/ spc'[r] = "age" /\ current'[r] = d
      /\ \A q \in Replicas : q # r =>
           spc'[q] = spc[q] /\ page'[q] = page[q] /\ current'[q] = current[q]
  <2>1. SweepTypeOK
    BY <1>3 DEF TypeOK
  <2>2. CASE UNCHANGED <<spc, current>>
    BY <1>1, <2>1, <2>2 DEF SweepTypeOK
  <2>3. CASE /\ spc' = [spc EXCEPT ![r] = "age"]
             /\ current' = [current EXCEPT ![r] = d]
    BY <1>1, <2>1, <2>3 DEF SweepTypeOK
  <2> QED
    BY <1>2, <2>2, <2>3
<1>7. ASSUME Calm
      PROVE  /\ Ledger' /\ Young' /\ (\A w \in Writers : Safe(w))'
             /\ page'[r] \subseteq stored' /\ current'[r] \notin page'[r]
             /\ spc'[r] \in {"visit", "age"}
             /\ spc'[r] = "age" => current'[r] \in stored'
  <2>1. d \in stored
    BY <1>1, <1>7 DEF Calm, Listed
  <2>2. \A e \in Digests : ~Leaving(e) /\ ~Leaving(e)'
    BY <1>1, <1>6, <1>7, OthersIdle DEF Leaving
  <2>3. Ledger'
    BY <1>1, <1>2, <1>3, <1>7, <2>1, <2>2 DEF Calm, Ledger, TypeOK
  <2>4. Young'
    <3> SUFFICES ASSUME NEW w \in Writers, created[w], wpc[w] = "held",
                        since'[digest[w]] # NoRow
                 PROVE  at[w] <= since'[digest[w]]
      BY <1>1 DEF Young
    <3>1. digest[w] \in Digests /\ at[w] <= now
      BY <1>3 DEF TypeOK, WriterTypeOK, IInv, Punctual
    <3>2. CASE since'[digest[w]] = now
      BY <3>1, <3>2
    <3>3. CASE since'[digest[w]] = since[digest[w]]
      BY <1>7, <2>2, <3>1, <3>3 DEF Calm, Young
    <3> QED
      BY <1>2, <1>3, <3>1, <3>2, <3>3 DEF TypeOK
  <2>5. (\A w \in Writers : Safe(w))'
    BY <1>1, <1>7 DEF Calm, Safe
  <2>6. page[r] \subseteq stored /\ current[r] \notin page[r]
    BY <1>7 DEF Calm, Listed
  <2> QED
    BY <1>1, <1>6, <2>1, <2>3, <2>4, <2>5, <2>6
<1> QED
  BY <1>1, <1>5, <1>6, <1>7, SweepIInv

\* A sweep that leaves store and ledger alone.
LEMMA QuietIInv ==
  ASSUME IInv, TypeOK', NEW r \in Replicas, spc[r] # "idle",
         UNCHANGED <<now, stored, since, writer, disturbed, cleared>>,
         spc[r] # "forget", spc'[r] # "forget",
         \A q \in Replicas : q # r =>
           spc'[q] = spc[q] /\ page'[q] = page[q] /\ current'[q] = current[q],
         Calm =>
           /\ page'[r] \subseteq stored /\ current'[r] \notin page'[r]
           /\ spc'[r] \in {"idle", "list"} => page'[r] = {}
           /\ spc'[r] \in {"age", "recheck", "delete"} => current'[r] \in stored
           /\ spc'[r] \in {"recheck", "delete"} =>
                since[current'[r]] # NoRow /\ now - since[current'[r]] >= Grace
           /\ spc'[r] = "delete" => \A w \in Writers :
                created[w] /\ digest[w] = current'[r] => wpc[w] \notin {"held", "referenced"}
  PROVE  IInv'
<1> USE DEF writer
<1>1. Restarted'
  BY DEF IInv, Restarted
<1>2. ASSUME Calm
      PROVE  Ledger' /\ Young' /\ (\A w \in Writers : Safe(w))'
  <2>1. \A d \in Digests : ~Leaving(d) /\ ~Leaving(d)'
    BY <1>2, OthersIdle DEF Leaving
  <2>2. \A w \in Writers : wpc[w] = "held" => digest[w] \in Digests
    BY DEF IInv, TypeOK, WriterTypeOK
  <2> QED
    BY <1>2, <2>1, <2>2 DEF Calm, Ledger, Young, Safe
<1> QED
  BY <1>1, <1>2, SweepIInv

LEMMA ListIInv ==
  ASSUME IInv, TypeOK', NEW r \in Replicas, List(r)
  PROVE  IInv'
<1>1. /\ UNCHANGED <<now, stored, since, writer, current, disturbed, cleared>>
      /\ spc[r] = "list" /\ spc' = [spc EXCEPT ![r] = "visit"]
      /\ page' = [page EXCEPT ![r] = stored]
  BY DEF List
<1>2. SweepTypeOK /\ stored \subseteq Digests
  BY DEF IInv, TypeOK
<1>3. current[r] \notin stored
  BY <1>1, <1>2, NoneAssumption DEF SweepTypeOK, Examines
<1>4. /\ spc'[r] = "visit" /\ page'[r] = stored
      /\ \A q \in Replicas : q # r => spc'[q] = spc[q] /\ page'[q] = page[q]
  BY <1>1, <1>2 DEF SweepTypeOK
<1> QED
  BY <1>1, <1>3, <1>4, QuietIInv

LEMMA ReadAgeIInv ==
  ASSUME IInv, TypeOK', NEW r \in Replicas, ReadAge(r)
  PROVE  IInv'
<1>1. /\ UNCHANGED <<now, stored, since, writer, disturbed, cleared>>
      /\ spc[r] = "age"
  BY DEF ReadAge
<1>2. TypeOK /\ SweepTypeOK
  BY DEF IInv, TypeOK
<1>3. current[r] \in Digests
  BY <1>1, <1>2 DEF SweepTypeOK, Examines
<1>4. CASE Idle(r)
  <2>1. /\ spc'[r] = "idle" /\ page'[r] = {} /\ current'[r] = NoDigest
        /\ \A q \in Replicas : q # r =>
             spc'[q] = spc[q] /\ page'[q] = page[q] /\ current'[q] = current[q]
    BY <1>2, <1>4 DEF Idle, SweepTypeOK
  <2> QED
    BY <1>1, <2>1, QuietIInv
<1>5. CASE NextObject(r) /\ UNCHANGED page
  <2>1. /\ spc'[r] = "visit" /\ page'[r] = page[r] /\ current'[r] = NoDigest
        /\ \A q \in Replicas : q # r =>
             spc'[q] = spc[q] /\ page'[q] = page[q] /\ current'[q] = current[q]
    BY <1>2, <1>5 DEF NextObject, Advance, SweepTypeOK
  <2>2. NoDigest \notin page[r]
    BY <1>2, NoneAssumption DEF SweepTypeOK
  <2>3. Calm => page[r] \subseteq stored
    BY DEF Calm, Listed
  <2> QED
    BY <1>1, <2>1, <2>2, <2>3, QuietIInv
<1>6. CASE /\ since[current[r]] # NoRow /\ now - since[current[r]] >= Grace
           /\ Advance(r, "recheck") /\ UNCHANGED <<current, page>>
  <2>1. /\ spc'[r] = "recheck" /\ page'[r] = page[r] /\ current'[r] = current[r]
        /\ \A q \in Replicas : q # r =>
             spc'[q] = spc[q] /\ page'[q] = page[q] /\ current'[q] = current[q]
    BY <1>2, <1>6 DEF Advance, SweepTypeOK
  <2>2. Calm => /\ page[r] \subseteq stored /\ current[r] \notin page[r]
                /\ current[r] \in stored
    BY <1>1 DEF Calm, Listed
  <2> QED
    BY <1>1, <1>6, <2>1, <2>2, QuietIInv
<1> QED
  BY <1>4, <1>5, <1>6 DEF ReadAge

\* A held object that the recheck finds unreferenced and aged is older than
\* any upload under way: the grace is longer than the gap.
LEMMA Outlived ==
  ASSUME IInv, Calm, NEW r \in Replicas, spc[r] = "recheck", ~Referenced(current[r]),
         NEW w \in Writers, created[w], digest[w] = current[r]
  PROVE  wpc[w] \notin {"held", "referenced"}
<1>1. wpc[w] # "referenced"
  BY DEF Referenced
<1>2. CASE wpc[w] = "held"
  <2>1. current[r] \in Digests
    BY DEF IInv, TypeOK, SweepTypeOK, Examines
  <2>2. ~Leaving(current[r])
    BY OthersIdle DEF Leaving
  <2>3. since[current[r]] # NoRow /\ now - since[current[r]] >= Grace
    BY DEF Calm, Aged
  <2>4. at[w] <= since[current[r]]
    BY <1>2, <2>2, <2>3 DEF Calm, Young
  <2>5. now - at[w] <= Gap
    BY <1>2 DEF IInv, Punctual
  <2>6. /\ now \in Int /\ at[w] \in Int /\ since[current[r]] \in Int
        /\ Grace \in Int /\ Gap \in Int /\ Gap < Grace
    BY <2>1, <2>3, Numbers DEF IInv
  <2> QED
    BY <2>3, <2>4, <2>5, <2>6
<1> QED
  BY <1>1, <1>2

LEMMA RecheckIInv ==
  ASSUME IInv, TypeOK', NEW r \in Replicas, Recheck(r)
  PROVE  IInv'
<1> USE DEF writer
<1>1. /\ UNCHANGED <<now, stored, writer, mark, page, disturbed>>
      /\ spc[r] = "recheck"
  BY DEF Recheck
<1>2. TypeOK /\ SweepTypeOK /\ Restarted
  BY DEF IInv, TypeOK
<1>3. current[r] \in Digests
  BY <1>1, <1>2 DEF SweepTypeOK, Examines
<1>4. CASE Rechecked(current[r])
  <2>1. /\ since' = [since EXCEPT ![current[r]] = NoRow]
        /\ cleared' = [cleared EXCEPT ![current[r]] = now]
        /\ NextObject(r)
    BY <1>4 DEF Recheck, DeleteRow, Observe
  <2>2. /\ spc'[r] = "visit" /\ current'[r] = NoDigest
        /\ \A q \in Replicas : q # r => spc'[q] = spc[q] /\ current'[q] = current[q]
    BY <1>2, <2>1 DEF NextObject, Advance, SweepTypeOK
  <2>3. now \in Int
    BY <1>2, Numbers
  <2>4. Restarted'
    BY <1>1, <1>2, <1>3, <2>1, <2>3 DEF Restarted, TypeOK
  <2>5. ASSUME Calm
        PROVE  /\ Ledger' /\ Young' /\ (\A w \in Writers : Safe(w))'
               /\ page[r] \subseteq stored /\ NoDigest \notin page[r]
    <3>1. \A d \in Digests : ~Leaving(d) /\ ~Leaving(d)'
      BY <1>1, <2>2, <2>5, OthersIdle DEF Leaving
    <3>2. \A d \in Digests : since'[d] # NoRow => since'[d] = since[d]
      BY <1>2, <2>1 DEF TypeOK
    <3>3. \A w \in Writers : wpc[w] = "held" => digest[w] \in Digests
      BY <1>2 DEF TypeOK, WriterTypeOK
    <3>4. page[r] \subseteq stored /\ NoDigest \notin page[r]
      BY <1>2, <2>5, NoneAssumption DEF Calm, Listed, SweepTypeOK
    <3>5. Ledger'
      BY <1>1, <2>5, <3>1, <3>2 DEF Calm, Ledger
    <3>6. Young'
      BY <1>1, <2>5, <3>1, <3>2, <3>3 DEF Calm, Young
    <3> QED
      BY <1>1, <2>5, <3>4, <3>5, <3>6 DEF Calm, Safe
  <2> QED
    BY <1>1, <2>2, <2>4, <2>5, SweepIInv
<1>5. CASE ~Rechecked(current[r])
  <2>1. /\ spc' = [spc EXCEPT ![r] = "delete"]
        /\ UNCHANGED <<since, cleared, current>>
    BY <1>5 DEF Recheck, Advance
  <2>2. spc'[r] = "delete" /\ \A q \in Replicas : q # r => spc'[q] = spc[q]
    BY <1>2, <2>1 DEF SweepTypeOK
  <2>3. ASSUME Calm
        PROVE  /\ page[r] \subseteq stored /\ current[r] \notin page[r]
               /\ current[r] \in stored
               /\ since[current[r]] # NoRow /\ now - since[current[r]] >= Grace
               /\ \A w \in Writers : created[w] /\ digest[w] = current[r]
                    => wpc[w] \notin {"held", "referenced"}
    <3>1. ~Referenced(current[r])
      BY <1>5 DEF Rechecked
    <3>2. \A w \in Writers : created[w] /\ digest[w] = current[r]
            => wpc[w] \notin {"held", "referenced"}
      BY <1>1, <2>3, <3>1, Outlived
    <3> QED
      BY <1>1, <2>3, <3>2 DEF Calm, Listed, Aged
  <2> QED
    BY <1>1, <2>1, <2>2, <2>3, QuietIInv
<1> QED
  BY <1>4, <1>5

LEMMA DeleteIInv ==
  ASSUME IInv, TypeOK', NEW r \in Replicas, DeleteObject(r)
  PROVE  IInv'
<1> USE DEF writer
<1>1. /\ UNCHANGED <<now, since, writer, current, mark, page, disturbed, cleared>>
      /\ spc[r] = "delete" /\ stored' = stored \ {current[r]}
      /\ spc' = [spc EXCEPT ![r] = "forget"]
  BY DEF DeleteObject, Advance
<1>2. TypeOK /\ SweepTypeOK /\ Restarted
  BY DEF IInv, TypeOK
<1>3. spc'[r] = "forget" /\ \A q \in Replicas : q # r => spc'[q] = spc[q]
  BY <1>1, <1>2 DEF SweepTypeOK
<1>4. Restarted'
  BY <1>1, <1>2 DEF Restarted
<1>5. ASSUME Calm
      PROVE  /\ Ledger' /\ Young' /\ (\A w \in Writers : Safe(w))'
             /\ page[r] \subseteq stored' /\ current[r] \notin page[r]
  <2>1. \A d \in Digests : ~Leaving(d) /\ (Leaving(d)' <=> d = current[r])
    BY <1>1, <1>3, <1>5, OthersIdle DEF Leaving
  <2>2. Ledger'
    BY <1>1, <1>5, <2>1 DEF Calm, Ledger
  <2>3. \A w \in Writers : wpc[w] = "held" => digest[w] \in Digests
    BY <1>2 DEF TypeOK, WriterTypeOK
  <2>4. Young'
    BY <1>1, <1>5, <2>1, <2>3 DEF Calm, Young
  <2>5. (\A w \in Writers : Safe(w))'
    BY <1>1, <1>5 DEF Calm, Vetoed, Safe
  <2>6. page[r] \subseteq stored /\ current[r] \notin page[r]
    BY <1>5 DEF Calm, Listed
  <2> QED
    BY <1>1, <2>2, <2>4, <2>5, <2>6
<1> QED
  BY <1>1, <1>3, <1>4, <1>5, SweepIInv

LEMMA ForgetIInv ==
  ASSUME IInv, TypeOK', NEW r \in Replicas, Forget(r)
  PROVE  IInv'
<1> USE DEF writer
<1>1. /\ UNCHANGED <<now, stored, writer, mark, page, disturbed, cleared>>
      /\ spc[r] = "forget" /\ since' = [since EXCEPT ![current[r]] = NoRow]
      /\ NextObject(r)
  BY DEF Forget, DeleteRow
<1>2. TypeOK /\ SweepTypeOK /\ Restarted
  BY DEF IInv, TypeOK
<1>3. /\ spc'[r] = "visit" /\ current'[r] = NoDigest
      /\ \A q \in Replicas : q # r => spc'[q] = spc[q] /\ current'[q] = current[q]
  BY <1>1, <1>2 DEF NextObject, Advance, SweepTypeOK
<1>4. \A d \in Digests : since'[d] # NoRow => since'[d] = since[d] /\ d # current[r]
  BY <1>1, <1>2 DEF TypeOK
<1>5. Restarted'
  BY <1>1, <1>2, <1>4 DEF Restarted
<1>6. ASSUME Calm
      PROVE  /\ Ledger' /\ Young' /\ (\A w \in Writers : Safe(w))'
             /\ page[r] \subseteq stored /\ NoDigest \notin page[r]
  <2>1. \A d \in Digests : d # current[r] => ~Leaving(d)
    BY <1>1, <1>6, OthersIdle DEF Leaving
  <2>2. Ledger'
    BY <1>1, <1>4, <1>6, <2>1 DEF Calm, Ledger
  <2>3. \A w \in Writers : wpc[w] = "held" => digest[w] \in Digests
    BY <1>2 DEF TypeOK, WriterTypeOK
  <2>4. Young'
    BY <1>1, <1>4, <1>6, <2>1, <2>3 DEF Calm, Young
  <2>5. page[r] \subseteq stored /\ NoDigest \notin page[r]
    BY <1>2, <1>6, NoneAssumption DEF Calm, Listed, SweepTypeOK
  <2> QED
    BY <1>1, <1>6, <2>2, <2>4, <2>5 DEF Calm, Safe
<1> QED
  BY <1>1, <1>3, <1>5, <1>6, SweepIInv

LEMMA SweepEndsIInv ==
  ASSUME IInv, TypeOK', NEW r \in Replicas, SweepEnds(r)
  PROVE  IInv'
<1>1. /\ UNCHANGED <<now, stored, since, writer, disturbed, cleared>>
      /\ spc[r] = "visit" /\ Idle(r)
  BY DEF SweepEnds
<1>2. SweepTypeOK
  BY DEF IInv, TypeOK
<1>3. /\ spc'[r] = "idle" /\ page'[r] = {} /\ current'[r] = NoDigest
      /\ \A q \in Replicas : q # r =>
           spc'[q] = spc[q] /\ page'[q] = page[q] /\ current'[q] = current[q]
  BY <1>1, <1>2 DEF Idle, SweepTypeOK
<1> QED
  BY <1>1, <1>3, QuietIInv

\* After a sweep that broke off, nothing is claimed but times.
LEMMA SweepBreaksIInv ==
  ASSUME IInv, TypeOK', NEW r \in Replicas, SweepBreaks(r)
  PROVE  IInv'
BY DEF SweepBreaks, writer, IInv, Punctual, Restarted

-----------------------------------------------------------------------------
(* The theorems *)

\* The inductive invariant: rows of the ledger, objects, uploads and the one
\* sweep under way keep in step (gc.go:156-207).
THEOREM SweepInvariant == Spec => []IInv
<1>1. Init => IInv
  BY InitIInv
<1>2. IInv /\ [Next]_vars => IInv'
  <2> SUFFICES ASSUME IInv, [Next]_vars
               PROVE  IInv'
    OBVIOUS
  <2>1. TypeOK'
    BY NextType DEF IInv
  <2>2. CASE Tick
    BY <2>1, <2>2, TickIInv
  <2>3. ASSUME NEW w \in Writers, Write(w)
        PROVE  IInv'
    BY <2>1, <2>3, WriteIInv
  <2>4. ASSUME NEW r \in Replicas, Sweep(r) \/ SweepBreaks(r)
        PROVE  IInv'
    BY <2>1, <2>4, MarkSetIInv, ListIInv, VisitIInv, ReadAgeIInv, RecheckIInv,
       DeleteIInv, ForgetIInv, SweepEndsIInv, SweepBreaksIInv DEF Sweep
  <2>5. CASE UNCHANGED vars
    BY <2>1, <2>5 DEF vars, writer, sweep, IInv, Punctual, Restarted, Calm, Lone,
       Sweeping, Ledger, Leaving, Listed, Young, Aged, Vetoed, Safe
  <2> QED
    BY <2>2, <2>3, <2>4, <2>5 DEF Next
<1> QED
  BY <1>1, <1>2, PTL DEF Spec

\* As long as no sweep broke off and no two overlapped, the object of a writer
\* that created it is there until it references it and as long as it does
\* (gc.go:38-50).
THEOREM UploadsAreSafe == Spec => []UploadsSurvive
<1>1. IInv => UploadsSurvive
  BY DEF IInv, Calm, UploadsSurvive
<1> QED
  BY <1>1, SweepInvariant, PTL

\* An object is deleted no earlier than the grace after a sweep last found it
\* referenced (gc.go:19-26).
THEOREM GraceIsKept == Spec => ClockRestarts
<1>1. IInv /\ [Next]_vars =>
        [\A d \in stored \ stored' : ~disturbed => now - cleared[d] >= Grace]_vars
  <2> SUFFICES ASSUME IInv, Next, NEW d \in stored \ stored', ~disturbed
               PROVE  now - cleared[d] >= Grace
    OBVIOUS
  <2>1. PICK r \in Replicas : DeleteObject(r)
    BY DEF Next, Tick, Write, CheckExists, PutObject, Reference, Abandon, Drop,
           Sweep, SweepBreaks, MarkSet, List, Visit, ReadAge, Recheck, Forget, SweepEnds
  <2>2. d = current[r] /\ d \in Digests
    BY <2>1 DEF DeleteObject, IInv, TypeOK
  <2>3. since[d] # NoRow /\ now - since[d] >= Grace
    BY <2>1, <2>2 DEF DeleteObject, IInv, Calm, Aged
  <2>4. cleared[d] <= since[d]
    BY <2>2, <2>3 DEF IInv, Restarted
  <2>5. now \in Int /\ since[d] \in Int /\ cleared[d] \in Int /\ Grace \in Int
    BY <2>2, <2>3, Numbers DEF IInv
  <2> QED
    BY <2>3, <2>4, <2>5
<1> QED
  BY <1>1, SweepInvariant, PTL DEF Spec, ClockRestarts
=============================================================================

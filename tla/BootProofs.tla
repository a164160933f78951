----------------------------- MODULE BootProofs -----------------------------
(***************************************************************************)
(* Proofs about Boot, for any processes, plans, packages, files and number *)
(* of faults and edits.                                                    *)
(***************************************************************************)
EXTENDS Boot, FiniteSetTheorems, TLAPS

-----------------------------------------------------------------------------
(* The invariant *)

\* What a process does while its session holds the advisory lock.
Indexing == {"drop", "create", "build"}
Doing == Indexing \cup {"record"}
Running == {"ledger", "step"} \cup Doing

IsTable(f) == DOMAIN f = PackageSet /\ \A k \in PackageSet : DOMAIN f[k] = Numbers

Typed ==
  /\ plan \in Plans
  /\ IsTable(ledger) /\ IsTable(schema) /\ IsTable(built) /\ IsTable(ran)
  /\ \A k \in PackageSet : \A n \in Numbers :
       /\ schema[k][n] \in {"absent", "invalid", "valid", "done"}
       /\ ran[k][n] \in Nat
  /\ pkg \in [Procs -> DOMAIN Packages]
  /\ at \in [Procs -> Nat \ {0}]
  /\ tries \in [Procs -> Nat] /\ ddl \in [Procs -> Nat]
  /\ DOMAIN known = Procs /\ \A p \in Procs : DOMAIN known[p] = Numbers

Pkg(p) == Packages[pkg[p]]

\* Where a run may be, and what it found there.
Placed(p) ==
  /\ pc[p] \in Running => lock = p
  /\ pc[p] \in {"down", "check", "poll", "ledger"} => at[p] = 1
  /\ pc[p] \in Running \cup {"poll"} => Check(Steps(p))
  /\ pc[p] \in Doing =>
       /\ at[p] \in DOMAIN Steps(p)
       /\ known[p][at[p]] = NoSum
       /\ Current(p).kind \in {"index", "batch"}
  /\ pc[p] \in Indexing =>
       /\ Current(p).kind = "index"
       /\ schema[Pkg(p)][at[p]] = IF pc[p] = "create" THEN "absent" ELSE "invalid"
  /\ pc[p] = "record" => schema[Pkg(p)][at[p]] \in {"valid", "done"}

\* The ledger as read at the start of the run is still the ledger, but for
\* the steps the run has applied itself.
Fresh(p) ==
  pc[p] \in Running \ {"ledger"} => \A n \in Numbers :
    /\ known[p][n] # NoSum => ledger[Pkg(p)][n] = known[p][n]
    /\ n >= at[p] /\ known[p][n] = NoSum => ledger[Pkg(p)][n] = NoSum

\* The step is in the ledger, as the release of p has it.
Own(p, k, n) ==
  /\ ledger[k][n] # NoSum
  /\ plan[p][k][n].kind # "batch" => ledger[k][n] = Sum(plan[p][k][n])

\* Every step a boot has passed is.
Past(p) ==
  /\ \A j \in DOMAIN Packages : j < pkg[p] =>
       \A n \in DOMAIN plan[p][Packages[j]] : Own(p, Packages[j], n)
  /\ pc[p] \in Running => \A n \in DOMAIN Steps(p) : n < at[p] => Own(p, Pkg(p), n)
  /\ pc[p] = "migrated" => \A k \in PackageSet : \A n \in DOMAIN plan[p][k] : Own(p, k, n)

\* A row of the ledger and what its step left.
Row(k, n) ==
  /\ ledger[k][n] # NoSum => schema[k][n] \in {"done", "valid"}
  /\ ledger[k][n] # NoSum => \E p \in Procs : n \in DOMAIN plan[p][k]
  /\ schema[k][n] = "valid" => ran[k][n] = 1
  /\ schema[k][n] \in {"absent", "invalid"} => ran[k][n] = 0
  /\ \A p \in Procs : n \in DOMAIN plan[p][k] =>
       LET step == plan[p][k][n] IN
       /\ step.kind \in {"tx", "guarded"} /\ ledger[k][n] = Sum(step) => schema[k][n] = "done"
       /\ Agreed(k, n) =>
            /\ schema[k][n] \in {"done", "valid"} => built[k][n] = Sum(step)
            /\ ledger[k][n] # NoSum => ledger[k][n] = Sum(step)
            /\ step.kind \in {"tx", "guarded"} =>
                 ran[k][n] = IF ledger[k][n] = NoSum THEN 0 ELSE 1

\* A step of the release creates the table.
Makes(p, t) ==
  \E k \in PackageSet : \E n \in DOMAIN plan[p][k] : t \in plan[p][k][n].creates

\* What main has behind it.
Staged(p) ==
  /\ stage[p] # "schema" => pc[p] = "migrated"
  /\ stage[p] \notin {"schema", "create"} => role
  /\ stage[p] \in {"grant", "granting", "load", "serving"} => usage
  /\ stage[p] = "granting" => left[p] # {}
  /\ stage[p] \in {"grant", "granting"} =>
       \A t \in ServeSet : Makes(p, t) => t \in granted \cup left[p]
  /\ stage[p] \in {"load", "serving"} => \A t \in ServeSet : Makes(p, t) => t \in granted
  /\ pending[p] # <<>> => stage[p] \in {"load", "serving"}

\* Some loader remembers nothing but the row.
Remembered ==
  ~moved => \E p \in Procs : \A f \in Files : applied[p][f] \in {NoFile, row}

IInv ==
  /\ TypeOK /\ Typed
  /\ \A p \in Procs : Placed(p) /\ Fresh(p) /\ Past(p) /\ Staged(p)
  /\ \A k \in PackageSet : \A n \in Numbers : Row(k, n)
  /\ Remembered

-----------------------------------------------------------------------------
(* What a step does to the database *)

LEMMA Plan ==
  ASSUME Typed, NEW p \in Procs, NEW k \in PackageSet
  PROVE  /\ Len(plan[p][k]) \in Nat /\ DOMAIN plan[p][k] = 1 .. Len(plan[p][k])
         /\ DOMAIN plan[p][k] \subseteq Numbers
         /\ \A n \in DOMAIN plan[p][k] :
              /\ plan[p][k][n].kind \in Kinds
              /\ plan[p][k][n].sql \notin {"", NoSum}
              /\ IsStep(plan[p][k][n])
              /\ Sum(plan[p][k][n]) # NoSum
<1>1. /\ Len(plan[p][k]) \in Nat /\ DOMAIN plan[p][k] = 1 .. Len(plan[p][k])
      /\ \A n \in DOMAIN plan[p][k] :
           IsStep(plan[p][k][n])
  <2>1. plan \in Plans
    BY DEF Typed
  <2> QED
    BY <2>1, PlansAssumption
<1>2. DOMAIN plan[p][k] \subseteq Numbers
  BY DEF Numbers
<1>3. \A n \in DOMAIN plan[p][k] : Sum(plan[p][k][n]) # NoSum
  BY <1>1, PlansAssumption DEF Sum, IsStep
<1> QED
  BY <1>1, <1>2, <1>3 DEF IsStep

LEMMA Here ==
  ASSUME Typed, NEW p \in Procs
  PROVE  /\ Pkg(p) \in PackageSet /\ Steps(p) = plan[p][Pkg(p)]
         /\ pkg[p] \in 1 .. Len(Packages) /\ Len(Packages) \in Nat \ {0}
         /\ at[p] \in Nat \ {0}
         /\ Len(Steps(p)) \in Nat /\ DOMAIN Steps(p) = 1 .. Len(Steps(p))
         /\ DOMAIN Steps(p) \subseteq Numbers
<1>1. /\ Pkg(p) \in PackageSet /\ Steps(p) = plan[p][Pkg(p)]
      /\ pkg[p] \in 1 .. Len(Packages) /\ Len(Packages) \in Nat \ {0}
      /\ at[p] \in Nat \ {0}
  BY PackagesAssumption DEF Typed, Pkg, PackageSet, Steps
<1> QED
  BY <1>1, Plan

Unwritten == UNCHANGED <<plan, ledger, schema, built, ran>>

\* What a run may do to the row of its step.
Writes(k, n, step) ==
  \/ /\ step.kind \in {"tx", "guarded"}
     /\ ledger'[k][n] = Sum(step) /\ schema'[k][n] = "done"
     /\ built'[k][n] = Sum(step) /\ ran'[k][n] = ran[k][n] + 1
  \/ /\ step.kind = "batch"
     /\ ledger'[k][n] = NoSum /\ schema'[k][n] = "done"
     /\ built'[k][n] = Sum(step) /\ ran'[k][n] = ran[k][n] + 1
  \/ /\ step.kind = "index"
     /\ ledger'[k][n] = NoSum
     /\ built'[k][n] = built[k][n] /\ ran'[k][n] = ran[k][n]
     /\ \/ schema[k][n] = "invalid" /\ schema'[k][n] = "absent"
        \/ schema[k][n] = "absent" /\ schema'[k][n] = "invalid"
  \/ /\ step.kind = "index"
     /\ ledger'[k][n] = NoSum
     /\ schema[k][n] = "invalid" /\ schema'[k][n] = "valid"
     /\ built'[k][n] = Sum(step) /\ ran'[k][n] = ran[k][n] + 1
  \/ /\ step.kind \in {"index", "batch"}
     /\ schema[k][n] \in {"done", "valid"}
     /\ ledger'[k][n] = Sum(step)
     /\ schema'[k][n] = schema[k][n] /\ built'[k][n] = built[k][n] /\ ran'[k][n] = ran[k][n]

Kept(k, n) == UNCHANGED <<ledger[k][n], schema[k][n], built[k][n], ran[k][n]>>

\* A run writes one row, of a step that is not in the ledger.
WritesStep(p) ==
  /\ plan' = plan
  /\ IsTable(ledger)' /\ IsTable(schema)' /\ IsTable(built)' /\ IsTable(ran)'
  /\ pc[p] \in Running
  /\ at[p] \in DOMAIN Steps(p)
  /\ ledger[Pkg(p)][at[p]] = NoSum
  /\ Writes(Pkg(p), at[p], Current(p))
  /\ \A k \in PackageSet : \A n \in Numbers : <<k, n>> # <<Pkg(p), at[p]>> => Kept(k, n)

LEMMA NumbersType == Typed => Numbers \subseteq Nat \ {0}
<1> SUFFICES ASSUME Typed, NEW n \in Numbers PROVE n \in Nat \ {0}
  OBVIOUS
<1>1. PICK p \in Procs, k \in PackageSet : n \in DOMAIN plan[p][k]
  BY DEF Numbers
<1>2. Len(plan[p][k]) \in Nat /\ DOMAIN plan[p][k] = 1 .. Len(plan[p][k])
  BY Plan
<1> QED
  BY <1>1, <1>2

LEMMA SameTables ==
  ASSUME plan' = plan
  PROVE  Numbers' = Numbers
BY DEF Numbers

LEMMA RunWrites ==
  ASSUME Typed, NEW p \in Procs, Placed(p), Fresh(p), Run(p)
  PROVE  Unwritten \/ WritesStep(p)
<1> DEFINE k == Pkg(p)
           n == at[p]
           s == Current(p)
<1>0. /\ k \in PackageSet /\ Steps(p) = plan[p][k] /\ n \in Nat \ {0}
      /\ Len(Steps(p)) \in Nat /\ DOMAIN Steps(p) = 1 .. Len(Steps(p))
      /\ DOMAIN Steps(p) \subseteq Numbers
      /\ Packages[pkg[p]] = k
  BY Here DEF Pkg
<1>1. CASE UNCHANGED <<ledger, schema, built, ran>>
  <2>1. plan' = plan
    BY DEF Run, CheckPlan, TryLock, ReadLedger, SkipStep, RefuseEdited, RunStatement, RunTxDDL, LockTimeout,
           LookIndex, DropIndex, CreateIndex, IndexBuilt, RunBatch, RecordStep, EndRun
  <2> QED
    BY <1>1, <2>1 DEF Unwritten
<1>2. ASSUME plan' = plan, pc[p] \in Running, n \in DOMAIN Steps(p), known[p][n] = NoSum,
             pc[p] # "ledger",
             NEW a, NEW b, NEW c, NEW d,
             ledger' = ledger \/ ledger' = [ledger EXCEPT ![k][n] = a],
             schema' = schema \/ schema' = [schema EXCEPT ![k][n] = b],
             built' = built \/ built' = [built EXCEPT ![k][n] = c],
             ran' = ran \/ ran' = [ran EXCEPT ![k][n] = d],
             Writes(k, n, s)
      PROVE  WritesStep(p)
  <2>1. n \in Numbers /\ IsTable(ledger) /\ IsTable(schema) /\ IsTable(built) /\ IsTable(ran)
    BY <1>0, <1>2 DEF Typed
  <2>2. ledger[k][n] = NoSum
    BY <1>0, <1>2, <2>1 DEF Fresh
  <2> DEFINE Puts(f, g) ==
               IsTable(g) /\ \A j \in PackageSet : \A m \in Numbers : <<j, m>> # <<k, n>> => g[j][m] = f[j][m]
  <2>3. Puts(ledger, ledger') /\ Puts(schema, schema') /\ Puts(built, built') /\ Puts(ran, ran')
    <3> HIDE DEF k, n
    <3>1. Puts(ledger, ledger')
      BY <1>0, <1>2, <2>1 DEF IsTable
    <3>2. Puts(schema, schema')
      BY <1>0, <1>2, <2>1 DEF IsTable
    <3>3. Puts(built, built')
      BY <1>0, <1>2, <2>1 DEF IsTable
    <3>4. Puts(ran, ran')
      BY <1>0, <1>2, <2>1 DEF IsTable
    <3> QED
      BY <3>1, <3>2, <3>3, <3>4
  <2>4. IsTable(ledger)' /\ IsTable(schema)' /\ IsTable(built)' /\ IsTable(ran)'
    BY <1>2, <2>3, SameTables DEF IsTable
  <2> QED
    BY <1>0, <1>2, <2>2, <2>3, <2>4 DEF WritesStep, Kept
<1>3. CASE RunTxDDL(p)
  <2>1. /\ plan' = plan /\ pc[p] = "step" /\ n \in DOMAIN Steps(p) /\ known[p][n] = NoSum
        /\ s.kind \in {"tx", "guarded"}
        /\ ledger' = [ledger EXCEPT ![k][n] = Sum(s)]
        /\ schema' = [schema EXCEPT ![k][n] = "done"]
        /\ built' = [built EXCEPT ![k][n] = Sum(s)]
        /\ ran' = [ran EXCEPT ![k][n] = ran[k][n] + 1]
    BY <1>0, <1>3 DEF RunTxDDL, AtStep, Applied, Transactional, Apply, Record
  <2>2. Writes(k, n, s)
    BY <1>0, <2>1 DEF Writes, Typed, IsTable
  <2> QED
    BY <1>2, <2>1, <2>2 DEF Running
<1>4. CASE RunBatch(p)
  <2>1. /\ plan' = plan /\ pc[p] = "step" /\ n \in DOMAIN Steps(p) /\ known[p][n] = NoSum
        /\ s.kind = "batch"
        /\ ledger' = ledger
        /\ schema' = [schema EXCEPT ![k][n] = "done"]
        /\ built' = [built EXCEPT ![k][n] = Sum(s)]
        /\ ran' = [ran EXCEPT ![k][n] = ran[k][n] + 1]
    BY <1>0, <1>4 DEF RunBatch, AtStep, Applied, Apply, Goto
  <2>2. ledger[k][n] = NoSum
    BY <1>0, <2>1 DEF Fresh, Running
  <2>3. Writes(k, n, s)
    BY <1>0, <2>1, <2>2 DEF Writes, Typed, IsTable
  <2> QED
    BY <1>2, <2>1, <2>3 DEF Running
<1>5. CASE DropIndex(p) \/ CreateIndex(p) \/ IndexBuilt(p)
  <2>1. /\ plan' = plan /\ pc[p] \in Indexing /\ n \in DOMAIN Steps(p) /\ known[p][n] = NoSum
        /\ s.kind = "index" /\ ledger' = ledger
        /\ schema[k][n] = IF pc[p] = "create" THEN "absent" ELSE "invalid"
    BY <1>0, <1>5 DEF DropIndex, CreateIndex, IndexBuilt, Placed, Doing, Indexing
  <2>2. ledger[k][n] = NoSum
    BY <1>0, <2>1 DEF Fresh, Running, Doing, Indexing
  <2>3. CASE DropIndex(p)
    <3>1. /\ pc[p] = "drop" /\ built' = built /\ ran' = ran
          /\ schema' = [schema EXCEPT ![k][n] = "absent"]
      BY <1>0, <2>3 DEF DropIndex
    <3>2. schema'[k][n] = "absent"
      BY <1>0, <2>1, <3>1 DEF Typed, IsTable
    <3>3. Writes(k, n, s)
      BY <2>1, <2>2, <3>1, <3>2 DEF Writes
    <3> QED
      BY <1>2, <2>1, <3>1, <3>3 DEF Running, Doing, Indexing
  <2>4. CASE CreateIndex(p)
    <3>1. /\ pc[p] = "create" /\ built' = built /\ ran' = ran
          /\ schema' = [schema EXCEPT ![k][n] = "invalid"]
      BY <1>0, <2>4 DEF CreateIndex
    <3>2. schema'[k][n] = "invalid"
      BY <1>0, <2>1, <3>1 DEF Typed, IsTable
    <3>3. Writes(k, n, s)
      BY <2>1, <2>2, <3>1, <3>2 DEF Writes
    <3> QED
      BY <1>2, <2>1, <3>1, <3>3 DEF Running, Doing, Indexing
  <2>5. CASE IndexBuilt(p)
    <3>1. /\ pc[p] = "build"
          /\ schema' = [schema EXCEPT ![k][n] = "valid"]
          /\ built' = [built EXCEPT ![k][n] = Sum(s)]
          /\ ran' = [ran EXCEPT ![k][n] = ran[k][n] + 1]
      BY <1>0, <2>5 DEF IndexBuilt, Apply
    <3>2. Writes(k, n, s)
      BY <1>0, <2>1, <2>2, <3>1 DEF Writes, Typed, IsTable
    <3> QED
      BY <1>2, <2>1, <3>1, <3>2 DEF Running, Doing, Indexing
  <2> QED
    BY <1>5, <2>3, <2>4, <2>5
<1>6. CASE RecordStep(p)
  <2>1. /\ plan' = plan /\ pc[p] = "record" /\ n \in DOMAIN Steps(p) /\ known[p][n] = NoSum
        /\ s.kind \in {"index", "batch"} /\ schema[k][n] \in {"done", "valid"}
        /\ schema' = schema /\ built' = built /\ ran' = ran
    BY <1>0, <1>6 DEF RecordStep, Placed, Doing
  <2>2. ledger[k][n] = NoSum
    BY <1>0, <2>1 DEF Fresh, Running, Doing
  <2>3. ledger' = [ledger EXCEPT ![k][n] = Sum(s)]
    BY <1>0, <1>6, <2>2 DEF RecordStep, Record
  <2>4. ledger'[k][n] = Sum(s)
    BY <1>0, <2>1, <2>3 DEF Typed, IsTable
  <2>5. Writes(k, n, s)
    BY <2>1, <2>4 DEF Writes
  <2> QED
    BY <1>2, <2>1, <2>3, <2>5 DEF Running, Doing
<1>7. CASE \/ CheckPlan(p) \/ TryLock(p) \/ ReadLedger(p) \/ SkipStep(p) \/ RefuseEdited(p)
           \/ RunStatement(p) \/ LockTimeout(p) \/ LookIndex(p) \/ EndRun(p)
  BY <1>1, <1>7 DEF CheckPlan, TryLock, ReadLedger, SkipStep, RefuseEdited, RunStatement,
                    LockTimeout, LookIndex, EndRun, database
<1> QED
  BY <1>3, <1>4, <1>5, <1>6, <1>7 DEF Run

\* What is in the ledger stays.
LEMMA LedgerKeeps ==
  ASSUME Typed, NEW p \in Procs, Unwritten \/ WritesStep(p),
         NEW k \in PackageSet, NEW n \in Numbers, ledger[k][n] # NoSum
  PROVE  ledger'[k][n] = ledger[k][n]
BY DEF Unwritten, WritesStep, Kept

\* A write keeps what a row says, whichever release it comes from.
LEMMA WriteKeepsRow ==
  ASSUME Typed, plan' = plan, NEW p \in Procs, NEW k \in PackageSet,
         NEW n \in DOMAIN plan[p][k],
         Row(k, n), ledger[k][n] = NoSum, Writes(k, n, plan[p][k][n])
  PROVE  Row(k, n)'
<1>n. ran[k][n] = 0 => ran[k][n] + 1 = 1
  OBVIOUS
<1> DEFINE s == plan[p][k][n]
<1>0. /\ s.kind \in Kinds /\ s.sql \notin {"", NoSum} /\ Sum(s) # NoSum
      /\ n \in Numbers /\ ran[k][n] \in Nat
  BY Plan DEF Typed
<1> HIDE DEF s
<1>w. Writes(k, n, s)
  BY DEF s
<1>r. /\ schema[k][n] = "valid" => ran[k][n] = 1
      /\ schema[k][n] \in {"absent", "invalid"} => ran[k][n] = 0
  BY DEF Row
<1>1. ledger'[k][n] # NoSum => schema'[k][n] \in {"done", "valid"}
  BY <1>0, <1>w DEF Writes
<1>2. ledger'[k][n] # NoSum => \E q \in Procs : n \in DOMAIN plan'[q][k]
  OBVIOUS
<1>3. schema'[k][n] = "valid" => ran'[k][n] = 1
  <2>1. CASE schema[k][n] = "invalid" /\ ran'[k][n] = ran[k][n] + 1
    BY <1>r, <1>n, <2>1
  <2>2. CASE schema'[k][n] = schema[k][n] /\ ran'[k][n] = ran[k][n]
    BY <1>r, <2>2
  <2>3. CASE schema'[k][n] # "valid"
    BY <2>3
  <2> QED
    BY <1>w, <2>1, <2>2, <2>3 DEF Writes
<1>4. schema'[k][n] \in {"absent", "invalid"} => ran'[k][n] = 0
  BY <1>0, <1>w, <1>r DEF Writes
<1>5. ASSUME NEW q \in Procs, n \in DOMAIN plan[q][k],
             plan[q][k][n].kind \in {"tx", "guarded"}, ledger'[k][n] = Sum(plan[q][k][n])
      PROVE  schema'[k][n] = "done"
  <2> DEFINE o == plan[q][k][n]
  <2>1. o.sql \notin {"", NoSum} /\ Sum(o) = o.sql
    BY <1>5, Plan DEF Sum
  <2>2. CASE s.kind \in {"tx", "guarded"}
    BY <1>w, <2>2 DEF Writes
  <2>3. CASE s.kind = "batch"
    BY <1>w, <1>5, <2>1, <2>3 DEF Writes, Sum
  <2>4. CASE s.kind = "index"
    <3>1. s.sql # o.sql
      <4>1. plan \in Plans
        BY DEF Typed
      <4> QED
        BY <1>5, <2>4, <4>1, CreatesAssumption DEF s
    <3>2. ledger'[k][n] \in {NoSum, s.sql}
      BY <1>w, <2>4 DEF Writes, Sum
    <3> QED
      BY <1>5, <2>1, <3>1, <3>2
  <2> QED
    BY <1>0, <2>2, <2>3, <2>4 DEF Kinds
<1>6. ASSUME NEW q \in Procs, n \in DOMAIN plan[q][k], Agreed(k, n)
      PROVE  LET step == plan[q][k][n] IN
             /\ schema'[k][n] \in {"done", "valid"} => built'[k][n] = Sum(step)
             /\ ledger'[k][n] # NoSum => ledger'[k][n] = Sum(step)
             /\ step.kind \in {"tx", "guarded"} =>
                  ran'[k][n] = IF ledger'[k][n] = NoSum THEN 0 ELSE 1
  <2>1. plan[q][k][n] = s
    BY <1>6 DEF Agreed, s
  <2>2. /\ schema[k][n] \in {"done", "valid"} => built[k][n] = Sum(s)
        /\ s.kind \in {"tx", "guarded"} => ran[k][n] = 0
    BY <1>6, <2>1 DEF Row, s
  <2>3. schema'[k][n] \in {"done", "valid"} => built'[k][n] = Sum(s)
    BY <1>w, <2>2 DEF Writes
  <2>4. ledger'[k][n] # NoSum => ledger'[k][n] = Sum(s)
    BY <1>w DEF Writes
  <2>5. ASSUME s.kind \in {"tx", "guarded"}
        PROVE  ran'[k][n] = 1 /\ ledger'[k][n] # NoSum
    <3>1. ran'[k][n] = ran[k][n] + 1 /\ ledger'[k][n] = Sum(s)
      BY <1>w, <2>5 DEF Writes
    <3> QED
      BY <1>0, <1>n, <2>2, <2>5, <3>1
  <2> QED
    BY <2>1, <2>3, <2>4, <2>5
<1>7. Agreed(k, n)' <=> Agreed(k, n)
  BY DEF Agreed
<1> QED
  BY <1>1, <1>2, <1>3, <1>4, <1>5, <1>6, <1>7 DEF Row

LEMMA RowsKept ==
  ASSUME Typed, NEW p \in Procs, Unwritten \/ WritesStep(p),
         \A k \in PackageSet : \A n \in Numbers : Row(k, n)
  PROVE  (\A k \in PackageSet : \A n \in Numbers : Row(k, n))'
<1>0. plan' = plan /\ Numbers' = Numbers
  BY SameTables DEF Unwritten, WritesStep
<1> SUFFICES ASSUME NEW k \in PackageSet, NEW n \in Numbers PROVE Row(k, n)'
  BY <1>0
<1>1. CASE Kept(k, n)
  BY <1>0, <1>1 DEF Row, Agreed, Kept
<1>2. CASE WritesStep(p) /\ <<k, n>> = <<Pkg(p), at[p]>>
  <2>1. n \in DOMAIN plan[p][k] /\ Current(p) = plan[p][k][n] /\ ledger[k][n] = NoSum
    BY <1>2, Here DEF WritesStep, Current
  <2>2. Writes(k, n, plan[p][k][n])
    BY <1>2, <2>1 DEF WritesStep, Writes
  <2> QED
    BY <1>0, <2>1, <2>2, WriteKeepsRow
<1> QED
  BY <1>1, <1>2 DEF Unwritten, WritesStep, Kept

LEMMA TablesTyped ==
  ASSUME Typed, NEW p \in Procs, Unwritten \/ WritesStep(p)
  PROVE  /\ plan' \in Plans
         /\ IsTable(ledger)' /\ IsTable(schema)' /\ IsTable(built)' /\ IsTable(ran)'
         /\ (\A k \in PackageSet : \A n \in Numbers :
               /\ schema[k][n] \in {"absent", "invalid", "valid", "done"}
               /\ ran[k][n] \in Nat)'
<1>0. plan' = plan /\ Numbers' = Numbers
  BY SameTables DEF Unwritten, WritesStep
<1>1. IsTable(ledger)' /\ IsTable(schema)' /\ IsTable(built)' /\ IsTable(ran)'
  BY <1>0 DEF Typed, IsTable, Unwritten, WritesStep
<1>2. ASSUME NEW k \in PackageSet, NEW n \in Numbers
      PROVE  /\ schema'[k][n] \in {"absent", "invalid", "valid", "done"}
             /\ ran'[k][n] \in Nat
  <2>1. CASE Kept(k, n)
    BY <2>1 DEF Kept, Typed
  <2>2. CASE WritesStep(p) /\ <<k, n>> = <<Pkg(p), at[p]>>
    BY <2>2 DEF WritesStep, Writes, Typed
  <2> QED
    BY <2>1, <2>2 DEF Unwritten, WritesStep, Kept
<1> QED
  BY <1>0, <1>1, <1>2 DEF Typed

-----------------------------------------------------------------------------
(* What a step does to the processes *)

LEMMA OwnKept ==
  ASSUME Typed, NEW p \in Procs, Unwritten \/ WritesStep(p),
         NEW q \in Procs, NEW k \in PackageSet, NEW n \in DOMAIN plan[q][k], Own(q, k, n)
  PROVE  Own(q, k, n)'
<1>1. plan' = plan /\ n \in Numbers
  BY Plan DEF Unwritten, WritesStep
<1>2. ledger'[k][n] = ledger[k][n]
  BY <1>1, LedgerKeeps DEF Own
<1> QED
  BY <1>1, <1>2 DEF Own

\* The boots of other processes stand still and lose nothing.
LEMMA OthersStand ==
  ASSUME Typed, NEW p \in Procs, NEW q \in Procs, q # p,
         Placed(p), Placed(q), Fresh(q), Past(q), Unwritten \/ WritesStep(p),
         pc'[q] = pc[q], pkg'[q] = pkg[q], known'[q] = known[q], at'[q] = at[q],
         lock = q => lock' = q
  PROVE  Placed(q)' /\ Fresh(q)' /\ Past(q)'
<1>0. plan' = plan /\ Numbers' = Numbers
  BY SameTables DEF Unwritten, WritesStep
<1>1. pc[q] \in Running => Unwritten
  BY DEF Placed, WritesStep
<1>2. Steps(q)' = Steps(q) /\ Pkg(q)' = Pkg(q) /\ Current(q)' = Current(q)
  BY <1>0 DEF Steps, Pkg, Current
<1>3. Check(Steps(q))' <=> Check(Steps(q))
  BY <1>2
<1>4. Placed(q)'
  BY <1>1, <1>2, <1>3 DEF Placed, Unwritten, Running, Doing, Indexing
<1>5. Fresh(q)'
  BY <1>0, <1>1, <1>2 DEF Fresh, Unwritten
<1>6. Past(q)'
  <2>1. ASSUME NEW j \in DOMAIN Packages, j < pkg[q], NEW n \in DOMAIN plan[q][Packages[j]]
        PROVE  Own(q, Packages[j], n)'
    BY <2>1, OwnKept DEF Past, PackageSet
  <2>2. ASSUME pc[q] \in Running, NEW n \in DOMAIN Steps(q), n < at[q]
        PROVE  Own(q, Pkg(q), n)'
    <3> DEFINE k == Pkg(q)
    <3>1. k \in PackageSet /\ n \in DOMAIN plan[q][k] /\ Own(q, k, n) /\ k' = k
      BY <1>2, <2>2, Here DEF Past
    <3> HIDE DEF k
    <3>2. \A j \in PackageSet : j = k => Own(q, j, n)'
      BY <3>1, OwnKept
    <3> QED
      BY <3>1, <3>2 DEF Own, k
  <2>3. ASSUME pc[q] = "migrated", NEW k \in PackageSet, NEW n \in DOMAIN plan[q][k]
        PROVE  Own(q, k, n)'
    BY <2>3, OwnKept DEF Past
  <2> QED
    BY <1>0, <1>2, <2>1, <2>2, <2>3 DEF Past
<1> QED
  BY <1>4, <1>5, <1>6

LEMMA ExitPlaces ==
  ASSUME Typed, TypeOK, NEW p \in Procs, Exit(p), plan' = plan
  PROVE  Placed(p)' /\ Fresh(p)' /\ Past(p)'
<1>1. pc'[p] = "down" /\ pkg'[p] = 1 /\ at'[p] = 1
  BY DEF Exit, RunReturns, Typed, TypeOK
<1>2. \A j \in DOMAIN Packages : ~(j < pkg'[p])
  BY <1>1, PackagesAssumption
<1> QED
  BY <1>1, <1>2 DEF Placed, Fresh, Past, Running, Doing, Indexing

\* A step of the run that writes nothing and stays in the package.
LEMMA QuietRun ==
  ASSUME Typed, NEW p \in Procs, Placed(p), Past(p), Unwritten,
         pkg'[p] = pkg[p],
         pc[p] \in {"down", "check", "poll"} \/ (pc[p] \in Running /\ at'[p] = at[p]),
         pc'[p] \in Running => at'[p] = at[p],
         pc'[p] # "migrated"
  PROVE  Past(p)'
<1>1. plan' = plan /\ ledger' = ledger
  BY DEF Unwritten
<1>2. Steps(p)' = Steps(p) /\ Pkg(p)' = Pkg(p)
  BY <1>1 DEF Steps, Pkg
<1>3. pc'[p] \in Running => \A n \in DOMAIN Steps(p) : n < at[p] => Own(p, Pkg(p), n)
  <2>1. CASE pc[p] \in Running
    BY <2>1 DEF Past
  <2>2. CASE pc[p] \in {"down", "check", "poll"}
    BY <2>2, Here DEF Placed
  <2> QED
    BY <2>1, <2>2
<1> QED
  BY <1>1, <1>2, <1>3 DEF Past, Own

Labels == {"down", "check", "poll", "ledger", "step", "drop", "create", "build",
           "record", "migrated"}

\* The part of the types that a boot moves.
LEMMA RunTyped ==
  ASSUME Typed, TypeOK, NEW p \in Procs, Placed(p), Run(p)
  PROVE  /\ pc' \in [Procs -> Labels]
         /\ lock' \in Procs \cup {NoProc}
         /\ pkg' \in [Procs -> DOMAIN Packages]
         /\ at' \in [Procs -> Nat \ {0}] /\ tries' \in [Procs -> Nat] /\ ddl' \in [Procs -> Nat]
         /\ DOMAIN known' = Procs /\ \A q \in Procs : DOMAIN known'[q] = Numbers
         /\ \A q \in Procs : q # p =>
              /\ pc'[q] = pc[q] /\ pkg'[q] = pkg[q] /\ known'[q] = known[q]
              /\ at'[q] = at[q] /\ tries'[q] = tries[q]
              /\ lock = q => lock' = q
         /\ at'[p] = 1 \/ (at'[p] <= Len(Steps(p)) + 1 /\ pkg'[p] = pkg[p])
         /\ tries'[p] < GuardAttempts
<1>0. /\ pc \in [Procs -> Labels] /\ lock \in Procs \cup {NoProc}
      /\ pkg \in [Procs -> 1 .. Len(Packages)] /\ Len(Packages) \in Nat \ {0}
      /\ DOMAIN Packages = 1 .. Len(Packages)
      /\ at \in [Procs -> Nat \ {0}] /\ tries \in [Procs -> Nat] /\ ddl \in [Procs -> Nat]
      /\ DOMAIN known = Procs /\ \A q \in Procs : DOMAIN known[q] = Numbers
      /\ at[p] <= Len(Steps(p)) + 1 /\ Len(Steps(p)) \in Nat
      /\ tries[p] < GuardAttempts /\ GuardAttempts \in Nat \ {0}
      /\ DOMAIN Steps(p) = 1 .. Len(Steps(p))
      /\ IsTable(ledger)
  <2>1. /\ pc \in [Procs -> Labels] /\ lock \in Procs \cup {NoProc}
        /\ at[p] \in 1 .. Len(Steps(p)) + 1 /\ tries[p] < GuardAttempts
    BY DEF TypeOK, Labels
  <2>2. /\ pkg \in [Procs -> DOMAIN Packages]
        /\ at \in [Procs -> Nat \ {0}] /\ tries \in [Procs -> Nat] /\ ddl \in [Procs -> Nat]
        /\ DOMAIN known = Procs /\ \A q \in Procs : DOMAIN known[q] = Numbers
        /\ IsTable(ledger)
    BY DEF Typed
  <2>3. Len(Steps(p)) \in Nat /\ DOMAIN Steps(p) = 1 .. Len(Steps(p))
    BY Here
  <2> QED
    BY <2>1, <2>2, <2>3, PackagesAssumption, GuardAssumption
<1>r. ASSUME RunReturns(p)
      PROVE  /\ at' \in [Procs -> Nat \ {0}] /\ tries' \in [Procs -> Nat] /\ ddl' \in [Procs -> Nat]
             /\ DOMAIN known' = Procs /\ \A q \in Procs : DOMAIN known'[q] = Numbers
             /\ at'[p] = 1 /\ tries'[p] < GuardAttempts
             /\ \A q \in Procs : q # p =>
                  at'[q] = at[q] /\ tries'[q] = tries[q] /\ known'[q] = known[q]
  <2>1. /\ at' \in [Procs -> Nat \ {0}] /\ tries' \in [Procs -> Nat] /\ ddl' \in [Procs -> Nat]
        /\ at'[p] = 1 /\ tries'[p] = 0
    BY <1>0, <1>r DEF RunReturns
  <2>2. 0 < GuardAttempts
    BY <1>0
  <2> QED
    BY <1>0, <1>r, <2>1, <2>2 DEF RunReturns
<1>1. CASE Exit(p)
  <2>1. RunReturns(p)
    BY <1>1 DEF Exit
  <2>2. pkg' \in [Procs -> DOMAIN Packages] /\ pc' \in [Procs -> Labels]
    BY <1>0, <1>1 DEF Exit, Labels
  <2>3. \A q \in Procs : q # p => pc'[q] = pc[q] /\ pkg'[q] = pkg[q] /\ (lock = q => lock' = q)
    BY <1>0, <1>1 DEF Exit
  <2>4. lock' \in Procs \cup {NoProc}
    BY <1>0, <1>1 DEF Exit
  <2> QED
    BY <1>r, <2>1, <2>2, <2>3, <2>4
<1>2. CASE CheckPlan(p)
  BY <1>0, <1>1, <1>2 DEF CheckPlan, Goto, Labels
<1>3. CASE TryLock(p)
  BY <1>0, <1>3, ProcsAssumption DEF TryLock, Goto, Labels
<1>4. CASE ReadLedger(p)
  <2>1. DOMAIN ledger[Packages[pkg[p]]] = Numbers
    BY <1>0, Here DEF IsTable, Pkg
  <2> QED
    BY <1>0, <1>4, <2>1 DEF ReadLedger, Labels, database
<1>5. CASE SkipStep(p)
  BY <1>0, <1>5 DEF SkipStep, AtStep, database
<1>6. CASE RefuseEdited(p)
  BY <1>1, <1>6 DEF RefuseEdited
<1>7. CASE RunTxDDL(p)
  <2>1. UNCHANGED <<pc, lock, pkg, known>> /\ at[p] <= Len(Steps(p))
    BY <1>7 DEF RunTxDDL, AtStep
  <2>2. /\ at' = [at EXCEPT ![p] = at[p] + 1] /\ tries' = [tries EXCEPT ![p] = 0]
        /\ ddl' = [ddl EXCEPT ![p] = 0]
    BY <1>7 DEF RunTxDDL
  <2>3. at' \in [Procs -> Nat \ {0}] /\ at'[p] <= Len(Steps(p)) + 1
    BY <1>0, <2>1, <2>2
  <2>4. tries' \in [Procs -> Nat] /\ tries'[p] < GuardAttempts /\ ddl' \in [Procs -> Nat]
    BY <1>0, <2>2
  <2> QED
    BY <1>0, <2>1, <2>2, <2>3, <2>4
<1>8. CASE LockTimeout(p)
  <2>1. CASE ~Exit(p)
    <3>1. /\ UNCHANGED <<lock, pc, pkg, known, at>>
          /\ tries[p] + 1 < GuardAttempts /\ tries' = [tries EXCEPT ![p] = tries[p] + 1]
          /\ ddl' = [ddl EXCEPT ![p] = 0]
      BY <1>8, <2>1 DEF LockTimeout
    <3>2. tries' \in [Procs -> Nat] /\ tries'[p] < GuardAttempts /\ ddl' \in [Procs -> Nat]
      BY <1>0, <3>1
    <3> QED
      BY <1>0, <3>1, <3>2
  <2> QED
    BY <1>1, <2>1
<1>9. CASE LookIndex(p)
  BY <1>0, <1>9 DEF LookIndex, Goto, AfterLook, Labels, database
<1>10. CASE DropIndex(p) \/ CreateIndex(p) \/ IndexBuilt(p) \/ RunBatch(p)
  BY <1>0, <1>10 DEF DropIndex, CreateIndex, IndexBuilt, RunBatch, Goto, Labels
<1>11. CASE RecordStep(p)
  <2>1. at[p] <= Len(Steps(p))
    BY <1>0, <1>11 DEF RecordStep, Placed, Doing
  <2> QED
    BY <1>0, <1>11, <2>1 DEF RecordStep, Goto, Labels
<1>12. CASE EndRun(p)
  <2>1. lock = p
    BY <1>12 DEF EndRun, Placed, Running
  <2>2. pkg' \in [Procs -> 1 .. Len(Packages)]
    <3>1. pkg[p] \in 1 .. Len(Packages)
      BY <1>0
    <3>2. pkg' = pkg \/ (pkg[p] < Len(Packages) /\ pkg' = [pkg EXCEPT ![p] = pkg[p] + 1])
      BY <1>12 DEF EndRun
    <3>3. pkg \in [Procs -> 1 .. Len(Packages)] /\ Len(Packages) \in Nat
      BY <1>0
    <3>4. pkg[p] < Len(Packages) => pkg[p] + 1 \in 1 .. Len(Packages)
      BY <3>1, <3>3
    <3> QED
      BY <3>2, <3>3, <3>4
  <2>3. pc' \in [Procs -> Labels]
    BY <1>0, <1>12 DEF EndRun, Labels
  <2> QED
    BY <1>0, <1>12, <1>r, <2>1, <2>2, <2>3 DEF EndRun
<1>13. CASE RunStatement(p)
  <2>1. ddl' = [ddl EXCEPT ![p] = ddl[p] + 1] /\ UNCHANGED <<lock, pc, pkg, known, at, tries>>
    BY <1>13 DEF RunStatement, database
  <2>2. ddl' \in [Procs -> Nat]
    BY <1>0, <2>1
  <2> QED
    BY <1>0, <2>1, <2>2
<1> QED
  BY <1>2, <1>3, <1>4, <1>5, <1>6, <1>7, <1>8, <1>9, <1>10, <1>11, <1>12, <1>13 DEF Run

LEMMA RunPlaces ==
  ASSUME Typed, TypeOK, NEW p \in Procs, Placed(p), Fresh(p), Past(p), Run(p),
         \A k \in PackageSet : \A n \in Numbers : Row(k, n)
  PROVE  Placed(p)' /\ Fresh(p)' /\ Past(p)'
<1> DEFINE k == Pkg(p)
           n == at[p]
<1>0. /\ pc \in [Procs -> Labels] /\ pkg \in [Procs -> DOMAIN Packages]
      /\ at \in [Procs -> Nat \ {0}] /\ DOMAIN known = Procs
      /\ k \in PackageSet /\ Steps(p) = plan[p][k] /\ n \in Nat \ {0}
      /\ Len(Steps(p)) \in Nat /\ DOMAIN Steps(p) = 1 .. Len(Steps(p))
      /\ DOMAIN Steps(p) \subseteq Numbers
      /\ Packages[pkg[p]] = k
  BY Here DEF Typed, TypeOK, Labels, Pkg
<1>1. Unwritten \/ WritesStep(p)
  BY RunWrites
<1>2. plan' = plan /\ Numbers' = Numbers
  BY <1>1, SameTables DEF Unwritten, WritesStep
<1>3. CASE Exit(p)
  BY <1>2, <1>3, ExitPlaces
<1>4. ASSUME pkg' = pkg
      PROVE  /\ Steps(p)' = Steps(p) /\ Pkg(p)' = k /\ (Check(Steps(p))' <=> Check(Steps(p)))
             /\ at' = at => Current(p)' = Current(p)
  BY <1>2, <1>4 DEF Steps, Pkg, Current
<1>5. CASE CheckPlan(p) /\ ~Exit(p)
  <2>1. /\ Unwritten /\ Check(Steps(p)) /\ pc[p] = "check" /\ pc'[p] = "poll"
        /\ pkg' = pkg /\ at' = at
    BY <1>0, <1>5 DEF CheckPlan, Goto, Unwritten
  <2>2. Past(p)'
    BY <2>1, QuietRun DEF Running, Doing, Indexing
  <2> QED
    BY <1>4, <2>1, <2>2 DEF Placed, Fresh, Running, Doing, Indexing
<1>6. CASE TryLock(p)
  <2>1. /\ Unwritten /\ pc[p] = "poll" /\ pc'[p] = "ledger" /\ lock' = p
        /\ pkg' = pkg /\ at' = at
    BY <1>0, <1>6 DEF TryLock, Goto, Unwritten
  <2>2. Past(p)'
    BY <2>1, QuietRun DEF Running, Doing, Indexing
  <2> QED
    BY <1>4, <2>1, <2>2 DEF Placed, Fresh, Running, Doing, Indexing
<1>7. CASE ReadLedger(p)
  <2>1. /\ Unwritten /\ pc[p] = "ledger" /\ pc'[p] = "step" /\ lock' = lock
        /\ pkg' = pkg /\ at' = at /\ known'[p] = ledger[k]
    BY <1>0, <1>7 DEF ReadLedger, Unwritten, database
  <2>2. Past(p)'
    BY <2>1, QuietRun DEF Running, Doing, Indexing
  <2>3. Placed(p)'
    BY <1>4, <2>1 DEF Placed, Running, Doing, Indexing
  <2>4. Fresh(p)'
    BY <1>2, <1>4, <2>1 DEF Fresh, Unwritten
  <2> QED
    BY <2>2, <2>3, <2>4
<1>8. CASE RefuseEdited(p)
  BY <1>3, <1>8 DEF RefuseEdited
<1>9. CASE RunStatement(p) \/ LockTimeout(p)
  <2>1. CASE ~Exit(p)
    <3>1. Unwritten /\ UNCHANGED <<lock, pc, pkg, known, at>> /\ pc[p] = "step"
      BY <1>9, <2>1 DEF RunStatement, LockTimeout, Unwritten, AtStep, database
    <3>2. Past(p)'
      BY <3>1, QuietRun DEF Running, Doing, Indexing
    <3>3. Placed(p)'
      BY <1>4, <3>1 DEF Placed, Running, Doing, Indexing
    <3>4. Fresh(p)'
      BY <1>2, <1>4, <3>1 DEF Fresh, Unwritten
    <3> QED
      BY <3>2, <3>3, <3>4
  <2> QED
    BY <1>3, <2>1
<1>10. CASE LookIndex(p)
  <2>1. /\ Unwritten /\ UNCHANGED <<lock, pkg, known, at>>
        /\ pc[p] = "step" /\ pc'[p] = AfterLook(schema[k][n])
        /\ n \in DOMAIN Steps(p) /\ known[p][n] = NoSum /\ Current(p).kind = "index"
    BY <1>0, <1>10 DEF LookIndex, Goto, Unwritten, AtStep, Applied, database
  <2>2. schema[k][n] \in {"absent", "invalid", "valid", "done"}
    BY <1>0, <2>1 DEF Typed
  <2>3. /\ pc'[p] \in {"drop", "create", "record"}
        /\ pc'[p] = "drop" <=> schema[k][n] = "invalid"
        /\ pc'[p] = "create" <=> schema[k][n] = "absent"
    BY <2>1, <2>2 DEF AfterLook
  <2>4. Past(p)'
    BY <2>1, <2>3, QuietRun DEF Running, Doing, Indexing
  <2>5. Placed(p)'
    BY <1>4, <2>1, <2>2, <2>3 DEF Placed, Running, Doing, Indexing, Unwritten
  <2>6. Fresh(p)'
    BY <1>2, <1>4, <2>1 DEF Fresh, Unwritten, Running
  <2> QED
    BY <2>4, <2>5, <2>6
<1>w. ASSUME pkg' = pkg, NEW a \in {n, n + 1}, at'[p] = a,
             pc[p] \in Running \ {"ledger"}, pc'[p] \in Running \ {"ledger"},
             known' = known,
             a = n + 1 => /\ ledger'[k][n] # NoSum
                          /\ plan[p][k][n].kind # "batch" => ledger'[k][n] = Sum(plan[p][k][n]),
             a = n => ledger' = ledger
      PROVE  Fresh(p)' /\ Past(p)'
  <2>1. pkg'[p] = pkg[p] /\ known'[p] = known[p] /\ Pkg(p)' = k /\ Steps(p)' = Steps(p)
    BY <1>4, <1>w
  <2>2. ASSUME NEW m \in Numbers
        PROVE  /\ known[p][m] # NoSum => ledger'[k][m] = known[p][m]
               /\ m >= a /\ known[p][m] = NoSum => ledger'[k][m] = NoSum
    <3>1. known[p][m] # NoSum => ledger'[k][m] = known[p][m]
      <4> SUFFICES ASSUME known[p][m] # NoSum PROVE ledger'[k][m] = known[p][m]
        OBVIOUS
      <4>1. ledger[k][m] = known[p][m]
        BY <1>w DEF Fresh
      <4>2. ledger'[k][m] = ledger[k][m]
        <5> HIDE DEF k
        <5> QED
          BY <1>0, <1>1, <4>1, LedgerKeeps
      <4> QED
        BY <4>1, <4>2
    <3>2. ASSUME m >= a, known[p][m] = NoSum PROVE ledger'[k][m] = NoSum
      <4>1. m >= n
        BY <1>0, <1>w, <3>2, NumbersType
      <4>2. ledger[k][m] = NoSum
        BY <1>w, <3>2, <4>1 DEF Fresh
      <4>3. CASE ledger' = ledger
        BY <4>2, <4>3
      <4>4. CASE a = n + 1 /\ WritesStep(p)
        <5>1. m # n
          BY <1>0, <3>2, <4>4, NumbersType
        <5> QED
          BY <1>0, <4>2, <4>4, <5>1 DEF WritesStep, Kept
      <4> QED
        BY <1>1, <1>w, <4>3, <4>4 DEF Unwritten
    <3> QED
      BY <3>1, <3>2
  <2>3. Fresh(p)'
    BY <1>2, <1>w, <2>1, <2>2 DEF Fresh
  <2>4. ASSUME NEW j \in DOMAIN Packages, j < pkg[p], NEW m \in DOMAIN plan[p][Packages[j]]
        PROVE  Own(p, Packages[j], m)'
    <3>1. Packages[j] \in PackageSet /\ Own(p, Packages[j], m)
      BY <2>4 DEF Past, PackageSet
    <3> QED
      BY <1>1, <3>1, OwnKept
  <2>5. ASSUME NEW m \in DOMAIN Steps(p), m < a
        PROVE  \A i \in PackageSet : i = k => Own(p, i, m)'
    <3>1. CASE m < n
      <4>1. Own(p, k, m)
        BY <1>w, <3>1 DEF Past
      <4> HIDE DEF k
      <4> QED
        BY <1>0, <1>1, <4>1, OwnKept
    <3>2. CASE m = n /\ a = n + 1
      <4>1. /\ ledger'[k][n] # NoSum
            /\ plan[p][k][n].kind # "batch" => ledger'[k][n] = Sum(plan[p][k][n])
        BY <1>w, <3>2
      <4> QED
        BY <1>2, <3>2, <4>1 DEF Own
    <3> QED
      BY <1>0, <1>w, <2>5, <3>1, <3>2
  <2>6. Past(p)'
    <3>1. pc'[p] # "migrated"
      BY <1>w DEF Running, Doing, Indexing
    <3>2. ASSUME NEW m \in DOMAIN Steps(p)', m < at'[p] PROVE Own(p, Pkg(p), m)'
      BY <1>0, <1>w, <2>1, <2>5, <3>2 DEF Own
    <3> QED
      BY <1>2, <2>1, <2>4, <3>1, <3>2 DEF Past
  <2> QED
    BY <2>3, <2>6
<1>a. ASSUME pkg' = pkg, at'[p] = n + 1,
             pc[p] \in {"step", "record"}, pc'[p] = "step", known' = known,
             ledger'[k][n] # NoSum,
             plan[p][k][n].kind # "batch" => ledger'[k][n] = Sum(plan[p][k][n])
      PROVE  Fresh(p)' /\ Past(p)'
  <2>1. n + 1 \in {n, n + 1} /\ n + 1 # n
    BY <1>0
  <2>2. pc[p] \in Running \ {"ledger"} /\ pc'[p] \in Running \ {"ledger"}
    BY <1>a DEF Running, Doing
  <2> HIDE DEF k, n
  <2> QED
    BY <1>w, <1>a, <2>1, <2>2
<1>s. ASSUME pkg' = pkg, at' = at, known' = known, ledger' = ledger,
             pc[p] \in Running \ {"ledger"}, pc'[p] \in Running \ {"ledger"}
      PROVE  Fresh(p)' /\ Past(p)'
  <2>1. n \in {n, n + 1} /\ n # n + 1 /\ at'[p] = n
    BY <1>0, <1>s
  <2> HIDE DEF k, n
  <2> QED
    BY <1>w, <1>s, <2>1
<1>11. CASE SkipStep(p)
  <2>1. /\ Unwritten /\ pc[p] = "step" /\ pc' = pc /\ lock' = lock /\ pkg' = pkg /\ known' = known
        /\ at'[p] = n + 1 /\ known[p][n] # NoSum
        /\ n \in DOMAIN Steps(p) /\ Current(p) = plan[p][k][n]
        /\ Current(p).kind = "batch" \/ known[p][n] = Sum(Current(p))
    BY <1>0, <1>11 DEF SkipStep, AtStep, Applied, Edited, Unwritten, database, Current
  <2>2. ledger'[k][n] = known[p][n]
    BY <1>0, <2>1 DEF Fresh, Running, Unwritten
  <2>3. Fresh(p)' /\ Past(p)'
    BY <1>a, <2>1, <2>2
  <2>4. Placed(p)'
    BY <1>4, <2>1 DEF Placed, Running, Doing, Indexing
  <2> QED
    BY <2>3, <2>4
<1>12. CASE RunTxDDL(p)
  <2>1. /\ pc[p] = "step" /\ pc' = pc /\ lock' = lock /\ pkg' = pkg /\ known' = known
        /\ at'[p] = n + 1 /\ n \in DOMAIN Steps(p) /\ Current(p) = plan[p][k][n]
        /\ ledger' = [ledger EXCEPT ![k][n] = Sum(Current(p))]
    BY <1>0, <1>12 DEF RunTxDDL, AtStep, Record, Current
  <2>2. ledger'[k][n] = Sum(plan[p][k][n]) /\ Sum(plan[p][k][n]) # NoSum
    BY <1>0, <2>1, Plan DEF Typed, IsTable
  <2>3. Fresh(p)' /\ Past(p)'
    BY <1>a, <2>1, <2>2
  <2>4. Placed(p)'
    BY <1>4, <2>1 DEF Placed, Running, Doing, Indexing
  <2> QED
    BY <2>3, <2>4
<1>13. ASSUME DropIndex(p) \/ CreateIndex(p) \/ IndexBuilt(p) \/ RunBatch(p)
       PROVE  /\ lock' = lock /\ pkg' = pkg /\ known' = known /\ at' = at /\ ledger' = ledger
              /\ pc[p] \in Running \ {"ledger"} /\ pc'[p] \in Doing
              /\ n \in DOMAIN Steps(p) /\ known[p][n] = NoSum
              /\ Current(p).kind \in {"index", "batch"}
              /\ IsTable(schema) /\ n \in Numbers
              /\ Fresh(p)' /\ Past(p)'
  <2>1. /\ lock' = lock /\ pkg' = pkg /\ known' = known /\ at' = at /\ ledger' = ledger
        /\ pc[p] \in Running \ {"ledger"} /\ pc'[p] \in Doing
    BY <1>0, <1>13 DEF DropIndex, CreateIndex, IndexBuilt, RunBatch, Goto, AtStep, Running, Doing,
                       Indexing
  <2>2. /\ n \in DOMAIN Steps(p) /\ known[p][n] = NoSum
        /\ Current(p).kind \in {"index", "batch"}
    BY <1>0, <1>13 DEF DropIndex, CreateIndex, IndexBuilt, RunBatch, AtStep, Applied, Placed, Doing,
                       Indexing
  <2>3. Fresh(p)' /\ Past(p)'
    BY <1>s, <2>1 DEF Running, Doing, Indexing
  <2> QED
    BY <1>0, <2>1, <2>2, <2>3 DEF Typed
<1>14. ASSUME DropIndex(p) \/ CreateIndex(p) \/ IndexBuilt(p) \/ RunBatch(p),
              pc'[p] \in Indexing => Current(p).kind = "index",
              pc'[p] = "create" => schema'[k][n] = "absent",
              pc'[p] \in Indexing \ {"create"} => schema'[k][n] = "invalid",
              pc'[p] = "record" => schema'[k][n] \in {"valid", "done"}
       PROVE  Placed(p)'
  <2>1. lock = p /\ Check(Steps(p)) /\ pkg' = pkg /\ at' = at
    BY <1>13, <1>14 DEF Placed
  <2>2. Current(p)' = Current(p) /\ Pkg(p)' = k /\ Steps(p)' = Steps(p) /\ (Check(Steps(p))' <=> Check(Steps(p)))
    BY <1>4, <2>1
  <2> QED
    BY <1>13, <1>14, <2>1, <2>2 DEF Placed, Running, Doing, Indexing
<1>15. CASE DropIndex(p)
  <2>1. /\ pc[p] = "drop" /\ pc'[p] = "create" /\ Current(p).kind = "index"
        /\ schema' = [schema EXCEPT ![k][n] = "absent"]
    BY <1>0, <1>15 DEF DropIndex, Goto, Placed, Indexing
  <2>2. schema'[k][n] = "absent"
    BY <1>0, <1>13, <1>15, <2>1 DEF IsTable
  <2> QED
    BY <1>13, <1>14, <1>15, <2>1, <2>2
<1>16. CASE CreateIndex(p)
  <2>1. /\ pc[p] = "create" /\ pc'[p] = "build" /\ Current(p).kind = "index"
        /\ schema' = [schema EXCEPT ![k][n] = "invalid"]
    BY <1>0, <1>16 DEF CreateIndex, Goto, Placed, Indexing
  <2>2. schema'[k][n] = "invalid"
    BY <1>0, <1>13, <1>16, <2>1 DEF IsTable
  <2> QED
    BY <1>13, <1>14, <1>16, <2>1, <2>2
<1>17. CASE IndexBuilt(p)
  <2>1. pc'[p] = "record" /\ schema' = [schema EXCEPT ![k][n] = "valid"]
    BY <1>0, <1>17 DEF IndexBuilt, Apply, Goto
  <2>2. schema'[k][n] = "valid"
    BY <1>0, <1>13, <1>17, <2>1 DEF IsTable
  <2> QED
    BY <1>13, <1>14, <1>17, <2>1, <2>2 DEF Indexing
<1>18. CASE RunBatch(p)
  <2>1. pc'[p] = "record" /\ schema' = [schema EXCEPT ![k][n] = "done"]
    BY <1>0, <1>18 DEF RunBatch, Apply, Goto
  <2>2. schema'[k][n] = "done"
    BY <1>0, <1>13, <1>18, <2>1 DEF IsTable
  <2> QED
    BY <1>13, <1>14, <1>18, <2>1, <2>2 DEF Indexing
<1>19. CASE RecordStep(p)
  <2>1. /\ pc[p] = "record" /\ pc'[p] = "step" /\ lock' = lock /\ pkg' = pkg /\ known' = known
        /\ at'[p] = n + 1 /\ n \in DOMAIN Steps(p) /\ Current(p) = plan[p][k][n]
        /\ known[p][n] = NoSum
    BY <1>0, <1>19 DEF RecordStep, Goto, Placed, Doing, Current
  <2>2. ledger[k][n] = NoSum
    BY <1>0, <2>1 DEF Fresh, Running, Doing
  <2>3. ledger' = [ledger EXCEPT ![k][n] = Sum(Current(p))]
    BY <1>0, <1>19, <2>2 DEF RecordStep, Record
  <2>4. ledger'[k][n] = Sum(plan[p][k][n]) /\ Sum(plan[p][k][n]) # NoSum
    BY <1>0, <2>1, <2>3, Plan DEF Typed, IsTable
  <2>5. Fresh(p)' /\ Past(p)'
    BY <1>a, <2>1, <2>4
  <2>6. Placed(p)'
    BY <1>4, <2>1 DEF Placed, Running, Doing, Indexing
  <2> QED
    BY <2>5, <2>6
<1>20. CASE EndRun(p)
  <2>1. /\ Unwritten /\ pc[p] = "step" /\ n > Len(Steps(p)) /\ RunReturns(p)
        /\ \/ /\ pkg[p] < Len(Packages) /\ pc' = [pc EXCEPT ![p] = "check"]
              /\ pkg' = [pkg EXCEPT ![p] = pkg[p] + 1]
           \/ /\ pkg[p] >= Len(Packages) /\ pc' = [pc EXCEPT ![p] = "migrated"] /\ pkg' = pkg
    BY <1>0, <1>20, Here DEF EndRun, Unwritten
  <2>2. pc'[p] \in {"check", "migrated"} /\ at'[p] = 1
    BY <1>0, <2>1 DEF RunReturns
  <2>3. ASSUME NEW j \in DOMAIN Packages, j <= pkg[p], NEW m \in DOMAIN plan[p][Packages[j]]
        PROVE  Own(p, Packages[j], m)'
    <3>1. Own(p, Packages[j], m)
      <4>1. CASE j < pkg[p]
        BY <2>3, <4>1 DEF Past
      <4>2. CASE j = pkg[p]
        <5>1. Packages[j] = k /\ m < n
          BY <1>0, <2>1, <2>3, <4>2
        <5> QED
          BY <1>0, <2>1, <2>3, <5>1 DEF Past, Running
      <4> QED
        BY <2>3, <4>1, <4>2, Here, PackagesAssumption
    <3>2. Packages[j] \in PackageSet
      BY DEF PackageSet
    <3> QED
      BY <1>1, <2>3, <3>1, <3>2, OwnKept
  <2>4. /\ pkg'[p] = pkg[p] + 1 \/ pkg'[p] = pkg[p]
        /\ pkg[p] \in Nat /\ DOMAIN Packages = 1 .. Len(Packages) /\ Len(Packages) \in Nat
        /\ pc'[p] = "migrated" => pkg[p] = Len(Packages)
    BY <1>0, <2>1, Here, PackagesAssumption
  <2>5. Past(p)'
    <3>1. ASSUME NEW j \in DOMAIN Packages, j < pkg'[p], NEW m \in DOMAIN plan'[p][Packages[j]]
          PROVE  Own(p, Packages[j], m)'
      BY <1>2, <2>3, <2>4, <3>1
    <3>2. ASSUME pc'[p] = "migrated", NEW i \in PackageSet, NEW m \in DOMAIN plan'[p][i]
          PROVE  Own(p, i, m)'
      <4>1. PICK j \in DOMAIN Packages : i = Packages[j]
        BY DEF PackageSet
      <4> QED
        BY <1>2, <2>3, <2>4, <3>2, <4>1
    <3> QED
      BY <2>2, <3>1, <3>2 DEF Past, Running, Doing, Indexing
  <2> QED
    BY <2>2, <2>5 DEF Placed, Fresh, Running, Doing, Indexing
<1> QED
  BY <1>3, <1>5, <1>6, <1>7, <1>8, <1>9, <1>10, <1>11, <1>12, <1>15, <1>16, <1>17, <1>18,
     <1>19, <1>20 DEF Run

-----------------------------------------------------------------------------
(* The half of the invariant about the runs *)

Rows == \A k \in PackageSet : \A n \in Numbers : Row(k, n)

RunTypes ==
  /\ pc \in [Procs -> Labels]
  /\ lock \in Procs \cup {NoProc}
  /\ \A p \in Procs : pkg[p] \in DOMAIN Packages /\ at[p] \in 1 .. Len(Steps(p)) + 1
  /\ \A p \in Procs : tries[p] < GuardAttempts
  /\ ddl \in [Procs -> Nat]

RunInv ==
  /\ Typed /\ RunTypes /\ Rows
  /\ \A p \in Procs : Placed(p) /\ Fresh(p) /\ Past(p)

\* What a step of process p may do to the runs.
Moves(p) == Run(p) \/ Start(p) \/ (Exit(p) /\ Unwritten)
Stands == Unwritten /\ UNCHANGED <<lock, process>>

LEMMA StandsKeeps ==
  ASSUME RunInv, Stands
  PROVE  RunInv'
<1>1. UNCHANGED <<plan, ledger, schema, built, ran, lock, pc, pkg, known, at, tries, ddl>>
  BY DEF Stands, Unwritten, process
<1>2. Numbers' = Numbers
  BY <1>1, SameTables
<1>3. Typed'
  BY <1>1, <1>2 DEF RunInv, Typed, IsTable
<1>4. RunTypes'
  BY <1>1 DEF RunInv, RunTypes, Steps
<1>5. Rows'
  BY <1>1, <1>2 DEF RunInv, Rows, Row, Agreed
<1>6. ASSUME NEW p \in Procs PROVE Placed(p)' /\ Fresh(p)' /\ Past(p)'
  <2>1. Steps(p)' = Steps(p) /\ Pkg(p)' = Pkg(p) /\ Current(p)' = Current(p)
    BY <1>1 DEF Steps, Pkg, Current
  <2>2. Check(Steps(p))' <=> Check(Steps(p))
    BY <2>1
  <2>3. Placed(p) /\ Fresh(p) /\ Past(p)
    BY DEF RunInv
  <2> QED
    BY <1>1, <1>2, <2>1, <2>2, <2>3 DEF Placed, Fresh, Past, Own
<1> QED
  BY <1>3, <1>4, <1>5, <1>6 DEF RunInv

LEMMA MovesTyped ==
  ASSUME Typed, TypeOK, NEW p \in Procs, Placed(p), Moves(p)
  PROVE  /\ pc' \in [Procs -> Labels]
         /\ lock' \in Procs \cup {NoProc}
         /\ pkg' \in [Procs -> DOMAIN Packages]
         /\ at' \in [Procs -> Nat \ {0}] /\ tries' \in [Procs -> Nat] /\ ddl' \in [Procs -> Nat]
         /\ DOMAIN known' = Procs /\ \A q \in Procs : DOMAIN known'[q] = Numbers
         /\ \A q \in Procs : q # p =>
              /\ pc'[q] = pc[q] /\ pkg'[q] = pkg[q] /\ known'[q] = known[q]
              /\ at'[q] = at[q] /\ tries'[q] = tries[q]
              /\ lock = q => lock' = q
         /\ at'[p] = 1 \/ (at'[p] <= Len(Steps(p)) + 1 /\ pkg'[p] = pkg[p])
         /\ tries'[p] < GuardAttempts
<1>0. /\ pc \in [Procs -> Labels] /\ lock \in Procs \cup {NoProc}
      /\ pkg \in [Procs -> DOMAIN Packages] /\ 1 \in DOMAIN Packages
      /\ at \in [Procs -> Nat \ {0}] /\ tries \in [Procs -> Nat] /\ ddl \in [Procs -> Nat]
      /\ DOMAIN known = Procs /\ \A q \in Procs : DOMAIN known[q] = Numbers
      /\ at[p] <= Len(Steps(p)) + 1
      /\ tries[p] < GuardAttempts /\ 0 < GuardAttempts
  <2>1. /\ pc \in [Procs -> Labels] /\ lock \in Procs \cup {NoProc}
        /\ at[p] \in 1 .. Len(Steps(p)) + 1 /\ tries[p] < GuardAttempts
    BY DEF TypeOK, Labels
  <2>2. /\ pkg \in [Procs -> DOMAIN Packages]
        /\ at \in [Procs -> Nat \ {0}] /\ tries \in [Procs -> Nat] /\ ddl \in [Procs -> Nat]
        /\ DOMAIN known = Procs /\ \A q \in Procs : DOMAIN known[q] = Numbers
    BY DEF Typed
  <2>3. Len(Steps(p)) \in Nat
    BY Here
  <2> QED
    BY <2>1, <2>2, <2>3, PackagesAssumption, GuardAssumption
<1>1. CASE Run(p)
  BY <1>1, RunTyped
<1>2. CASE Start(p)
  BY <1>0, <1>2 DEF Start, database, Labels
<1>3. CASE Exit(p)
  <2>1. pkg' \in [Procs -> DOMAIN Packages] /\ pc' \in [Procs -> Labels]
    BY <1>0, <1>3 DEF Exit, Labels
  <2>2. lock' \in Procs \cup {NoProc} /\ \A q \in Procs : q # p /\ lock = q => lock' = q
    BY <1>0, <1>3 DEF Exit
  <2>3. /\ at' \in [Procs -> Nat \ {0}] /\ tries' \in [Procs -> Nat] /\ ddl' \in [Procs -> Nat]
        /\ at'[p] = 1 /\ tries'[p] = 0
    BY <1>0, <1>3 DEF Exit, RunReturns
  <2>4. DOMAIN known' = Procs /\ \A q \in Procs : DOMAIN known'[q] = Numbers
    BY <1>0, <1>3 DEF Exit, RunReturns
  <2>5. \A q \in Procs : q # p =>
          /\ pc'[q] = pc[q] /\ pkg'[q] = pkg[q] /\ known'[q] = known[q]
          /\ at'[q] = at[q] /\ tries'[q] = tries[q]
    BY <1>0, <1>3 DEF Exit, RunReturns
  <2> QED
    BY <1>0, <2>1, <2>2, <2>3, <2>4, <2>5
<1> QED
  BY <1>1, <1>2, <1>3 DEF Moves

LEMMA MovesKeeps ==
  ASSUME RunInv, TypeOK, NEW p \in Procs, Moves(p)
  PROVE  RunInv' /\ plan' = plan
<1>0. Typed /\ Rows /\ \A q \in Procs : Placed(q) /\ Fresh(q) /\ Past(q)
  BY DEF RunInv
<1>1. Unwritten \/ WritesStep(p)
  <2>1. CASE Start(p)
    BY <2>1 DEF Start, Unwritten, database
  <2> QED
    BY <1>0, <2>1, RunWrites DEF Moves
<1>2. plan' = plan /\ Numbers' = Numbers
  BY <1>1, SameTables DEF Unwritten, WritesStep
<1>t. /\ pc' \in [Procs -> Labels]
      /\ lock' \in Procs \cup {NoProc}
      /\ pkg' \in [Procs -> DOMAIN Packages]
      /\ at' \in [Procs -> Nat \ {0}] /\ tries' \in [Procs -> Nat] /\ ddl' \in [Procs -> Nat]
      /\ DOMAIN known' = Procs /\ \A q \in Procs : DOMAIN known'[q] = Numbers
      /\ \A q \in Procs : q # p =>
           /\ pc'[q] = pc[q] /\ pkg'[q] = pkg[q] /\ known'[q] = known[q]
           /\ at'[q] = at[q] /\ tries'[q] = tries[q]
           /\ lock = q => lock' = q
      /\ at'[p] = 1 \/ (at'[p] <= Len(Steps(p)) + 1 /\ pkg'[p] = pkg[p])
      /\ tries'[p] < GuardAttempts
  BY <1>0, MovesTyped
<1>3. Typed'
  <2>1. /\ plan' \in Plans
        /\ IsTable(ledger)' /\ IsTable(schema)' /\ IsTable(built)' /\ IsTable(ran)'
        /\ (\A k \in PackageSet : \A n \in Numbers :
              /\ schema[k][n] \in {"absent", "invalid", "valid", "done"}
              /\ ran[k][n] \in Nat)'
    BY <1>0, <1>1, TablesTyped
  <2> QED
    BY <1>2, <1>t, <2>1 DEF Typed
<1>4. RunTypes'
  <2>1. ASSUME NEW q \in Procs PROVE (at[q] \in 1 .. Len(Steps(q)) + 1 /\ tries[q] < GuardAttempts)'
    <3>1. Len(Steps(q))' \in Nat
      <4>1. Pkg(q)' \in PackageSet /\ Steps(q)' = plan'[q][Pkg(q)']
        BY <1>t, PackagesAssumption DEF Pkg, PackageSet, Steps
      <4>2. Len(plan[q][Pkg(q)']) \in Nat
        BY <1>0, <4>1, Plan
      <4> QED
        BY <1>2, <4>1, <4>2
    <3>2. pkg'[q] = pkg[q] => Steps(q)' = Steps(q)
      BY <1>2 DEF Steps
    <3>3. at'[q] \in Nat \ {0}
      BY <1>t
    <3>4. CASE q = p
      BY <1>t, <3>1, <3>2, <3>3, <3>4
    <3>5. CASE q # p
      <4>1. at[q] \in 1 .. Len(Steps(q)) + 1 /\ tries[q] < GuardAttempts
        BY DEF RunInv, RunTypes
      <4> QED
        BY <1>t, <3>2, <3>5, <4>1
    <3> QED
      BY <3>4, <3>5
  <2> QED
    BY <1>t, <2>1 DEF RunTypes
<1>5. Rows'
  BY <1>0, <1>1, RowsKept DEF Rows
<1>6. Placed(p)' /\ Fresh(p)' /\ Past(p)'
  <2>1. CASE Run(p)
    BY <1>0, <2>1, RunPlaces DEF Rows
  <2>2. CASE Exit(p)
    BY <1>0, <1>2, <2>2, ExitPlaces
  <2>3. CASE Start(p)
    <3>1. /\ Unwritten /\ pc[p] = "down" /\ pc'[p] = "check" /\ pkg' = pkg /\ at' = at
          /\ lock' = lock
      BY <1>t, <2>3 DEF Start, Unwritten, database, TypeOK
    <3>2. Past(p)'
      BY <1>0, <3>1, QuietRun DEF Running, Doing, Indexing
    <3> QED
      BY <1>0, <3>1, <3>2 DEF Placed, Fresh, Running, Doing, Indexing
  <2> QED
    BY <2>1, <2>2, <2>3 DEF Moves
<1>7. ASSUME NEW q \in Procs, q # p PROVE Placed(q)' /\ Fresh(q)' /\ Past(q)'
  <2>1. /\ pc'[q] = pc[q] /\ pkg'[q] = pkg[q] /\ known'[q] = known[q] /\ at'[q] = at[q]
        /\ lock = q => lock' = q
    BY <1>t, <1>7
  <2> QED
    BY <1>0, <1>1, <1>7, <2>1, OthersStand
<1> QED
  BY <1>2, <1>3, <1>4, <1>5, <1>6, <1>7 DEF RunInv

-----------------------------------------------------------------------------
(* The half about the role of delivery and the loader *)

Stages == {"schema", "create", "usage", "granting usage", "grant", "granting", "load", "serving"}

\* The rest of the types.
MainTypes ==
  /\ stage \in [Procs -> Stages]
  /\ role \in BOOLEAN /\ usage \in BOOLEAN /\ granted \subseteq ServeSet
  /\ left \in [Procs -> SUBSET ServeSet]
  /\ mount \in [Procs -> [Files -> Contents]]
  /\ applied \in [Procs -> [Files -> Versions \cup {NoFile}]]
  /\ pending \in [Procs -> {<<>>} \cup Files \X Versions]
  /\ row \in Versions \cup {NoFile}

MainInv == MainTypes /\ Remembered /\ \A p \in Procs : Staged(p)

LEMMA Halves == IInv <=> RunInv /\ MainInv
BY DEF IInv, TypeOK, RunInv, RunTypes, Rows, MainInv, MainTypes, Labels, Stages

\* The first file of a set of them.
LEMMA LeastFile ==
  ASSUME NEW S, S \subseteq Files, S # {}
  PROVE  Min(S) \in S
<1> DEFINE below(x) == 0 .. x
           C == {below(x) : x \in S}
<1>1. S \subseteq Nat
  BY FilesAssumption
<1>2. C \subseteq FiniteSubsetsOf(Nat) /\ C # {}
  <2>1. \A x \in S : below(x) \subseteq Nat /\ IsFiniteSet(below(x))
    BY <1>1, FS_Interval
  <2> QED
    BY <2>1 DEF FiniteSubsetsOf
<1>3. PICK T \in C : \A U \in C : <<U, T>> \notin StrictSubsetOrdering(Nat)
  <2> HIDE DEF C
  <2> QED
    BY <1>2, FS_StrictSubsetOrderingWellFounded, WFMin
<1>4. PICK x \in S : T = below(x)
  OBVIOUS
<1>5. ASSUME NEW y \in S PROVE x <= y
  <2>1. x \in Nat /\ y \in Nat
    BY <1>1
  <2>2. CASE y < x
    <3>1. below(y) \subseteq below(x) /\ below(x) # below(y)
      BY <2>1, <2>2
    <3>2. below(y) \in C
      OBVIOUS
    <3> HIDE DEF below, C
    <3>3. <<below(y), T>> \in StrictSubsetOrdering(Nat)
      <4>1. below(y) \in SUBSET Nat /\ T \in SUBSET Nat
        BY <1>2, <3>2 DEF FiniteSubsetsOf
      <4> QED
        BY <1>4, <3>1, <4>1 DEF StrictSubsetOrdering
    <3> QED
      BY <1>3, <3>2, <3>3
  <2> QED
    BY <2>1, <2>2
<1> QED
  BY <1>5 DEF Min

LEMMA TakenParsed ==
  ASSUME NEW p \in Procs, Parsed(p) # {}
  PROVE  Taken(p) \in Files /\ mount[p][Taken(p)] \in Versions
<1>1. Min(Parsed(p)) \in Parsed(p)
  BY LeastFile DEF Parsed
<1> QED
  BY <1>1 DEF Taken, Parsed

LEMMA ToApplyTyped ==
  ASSUME NEW p \in Procs
  PROVE  ToApply(p) \in {<<>>} \cup Files \X Versions
<1>1. CASE Changed(p)
  <2>1. Taken(p) \in Files /\ mount[p][Taken(p)] \in Versions
    BY <1>1, TakenParsed DEF Changed
  <2> QED
    BY <1>1, <2>1 DEF ToApply
<1> QED
  BY <1>1 DEF ToApply

\* A process whose plans are applied finds the tables its release creates.
LEMMA Created ==
  ASSUME RunInv, NEW p \in Procs, pc[p] = "migrated", NEW t \in ServeSet, Makes(p, t)
  PROVE  Exists(t)
<1>1. PICK k \in PackageSet : \E n \in DOMAIN plan[p][k] : t \in plan[p][k][n].creates
  BY DEF Makes
<1>2. PICK n \in DOMAIN plan[p][k] : t \in plan[p][k][n].creates
  BY <1>1
<1>3. Own(p, k, n) /\ Typed /\ n \in Numbers
  BY Plan DEF RunInv, Past
<1>4. plan[p][k][n].kind \in {"tx", "guarded"}
  <2>1. plan \in Plans
    BY <1>3 DEF Typed
  <2>2. plan[p][k][n].kind \notin {"index", "batch"}
    BY <1>2, <2>1, CreatesAssumption
  <2>3. plan[p][k][n].kind \in Kinds
    BY <1>3, Plan
  <2> QED
    BY <2>2, <2>3 DEF Kinds
<1>5. ledger[k][n] = Sum(plan[p][k][n])
  BY <1>3, <1>4 DEF Own
<1>6. schema[k][n] = "done"
  BY <1>3, <1>4, <1>5 DEF RunInv, Rows, Row
<1> QED
  BY <1>2, <1>6 DEF Exists

\* What a process that another one's step leaves alone has behind it.
LEMMA OthersStaged ==
  ASSUME NEW q \in Procs, Staged(q), plan' = plan,
         pc'[q] = pc[q], stage'[q] = stage[q], left'[q] = left[q], pending'[q] = pending[q],
         role => role', usage => usage', granted \subseteq granted'
  PROVE  Staged(q)'
<1>1. \A t \in ServeSet : Makes(q, t)' <=> Makes(q, t)
  BY DEF Makes
<1> QED
  BY <1>1 DEF Staged

\* The step of p moves nothing of another process's boot.
LEMMA StepStaged ==
  ASSUME MainInv, NEW p \in Procs, plan' = plan,
         \A q \in Procs : q # p =>
           pc'[q] = pc[q] /\ stage'[q] = stage[q] /\ left'[q] = left[q] /\ pending'[q] = pending[q],
         role => role', usage => usage', granted \subseteq granted', Staged(p)'
  PROVE  \A q \in Procs : Staged(q)'
<1> SUFFICES ASSUME NEW q \in Procs PROVE Staged(q)'
  OBVIOUS
<1>1. CASE q = p
  BY <1>1
<1>2. CASE q # p
  BY <1>2, OthersStaged DEF MainInv
<1> QED
  BY <1>1, <1>2

\* What no step of the directory or of the database moves.
LEMMA Unmoved ==
  ASSUME MainInv, NEW p \in Procs, UNCHANGED <<mount, row, moved>>,
         applied' = applied \/ applied' = [applied EXCEPT ![p] = [f \in Files |-> NoFile]]
  PROVE  /\ mount' \in [Procs -> [Files -> Contents]]
         /\ applied' \in [Procs -> [Files -> Versions \cup {NoFile}]]
         /\ row' \in Versions \cup {NoFile}
         /\ Remembered'
<1>0. applied \in [Procs -> [Files -> Versions \cup {NoFile}]]
  BY DEF MainInv, MainTypes
<1>1. applied' \in [Procs -> [Files -> Versions \cup {NoFile}]]
  BY <1>0
<1>2. ASSUME ~moved'
      PROVE  \E q \in Procs : \A f \in Files : applied'[q][f] \in {NoFile, row'}
  <2>1. PICK q \in Procs : \A f \in Files : applied[q][f] \in {NoFile, row}
    BY <1>2 DEF MainInv, Remembered
  <2>2. \A f \in Files : applied'[q][f] \in {NoFile, row'}
    BY <1>0, <2>1
  <2> QED
    BY <2>2
<1> QED
  BY <1>1, <1>2 DEF MainInv, MainTypes, Remembered

\* A process that exits starts over.
LEMMA ForgottenKeeps ==
  ASSUME RunInv, MainInv, NEW p \in Procs, Forgotten(p), Exit(p), Unwritten,
         UNCHANGED <<roles, definitions>>
  PROVE  MainInv'
<1>0. MainTypes
  BY DEF MainInv
<1>1. UNCHANGED <<role, usage, granted, mount, row, moved, plan>>
  BY DEF roles, definitions, Unwritten
<1>2. /\ stage' \in [Procs -> Stages]
      /\ left' \in [Procs -> SUBSET ServeSet]
      /\ pending' \in [Procs -> {<<>>} \cup Files \X Versions]
      /\ stage'[p] = "schema" /\ pending'[p] = <<>>
  BY <1>0 DEF Forgotten, MainTypes, Stages
<1>3. /\ mount' \in [Procs -> [Files -> Contents]]
      /\ applied' \in [Procs -> [Files -> Versions \cup {NoFile}]]
      /\ row' \in Versions \cup {NoFile}
      /\ Remembered'
  BY <1>1, Unmoved DEF Forgotten
<1>4. MainTypes'
  BY <1>0, <1>1, <1>2, <1>3 DEF MainTypes
<1>5. Staged(p)'
  BY <1>2 DEF Staged
<1>6. \A q \in Procs : q # p =>
        pc'[q] = pc[q] /\ stage'[q] = stage[q] /\ left'[q] = left[q] /\ pending'[q] = pending[q]
  BY <1>0 DEF Forgotten, MainTypes, Exit, RunInv, RunTypes
<1>7. \A q \in Procs : Staged(q)'
  BY <1>1, <1>5, <1>6, StepStaged
<1> QED
  BY <1>3, <1>4, <1>7 DEF MainInv

\* A step of the schema phase.
LEMMA MigrateKeeps ==
  ASSUME RunInv, MainInv, TypeOK, NEW p \in Procs, Migrate(p)
  PROVE  MainInv'
<1>1. UNCHANGED <<stage, role, usage, granted, left, applied, pending, mount, row, moved>>
  BY DEF Migrate, roles, loader, definitions
<1>2. pc[p] # "migrated"
  BY DEF Migrate, Run, CheckPlan, TryLock, ReadLedger, SkipStep, RefuseEdited, RunStatement, RunTxDDL,
         LockTimeout, LookIndex, DropIndex, CreateIndex, IndexBuilt, RunBatch, RecordStep, EndRun,
         AtStep, Start
<1>3. Moves(p) /\ Typed /\ Placed(p)
  BY DEF Migrate, Moves, RunInv
<1>4. plan' = plan
  BY <1>3, MovesKeeps
<1>5. \A q \in Procs : q # p => pc'[q] = pc[q]
  BY <1>3, MovesTyped
<1>6. Staged(p)'
  BY <1>1, <1>2 DEF MainInv, Staged
<1>7. \A q \in Procs : Staged(q)'
  BY <1>1, <1>4, <1>5, <1>6, StepStaged
<1>8. Remembered' /\ MainTypes'
  BY <1>1 DEF MainInv, MainTypes, Remembered
<1> QED
  BY <1>7, <1>8 DEF MainInv

\* A step of p that leaves its runs, the directory and the row alone.
LEMMA PhaseKeeps ==
  ASSUME MainInv, NEW p \in Procs, UNCHANGED <<plan, pc, mount, row, moved, applied>>,
         stage' \in [Procs -> Stages], left' \in [Procs -> SUBSET ServeSet],
         pending' \in [Procs -> {<<>>} \cup Files \X Versions],
         role' \in BOOLEAN, usage' \in BOOLEAN, granted' \subseteq ServeSet,
         \A q \in Procs : q # p =>
           stage'[q] = stage[q] /\ left'[q] = left[q] /\ pending'[q] = pending[q],
         role => role', usage => usage', granted \subseteq granted',
         stage'[p] # "schema" => pc[p] = "migrated",
         stage'[p] \notin {"schema", "create"} => role',
         stage'[p] \in {"grant", "granting", "load", "serving"} => usage',
         stage'[p] = "granting" => left'[p] # {},
         stage'[p] \in {"grant", "granting"} =>
           \A t \in ServeSet : Makes(p, t) => t \in granted' \cup left'[p],
         stage'[p] \in {"load", "serving"} =>
           \A t \in ServeSet : Makes(p, t) => t \in granted',
         pending'[p] # <<>> => stage'[p] \in {"load", "serving"}
  PROVE  MainInv'
<1>1. \A t \in ServeSet : Makes(p, t)' <=> Makes(p, t)
  BY DEF Makes
<1>2. Staged(p)'
  BY <1>1 DEF Staged
<1>3. \A q \in Procs : Staged(q)'
  BY <1>2, StepStaged
<1>4. MainTypes' /\ Remembered'
  BY DEF MainInv, MainTypes, Remembered, Stages
<1> QED
  BY <1>3, <1>4 DEF MainInv

LEMMA EnsureRoleKeeps ==
  ASSUME RunInv, MainInv, TypeOK, NEW p \in Procs, EnsureRole(p)
  PROVE  MainInv' /\ (Stands \/ Moves(p))
<1>0. /\ stage \in [Procs -> Stages] /\ left \in [Procs -> SUBSET ServeSet]
      /\ pending \in [Procs -> {<<>>} \cup Files \X Versions]
      /\ role \in BOOLEAN /\ usage \in BOOLEAN /\ granted \subseteq ServeSet
      /\ Staged(p)
  BY DEF MainInv, MainTypes, Stages
<1>1. ASSUME UNCHANGED svars PROVE Stands /\ UNCHANGED <<plan, pc>>
  BY <1>1 DEF svars, database, process, Stands, Unwritten
<1>2. ASSUME Fails(p), UNCHANGED <<roles, definitions>> PROVE MainInv' /\ Moves(p)
  <2>1. Exit(p) /\ Forgotten(p) /\ Unwritten
    BY <1>2 DEF Fails, Unwritten
  <2> QED
    BY <1>2, <2>1, ForgottenKeeps DEF Moves
<1>3. pending[p] = <<>> \/ stage[p] \in {"load", "serving"}
  BY <1>0 DEF Staged
<1>4. CASE LookupRole(p)
  <2>1. /\ pc[p] = "migrated" /\ stage[p] = "schema" /\ Stands /\ UNCHANGED <<plan, pc>>
        /\ UNCHANGED <<left, role, usage, granted, pending, applied, mount, row, moved>>
        /\ stage' = [stage EXCEPT ![p] = IF role THEN "usage" ELSE "create"]
    BY <1>1, <1>4 DEF LookupRole, At, Enter, roles, loader, definitions
  <2>2. stage' \in [Procs -> Stages]
    BY <1>0, <2>1 DEF Stages
  <2>3. stage'[p] = (IF role THEN "usage" ELSE "create") /\ pending'[p] = <<>>
    BY <1>0, <1>3, <2>1
  <2>4. \A q \in Procs : q # p =>
          stage'[q] = stage[q] /\ left'[q] = left[q] /\ pending'[q] = pending[q]
    BY <1>0, <2>1
  <2>5. MainInv'
    BY <1>0, <2>1, <2>2, <2>3, <2>4, PhaseKeeps
  <2> QED
    BY <2>1, <2>5
<1>5. CASE CreateRole(p)
  <2>1. CASE role /\ Fails(p) /\ UNCHANGED <<roles, definitions>>
    BY <1>2, <2>1
  <2>2. CASE /\ Enter(p, "usage")
             /\ role' = TRUE
             /\ UNCHANGED <<usage, granted, left, loader, definitions>>
    <3>1. /\ pc[p] = "migrated" /\ stage[p] = "create" /\ Stands /\ UNCHANGED <<plan, pc>>
          /\ UNCHANGED <<usage, granted, left, pending, applied, mount, row, moved>>
          /\ role' = TRUE
          /\ stage' = [stage EXCEPT ![p] = "usage"]
      BY <1>1, <1>5, <2>2 DEF CreateRole, At, Enter, loader, definitions
    <3>2. stage' \in [Procs -> Stages]
      BY <1>0, <3>1 DEF Stages
    <3>3. stage'[p] = "usage" /\ pending'[p] = <<>>
      BY <1>0, <1>3, <3>1
    <3>4. \A q \in Procs : q # p =>
            stage'[q] = stage[q] /\ left'[q] = left[q] /\ pending'[q] = pending[q]
      BY <1>0, <3>1
    <3>5. MainInv'
      BY <1>0, <3>1, <3>2, <3>3, <3>4, PhaseKeeps
    <3> QED
      BY <3>1, <3>5
  <2> QED
    BY <1>5, <2>1, <2>2 DEF CreateRole
<1>g. ASSUME pc[p] = "migrated", pending[p] = <<>>, role, usage', usage' \in BOOLEAN,
             UNCHANGED <<plan, pc, role, granted, pending, applied, mount, row, moved>>,
             stage' = [stage EXCEPT ![p] = "grant"], left' = [left EXCEPT ![p] = ServeSet]
      PROVE  MainInv'
  <2>1. stage' \in [Procs -> Stages] /\ left' \in [Procs -> SUBSET ServeSet]
    BY <1>0, <1>g DEF Stages
  <2>2. stage'[p] = "grant" /\ left'[p] = ServeSet /\ pending'[p] = <<>>
    BY <1>0, <1>g
  <2>3. \A q \in Procs : q # p =>
          stage'[q] = stage[q] /\ left'[q] = left[q] /\ pending'[q] = pending[q]
    BY <1>0, <1>g
  <2> QED
    BY <1>0, <1>g, <2>1, <2>2, <2>3, PhaseKeeps
<1>9. CASE CheckUsage(p)
  <2>1. /\ pc[p] = "migrated" /\ stage[p] = "usage" /\ Stands /\ UNCHANGED <<plan, pc>>
        /\ UNCHANGED <<role, usage, granted, pending, applied, mount, row, moved>>
        /\ \/ /\ usage /\ stage' = [stage EXCEPT ![p] = "grant"]
              /\ left' = [left EXCEPT ![p] = ServeSet]
           \/ stage' = [stage EXCEPT ![p] = "granting usage"] /\ left' = left
    BY <1>1, <1>9 DEF CheckUsage, GrantTables, At, Enter, roles, loader, definitions
  <2>2. pending[p] = <<>> /\ role
    BY <1>0, <1>3, <2>1 DEF Staged
  <2>3. CASE stage' = [stage EXCEPT ![p] = "granting usage"] /\ left' = left
    <3>1. stage' \in [Procs -> Stages] /\ stage'[p] = "granting usage"
      BY <1>0, <2>3 DEF Stages
    <3>2. \A q \in Procs : q # p =>
            stage'[q] = stage[q] /\ left'[q] = left[q] /\ pending'[q] = pending[q]
      BY <1>0, <2>1, <2>3
    <3>3. MainInv'
      BY <1>0, <2>1, <2>2, <2>3, <3>1, <3>2, PhaseKeeps
    <3> QED
      BY <2>1, <3>3
  <2> QED
    BY <1>0, <1>g, <2>1, <2>2, <2>3
<1>10. CASE GrantUsage(p)
  <2>1. CASE usage /\ Fails(p) /\ UNCHANGED <<roles, definitions>>
    BY <1>2, <2>1
  <2>2. CASE GrantTables(p) /\ usage' = TRUE /\ UNCHANGED <<role, granted, loader, definitions>>
    <3>1. /\ pc[p] = "migrated" /\ stage[p] = "granting usage" /\ Stands /\ UNCHANGED <<plan, pc>>
          /\ UNCHANGED <<role, granted, pending, applied, mount, row, moved>>
          /\ stage' = [stage EXCEPT ![p] = "grant"] /\ left' = [left EXCEPT ![p] = ServeSet]
      BY <1>1, <1>10, <2>2 DEF GrantUsage, GrantTables, At, Enter, loader, definitions
    <3>2. pending[p] = <<>> /\ role
      BY <1>0, <1>3, <3>1 DEF Staged
    <3> QED
      BY <1>g, <2>2, <3>1, <3>2
  <2> QED
    BY <1>10, <2>1, <2>2 DEF GrantUsage
<1>6. CASE CheckGrant(p)
  <2> DEFINE t == Table(p)
  <2>1. /\ pc[p] = "migrated" /\ stage[p] = "grant" /\ left[p] # {}
        /\ Stands /\ UNCHANGED <<plan, pc>>
        /\ UNCHANGED <<role, usage, granted, pending, applied, mount, row, moved>>
        /\ \/ stage' = [stage EXCEPT ![p] = "granting"] /\ left' = left
           \/ /\ ~(Exists(t) /\ t \notin granted)
              /\ stage' = stage /\ left' = [left EXCEPT ![p] = left[p] \ {t}]
    BY <1>1, <1>6 DEF CheckGrant, At, Enter, roles, loader, definitions
  <2>2. /\ pending'[p] = <<>> /\ role /\ usage
        /\ \A u \in ServeSet : Makes(p, u) => u \in granted \cup left[p]
    BY <1>0, <1>3, <2>1 DEF Staged
  <2>3. CASE stage' = [stage EXCEPT ![p] = "granting"] /\ left' = left
    <3>1. stage' \in [Procs -> Stages] /\ stage'[p] = "granting"
      BY <1>0, <2>3 DEF Stages
    <3>2. \A q \in Procs : q # p =>
            stage'[q] = stage[q] /\ left'[q] = left[q] /\ pending'[q] = pending[q]
      BY <1>0, <2>1, <2>3
    <3>3. MainInv'
      BY <1>0, <2>1, <2>2, <2>3, <3>1, <3>2, PhaseKeeps
    <3> QED
      BY <2>1, <3>3
  <2>4. CASE /\ ~(Exists(t) /\ t \notin granted)
             /\ stage' = stage /\ left' = [left EXCEPT ![p] = left[p] \ {t}]
    <3>1. left' \in [Procs -> SUBSET ServeSet] /\ left'[p] = left[p] \ {t}
      BY <1>0, <2>4
    <3>2. \A q \in Procs : q # p =>
            stage'[q] = stage[q] /\ left'[q] = left[q] /\ pending'[q] = pending[q]
      BY <1>0, <2>1, <2>4
    <3>3. ASSUME NEW u \in ServeSet, Makes(p, u) PROVE u \in granted \cup left'[p]
      <4>1. Exists(u)
        BY <2>1, <3>3, Created
      <4> QED
        BY <2>2, <2>4, <3>1, <3>3, <4>1
    <3>4. MainInv'
      <4> HIDE DEF t
      <4> QED
        BY <1>0, <2>1, <2>2, <2>4, <3>1, <3>2, <3>3, PhaseKeeps
    <3> QED
      BY <2>1, <3>4
  <2> QED
    BY <2>1, <2>3, <2>4
<1>7. CASE GrantSelect(p)
  <2> DEFINE t == Table(p)
  <2>1. CASE Fails(p) /\ UNCHANGED <<roles, definitions>>
    BY <1>2, <2>1
  <2>2. CASE /\ Enter(p, "grant")
             /\ granted' = granted \cup {t}
             /\ left' = [left EXCEPT ![p] = @ \ {t}]
             /\ UNCHANGED <<role, usage, loader, definitions>>
    <3>1. /\ pc[p] = "migrated" /\ stage[p] = "granting" /\ Stands /\ UNCHANGED <<plan, pc>>
          /\ UNCHANGED <<role, usage, pending, applied, mount, row, moved>>
          /\ granted' = granted \cup {t}
          /\ stage' = [stage EXCEPT ![p] = "grant"]
          /\ left' = [left EXCEPT ![p] = left[p] \ {t}]
      BY <1>1, <1>7, <2>2 DEF GrantSelect, At, Enter, loader, definitions
    <3>2. /\ pending'[p] = <<>> /\ role /\ usage /\ left[p] # {}
          /\ \A u \in ServeSet : Makes(p, u) => u \in granted \cup left[p]
      BY <1>0, <1>3, <3>1 DEF Staged
    <3>3. t \in ServeSet
      BY <1>0, <3>2 DEF Table
    <3> HIDE DEF t
    <3>4. /\ stage' \in [Procs -> Stages] /\ stage'[p] = "grant"
          /\ left' \in [Procs -> SUBSET ServeSet] /\ left'[p] = left[p] \ {t}
          /\ granted' \subseteq ServeSet
      BY <1>0, <3>1, <3>3 DEF Stages
    <3>5. \A q \in Procs : q # p =>
            stage'[q] = stage[q] /\ left'[q] = left[q] /\ pending'[q] = pending[q]
      BY <1>0, <3>1
    <3>6. MainInv'
      BY <1>0, <3>1, <3>2, <3>4, <3>5, PhaseKeeps
    <3> QED
      BY <3>1, <3>6
  <2> QED
    BY <1>7, <2>1, <2>2 DEF GrantSelect
<1>8. CASE RoleDone(p)
  <2>1. /\ pc[p] = "migrated" /\ stage[p] = "grant" /\ left[p] = {}
        /\ Stands /\ UNCHANGED <<plan, pc>>
        /\ UNCHANGED <<left, role, usage, granted, pending, applied, mount, row, moved>>
        /\ stage' = [stage EXCEPT ![p] = "load"]
    BY <1>1, <1>8 DEF RoleDone, At, Enter, roles, loader, definitions
  <2>2. role /\ usage /\ \A u \in ServeSet : Makes(p, u) => u \in granted
    BY <1>0, <2>1 DEF Staged
  <2>3. stage' \in [Procs -> Stages] /\ stage'[p] = "load"
    BY <1>0, <2>1 DEF Stages
  <2>4. \A q \in Procs : q # p =>
          stage'[q] = stage[q] /\ left'[q] = left[q] /\ pending'[q] = pending[q]
    BY <1>0, <2>1
  <2>5. MainInv'
    BY <1>0, <2>1, <2>2, <2>3, <2>4, PhaseKeeps
  <2> QED
    BY <2>1, <2>5
<1> QED
  BY <1>4, <1>5, <1>6, <1>7, <1>8, <1>9, <1>10 DEF EnsureRole

LEMMA LoadKeeps ==
  ASSUME RunInv, MainInv, TypeOK, NEW p \in Procs, Load(p)
  PROVE  MainInv' /\ (Stands \/ Moves(p))
<1>0. /\ stage \in [Procs -> Stages] /\ left \in [Procs -> SUBSET ServeSet]
      /\ pending \in [Procs -> {<<>>} \cup Files \X Versions]
      /\ applied \in [Procs -> [Files -> Versions \cup {NoFile}]]
      /\ role \in BOOLEAN /\ usage \in BOOLEAN /\ granted \subseteq ServeSet
      /\ Staged(p)
  BY DEF MainInv, MainTypes, Stages
<1>1. ASSUME UNCHANGED svars PROVE Stands /\ UNCHANGED <<plan, pc>>
  BY <1>1 DEF svars, database, process, Stands, Unwritten
<1>2. ToApply(p) \in {<<>>} \cup Files \X Versions
  BY ToApplyTyped
<1>3. ASSUME stage[p] \in {"load", "serving"}
      PROVE  /\ pc[p] = "migrated" /\ role /\ usage
             /\ \A t \in ServeSet : Makes(p, t) => t \in granted
  BY <1>0, <1>3 DEF Staged
<1>4. CASE LoadOnce(p)
  <2>1. CASE Rejected(p)
    <3>1. Exit(p) /\ Forgotten(p) /\ Unwritten /\ UNCHANGED <<roles, definitions>>
      BY <1>4, <2>1 DEF LoadOnce, Fails, Unwritten
    <3> QED
      BY <3>1, ForgottenKeeps DEF Moves
  <2>2. CASE ~Rejected(p)
    <3>1. /\ stage[p] = "load" /\ Stands /\ UNCHANGED <<plan, pc>>
          /\ UNCHANGED <<left, role, usage, granted, applied, mount, row, moved>>
          /\ stage' = [stage EXCEPT ![p] = IF Changed(p) THEN "load" ELSE "serving"]
          /\ pending' = [pending EXCEPT ![p] = ToApply(p)]
      BY <1>1, <1>4, <2>2 DEF LoadOnce, At, Enter, roles, definitions
    <3>2. /\ stage' \in [Procs -> Stages] /\ stage'[p] \in {"load", "serving"}
          /\ pending' \in [Procs -> {<<>>} \cup Files \X Versions]
      BY <1>0, <1>2, <3>1 DEF Stages
    <3>3. \A q \in Procs : q # p =>
            stage'[q] = stage[q] /\ left'[q] = left[q] /\ pending'[q] = pending[q]
      BY <1>0, <3>1
    <3>4. MainInv'
      BY <1>0, <1>3, <3>1, <3>2, <3>3, PhaseKeeps
    <3> QED
      BY <3>1, <3>4
  <2> QED
    BY <2>1, <2>2
<1>5. CASE Poll(p)
  <2>1. /\ stage[p] = "serving" /\ Stands /\ UNCHANGED <<plan, pc>>
        /\ UNCHANGED <<stage, left, role, usage, granted, applied, mount, row, moved>>
        /\ pending' = [pending EXCEPT ![p] = ToApply(p)]
    BY <1>1, <1>5 DEF Poll, At, roles, definitions
  <2>2. pending' \in [Procs -> {<<>>} \cup Files \X Versions]
    BY <1>0, <1>2, <2>1
  <2>3. \A q \in Procs : q # p =>
          stage'[q] = stage[q] /\ left'[q] = left[q] /\ pending'[q] = pending[q]
    BY <1>0, <2>1
  <2>4. MainInv'
    BY <1>0, <1>3, <2>1, <2>2, <2>3, PhaseKeeps
  <2> QED
    BY <2>1, <2>4
<1>6. CASE Store(p)
  <2> DEFINE f == pending[p][1]
             c == pending[p][2]
  <2>1. /\ pending[p] # <<>> /\ Stands /\ UNCHANGED <<plan, pc>>
        /\ UNCHANGED <<left, role, usage, granted, mount>>
        /\ row' = c
        /\ applied' = [applied EXCEPT ![p][f] = c]
        /\ moved' = (moved \/ \E g \in Files \ {f} : applied[p][g] # NoFile)
        /\ pending' = [pending EXCEPT ![p] = <<>>]
        /\ stage' = [stage EXCEPT ![p] = "serving"]
    BY <1>1, <1>6 DEF Store, roles
  <2>2. f \in Files /\ c \in Versions /\ stage[p] \in {"load", "serving"}
    BY <1>0, <2>1 DEF Staged
  <2> HIDE DEF f, c
  <2>3. /\ stage' \in [Procs -> Stages] /\ stage'[p] = "serving"
        /\ pending' \in [Procs -> {<<>>} \cup Files \X Versions] /\ pending'[p] = <<>>
        /\ applied' \in [Procs -> [Files -> Versions \cup {NoFile}]]
    BY <1>0, <2>1, <2>2 DEF Stages
  <2>4. \A q \in Procs : q # p =>
          pc'[q] = pc[q] /\ stage'[q] = stage[q] /\ left'[q] = left[q] /\ pending'[q] = pending[q]
    BY <1>0, <2>1
  <2>5. Staged(p)'
    <3>1. \A t \in ServeSet : Makes(p, t)' <=> Makes(p, t)
      BY <2>1 DEF Makes
    <3> QED
      BY <1>3, <2>1, <2>2, <2>3, <3>1 DEF Staged
  <2>6. \A q \in Procs : Staged(q)'
    BY <2>1, <2>4, <2>5, StepStaged
  <2>7. Remembered'
    <3>1. ASSUME ~moved' PROVE \A g \in Files : applied'[p][g] \in {NoFile, row'}
      BY <1>0, <2>1, <2>2, <3>1
    <3> QED
      BY <3>1 DEF Remembered
  <2>8. MainTypes'
    BY <2>1, <2>2, <2>3 DEF MainInv, MainTypes, Stages
  <2> QED
    BY <2>1, <2>6, <2>7, <2>8 DEF MainInv
<1> QED
  BY <1>4, <1>5, <1>6 DEF Load

LEMMA OtherKeeps ==
  ASSUME RunInv, MainInv, TypeOK, NEW p \in Procs, StoreFails(p) \/ Crash(p) \/ Edit(p)
  PROVE  MainInv' /\ (Stands \/ Moves(p))
<1>0. /\ stage \in [Procs -> Stages] /\ left \in [Procs -> SUBSET ServeSet]
      /\ pending \in [Procs -> {<<>>} \cup Files \X Versions]
      /\ mount \in [Procs -> [Files -> Contents]]
      /\ role \in BOOLEAN /\ usage \in BOOLEAN /\ granted \subseteq ServeSet
      /\ Staged(p)
  BY DEF MainInv, MainTypes, Stages
<1>1. CASE StoreFails(p)
  <2>1. /\ stage[p] = "serving" /\ Stands /\ UNCHANGED <<plan, pc>>
        /\ UNCHANGED <<stage, left, role, usage, granted, applied, mount, row, moved>>
        /\ pending' = [pending EXCEPT ![p] = <<>>]
    BY <1>1 DEF StoreFails, At, roles, definitions, database, process, Stands, Unwritten
  <2>2. pending' \in [Procs -> {<<>>} \cup Files \X Versions]
    BY <1>0, <2>1
  <2>3. \A q \in Procs : q # p =>
          stage'[q] = stage[q] /\ left'[q] = left[q] /\ pending'[q] = pending[q]
    BY <1>0, <2>1
  <2>4. /\ pc[p] = "migrated" /\ role /\ usage
        /\ \A t \in ServeSet : Makes(p, t) => t \in granted
    BY <1>0, <2>1 DEF Staged
  <2>5. MainInv'
    BY <1>0, <2>1, <2>2, <2>3, <2>4, PhaseKeeps
  <2> QED
    BY <2>1, <2>5
<1>2. CASE Crash(p)
  <2>1. Exit(p) /\ Forgotten(p) /\ Unwritten /\ UNCHANGED <<roles, definitions>>
    BY <1>2 DEF Crash, Die, Unwritten
  <2> QED
    BY <2>1, ForgottenKeeps DEF Moves
<1>3. CASE Edit(p)
  <2>1. /\ Stands
        /\ UNCHANGED <<plan, pc, stage, left, role, usage, granted, pending, applied, row, moved>>
    BY <1>3 DEF Edit, svars, database, process, roles, loader, Stands, Unwritten
  <2>2. mount' \in [Procs -> [Files -> Contents]]
    BY <1>0, <1>3 DEF Edit
  <2>3. \A q \in Procs : Staged(q)'
    <3>1. \A q \in Procs : \A t \in ServeSet : Makes(q, t)' <=> Makes(q, t)
      BY <2>1 DEF Makes
    <3> QED
      BY <2>1, <3>1 DEF MainInv, Staged
  <2>4. MainTypes' /\ Remembered'
    BY <2>1, <2>2 DEF MainInv, MainTypes, Remembered
  <2> QED
    BY <2>1, <2>3, <2>4 DEF MainInv
<1> QED
  BY <1>1, <1>2, <1>3

LEMMA StutterKeeps ==
  ASSUME RunInv, MainInv,
         UNCHANGED <<plan, pc, stage, roles, left, loader, definitions>>
  PROVE  MainInv'
<1>1. UNCHANGED <<plan, pc, stage, role, usage, granted, left, applied, pending, mount, row, moved>>
  BY DEF roles, loader, definitions
<1>2. \A q \in Procs : \A t \in ServeSet : Makes(q, t)' <=> Makes(q, t)
  BY <1>1 DEF Makes
<1>3. \A q \in Procs : Staged(q)'
  BY <1>1, <1>2 DEF MainInv, Staged
<1>4. MainTypes' /\ Remembered'
  BY <1>1 DEF MainInv, MainTypes, Remembered
<1> QED
  BY <1>3, <1>4 DEF MainInv

-----------------------------------------------------------------------------
(* The invariant holds at first and every step keeps it *)

LEMMA InitHolds == Init => IInv
<1> SUFFICES ASSUME Init PROVE IInv
  OBVIOUS
<1>1. /\ plan \in Plans /\ lock = NoProc
      /\ ledger = [k \in PackageSet |-> [n \in Numbers |-> NoSum]]
      /\ schema = [k \in PackageSet |-> [n \in Numbers |-> "absent"]]
      /\ built = [k \in PackageSet |-> [n \in Numbers |-> NoSum]]
      /\ ran = [k \in PackageSet |-> [n \in Numbers |-> 0]]
      /\ pc = [p \in Procs |-> "down"] /\ pkg = [p \in Procs |-> 1]
      /\ known = [p \in Procs |-> [n \in Numbers |-> NoSum]]
      /\ at = [p \in Procs |-> 1] /\ tries = [p \in Procs |-> 0]
      /\ ddl = [p \in Procs |-> 0]
  BY DEF Init, SInit
<1>2. 1 \in DOMAIN Packages /\ GuardAttempts \in Nat \ {0}
  BY PackagesAssumption, GuardAssumption
<1>3. IsTable(ledger) /\ IsTable(schema) /\ IsTable(built) /\ IsTable(ran)
  BY <1>1 DEF IsTable
<1>4. Typed
  <2>1. \A k \in PackageSet : \A n \in Numbers : schema[k][n] = "absent" /\ ran[k][n] = 0
    BY <1>1
  <2>2. DOMAIN known = Procs /\ \A p \in Procs : DOMAIN known[p] = Numbers
    BY <1>1
  <2> QED
    BY <1>1, <1>2, <1>3, <2>1, <2>2 DEF Typed
<1>5. RunTypes
  <2>1. \A p \in Procs : Len(Steps(p)) \in Nat
    BY <1>4, Here
  <2>2. \A p \in Procs : at[p] \in 1 .. Len(Steps(p)) + 1
    BY <1>1, <2>1
  <2> QED
    BY <1>1, <1>2, <2>2 DEF RunTypes, Labels
<1>6. Rows
  <2> SUFFICES ASSUME NEW k \in PackageSet, NEW n \in Numbers PROVE Row(k, n)
    BY DEF Rows
  <2>1. ledger[k][n] = NoSum /\ schema[k][n] = "absent" /\ ran[k][n] = 0
    BY <1>1
  <2>2. \A p \in Procs : n \in DOMAIN plan[p][k] => Sum(plan[p][k][n]) # NoSum
    BY <1>4, Plan
  <2> QED
    BY <2>1, <2>2 DEF Row
<1>7. ASSUME NEW p \in Procs PROVE Placed(p) /\ Fresh(p) /\ Past(p)
  <2>1. pc[p] = "down" /\ at[p] = 1 /\ pkg[p] = 1
    BY <1>1
  <2>2. \A j \in DOMAIN Packages : ~(j < pkg[p])
    BY <2>1, PackagesAssumption
  <2> QED
    BY <2>1, <2>2 DEF Placed, Fresh, Past, Running, Doing, Indexing
<1>8. MainTypes
  BY MountsAssumption DEF Init, MainTypes, Stages
<1>9. Remembered
  BY ProcsAssumption DEF Init, Remembered
<1>10. \A p \in Procs : Staged(p)
  BY DEF Init, Staged
<1> QED
  BY <1>4, <1>5, <1>6, <1>7, <1>8, <1>9, <1>10, Halves DEF RunInv, MainInv

LEMMA StepHolds == IInv /\ [Next]_vars => IInv'
<1> SUFFICES ASSUME IInv, [Next]_vars PROVE IInv'
  OBVIOUS
<1>0. RunInv /\ MainInv /\ TypeOK
  BY Halves DEF IInv
<1>1. ASSUME NEW p \in Procs, Advance(p) \/ StoreFails(p) \/ Crash(p) \/ Edit(p)
      PROVE  RunInv' /\ MainInv'
  <2>1. CASE Migrate(p)
    <3>1. Moves(p)
      BY <2>1 DEF Migrate, Moves
    <3> QED
      BY <1>0, <2>1, <3>1, MigrateKeeps, MovesKeeps
  <2>2. CASE EnsureRole(p) \/ Load(p) \/ StoreFails(p) \/ Crash(p) \/ Edit(p)
    <3>1. MainInv' /\ (Stands \/ Moves(p))
      BY <1>0, <2>2, EnsureRoleKeeps, LoadKeeps, OtherKeeps
    <3> QED
      BY <1>0, <3>1, MovesKeeps, StandsKeeps
  <2> QED
    BY <1>1, <2>1, <2>2 DEF Advance
<1>2. ASSUME Readers \/ UNCHANGED vars PROVE RunInv' /\ MainInv'
  <2>1. Stands /\ UNCHANGED <<plan, pc, stage, roles, left, loader, definitions>>
    BY <1>2 DEF Readers, LongRead, ReadEnds, process, vars, svars, database, Stands, Unwritten
  <2>2. RunInv'
    BY <1>0, <2>1, StandsKeeps
  <2>3. MainInv'
    BY <1>0, <2>1, StutterKeeps
  <2> QED
    BY <2>2, <2>3
<1>3. RunInv' /\ MainInv'
  <2>1. CASE Next
    BY <1>1, <1>2, <2>1 DEF Next
  <2> QED
    BY <1>2, <2>1
<1> QED
  BY <1>3 DEF IInv, TypeOK, RunInv, RunTypes, Rows, MainInv, MainTypes, Labels, Stages

-----------------------------------------------------------------------------
(* Theorems *)

\* The lock, the ledger as each run remembers it, the stages of main and the
\* memory of the loaders hold together in every reachable state
\* (schemastep.go:103-331, main.go:251-306).
THEOREM BootInvariant == Spec => []IInv
<1>1. Init => IInv
  BY InitHolds
<1>2. IInv /\ [Next]_vars => IInv'
  BY StepHolds
<1> QED
  BY <1>1, <1>2, PTL DEF Spec

\* Every variable keeps its type.
THEOREM BootTypeCorrect == Spec => []TypeOK
<1>1. IInv => TypeOK
  BY DEF IInv
<1> QED
  BY <1>1, BootInvariant, PTL

\* A row of the ledger means its step took effect once and left what it should
\* leave, and no row of a transactional step means it left nothing, for any
\* number of replicas, releases and crashes (schemastep.go:215-331).
THEOREM LedgerIsTruthful == Spec => []LedgerTruthful
<1>1. IInv => LedgerTruthful
  <2> SUFFICES ASSUME IInv, NEW k \in PackageSet, NEW n \in Numbers
               PROVE  /\ ledger[k][n] # NoSum =>
                           /\ schema[k][n] \in {"done", "valid"}
                           /\ schema[k][n] = "valid" => ran[k][n] = 1
                           /\ Agreed(k, n) => ledger[k][n] = built[k][n]
                      /\ schema[k][n] = "invalid" => ledger[k][n] = NoSum
                      /\ \A p \in Procs :
                           /\ n \in DOMAIN plan[p][k] /\ Agreed(k, n)
                           /\ plan[p][k][n].kind \in {"tx", "guarded"}
                           => ran[k][n] = IF ledger[k][n] = NoSum THEN 0 ELSE 1
    BY DEF LedgerTruthful
  <2>1. Row(k, n)
    BY DEF IInv
  <2>2. ASSUME ledger[k][n] # NoSum, Agreed(k, n) PROVE ledger[k][n] = built[k][n]
    <3>1. PICK p \in Procs : n \in DOMAIN plan[p][k]
      BY <2>1, <2>2 DEF Row
    <3> QED
      BY <2>1, <2>2, <3>1 DEF Row
  <2> QED
    BY <2>1, <2>2 DEF Row
<1> QED
  BY <1>1, BootInvariant, PTL

\* No replica serves over a database its release did not migrate: every step
\* is recorded under its own SQL, and the role of delivery may use the schema
\* and read every table of the set (main.go:251-306, serveset.go:60-108).
THEOREM ServingMeansMigrated == Spec => []ServesItsRelease
<1>1. IInv => ServesItsRelease
  <2> SUFFICES ASSUME IInv, NEW p \in Procs, At(p, "serving")
               PROVE  /\ role /\ usage
                      /\ \A k \in PackageSet : \A n \in DOMAIN plan[p][k] :
                           /\ ledger[k][n] # NoSum
                           /\ plan[p][k][n].kind # "batch" => ledger[k][n] = Sum(plan[p][k][n])
                           /\ plan[p][k][n].creates \cap ServeSet \subseteq granted
    BY DEF ServesItsRelease
  <2>1. Past(p) /\ Staged(p) /\ pc[p] = "migrated" /\ stage[p] = "serving"
    BY DEF IInv, At
  <2>2. \A k \in PackageSet : \A n \in DOMAIN plan[p][k] :
          plan[p][k][n].creates \cap ServeSet \subseteq granted
    BY <2>1 DEF Staged, Makes
  <2> QED
    BY <2>1, <2>2 DEF Past, Own, Staged
<1> QED
  BY <1>1, BootInvariant, PTL

\* Mounts that agree leave their definition in the row, whatever order the
\* replicas wrote in and however often they restarted, unless a definition
\* moved between file names (loader.go:125-162).
THEOREM AgreeingMountsDecide == Spec => []MountsAgreeThenRow
<1>1. IInv => MountsAgreeThenRow
  <2> SUFFICES ASSUME IInv, ~moved, \A p \in Procs : Settled(p), NEW v \in Versions,
                      \A p \in Procs : mount[p][Taken(p)] = v
               PROVE  row = v
    BY DEF MountsAgreeThenRow
  <2>1. PICK p \in Procs : \A f \in Files : applied[p][f] \in {NoFile, row}
    BY DEF IInv, Remembered
  <2>2. Parsed(p) # {} /\ applied[p][Taken(p)] = v
    BY DEF Settled, Changed
  <2>3. Taken(p) \in Files
    BY <2>2, TakenParsed
  <2>4. v # NoFile
    BY ContentAssumption
  <2> QED
    BY <2>1, <2>2, <2>3, <2>4
<1> QED
  BY <1>1, BootInvariant, PTL

\* What the classifier says of one sub-action: it never takes one that locks for
\* one that does not, and a rewrite or a scan for less only where it overlooks it.
LEMMA OneFeature ==
  ASSUME NEW a
  PROVE  /\ FirstMatch(Features(a)) = "safe" => a \in {"validate", "add foreign key"}
         /\ FirstMatch(Features(a)) = "metadata" =>
              a \notin {"alter type", "set not null", "rename", "drop column",
                        "add column volatile", "add check"}
<1> DEFINE class == FirstMatch(Features(a))
<1>1. class = "safe" => a \in {"validate", "add foreign key"}
  BY DEF FirstMatch, Features
<1>2. CASE a \in {"alter type", "set not null", "rename", "drop column"}
  <2>1. Features(a) = {a}
    BY <1>2 DEF Features
  <2> QED
    BY <1>1, <1>2, <2>1 DEF FirstMatch
<1>3. CASE a = "add column volatile"
  <2>1. Features(a) = {"addColumn", "default"}
    BY <1>3 DEF Features
  <2> QED
    BY <1>1, <1>3, <2>1 DEF FirstMatch
<1>4. CASE a = "add check"
  <2>1. Features(a) = {"addConstraint"}
    BY <1>4 DEF Features
  <2> QED
    BY <1>1, <1>4, <2>1 DEF FirstMatch
<1> QED
  BY <1>1, <1>2, <1>3, <1>4

\* What Check lets pass of a statement of at most one sub-action.
LEMMA OneAction ==
  ASSUME NEW kind, NEW s, Len(s.acts) \in Nat, DOMAIN s.acts = 1 .. Len(s.acts),
         Len(s.acts) <= 1, Permitted(kind, s), ShutsOut(s)
  PROVE  /\ kind = "guarded"
         /\ TrueClass(s) = "rewrite" =>
              s.verb = "alter" /\ \A j \in DOMAIN s.acts : s.acts[j] \in Overlooked
<1>1. Class(s) = "safe" \/ (Class(s) = "metadata" /\ kind = "guarded")
  BY DEF Permitted, ShutsOut, OffSet
<1>2. CASE s.verb # "alter"
  BY <1>1, <1>2 DEF Class, TrueClass, ShutsOut
<1>3. CASE s.verb = "alter" /\ Len(s.acts) = 0
  <2>1. Found(s.acts) = {}
    BY <1>3 DEF Found
  <2>2. Class(s) = "unknown"
    BY <1>3, <2>1 DEF Class, AlterClass, FirstMatch
  <2> QED
    BY <1>1, <2>2
<1>4. CASE s.verb = "alter" /\ Len(s.acts) = 1
  <2> DEFINE a == s.acts[1]
             class == FirstMatch(Features(a))
  <2>1. DOMAIN s.acts = {1}
    BY <1>4
  <2>2. Found(s.acts) = Features(a)
    BY <2>1 DEF Found
  <2>3. Class(s) = class
    BY <1>4, <2>2 DEF Class, AlterClass
  <2> HIDE DEF a, class
  <2>5. a \notin {"validate", "add foreign key"}
    BY <1>4, <2>1 DEF ShutsOut, TrueClass, Overlooked, a
  <2>6. class = "metadata" /\ kind = "guarded"
    BY <1>1, <2>3, <2>5, OneFeature DEF class
  <2>7. ASSUME TrueClass(s) = "rewrite" PROVE a \in Overlooked
    <3>1. a \in Overlooked \cup {"alter type", "set not null", "rename", "drop column",
                                 "add column volatile", "add check"}
      BY <1>4, <2>1, <2>7 DEF TrueClass, a
    <3> QED
      BY <2>6, <3>1, OneFeature DEF class
  <2>8. TrueClass(s) = "rewrite" => \A j \in DOMAIN s.acts : s.acts[j] \in Overlooked
    BY <2>1, <2>7 DEF a
  <2> QED
    BY <1>4, <2>6, <2>8
<1>5. Len(s.acts) = 0 \/ Len(s.acts) = 1
  <2> DEFINE len == Len(s.acts)
  <2>1. len \in Nat /\ len <= 1
    OBVIOUS
  <2> HIDE DEF len
  <2>2. len = 0 \/ len = 1
    BY <2>1
  <2> QED
    BY <2>2 DEF len
<1> QED
  BY <1>2, <1>3, <1>4, <1>5

\* Whatever plan a release brings, only a guarded step keeps the readers of the
\* serve-read set out, and for a rewrite or a scan only one the classifier
\* overlooks: Run checks the plan before it takes the lock, and every statement
\* of a step that runs has passed the check (classify.go:182-303).
THEOREM NoStallingStatement == Spec => []ReadersNeverStalled
<1>1. IInv => ReadersNeverStalled
  <2> SUFFICES ASSUME IInv, NEW p \in Procs, AtStep(p), Transactional(p),
                      NEW i \in DOMAIN Statements(p),
                      ShutsOut(Statements(p)[i]), Len(Statements(p)[i].acts) <= 1
               PROVE  LET s == Statements(p)[i] IN
                      /\ Current(p).kind = "guarded"
                      /\ TrueClass(s) = "rewrite" =>
                           s.verb = "alter" /\ \A j \in DOMAIN s.acts : s.acts[j] \in Overlooked
    BY DEF ReadersNeverStalled
  <2> DEFINE s == Statements(p)[i]
  <2>1. /\ Typed /\ Check(Steps(p)) /\ at[p] \in DOMAIN Steps(p)
        /\ Steps(p) = plan[p][Pkg(p)] /\ Pkg(p) \in PackageSet
    BY Here DEF IInv, Placed, Running, AtStep
  <2>2. Permitted(Current(p).kind, s)
    BY <2>1 DEF Check, Transactional, Current, Statements
  <2>3. Len(s.acts) \in Nat /\ DOMAIN s.acts = 1 .. Len(s.acts)
    <3>1. IsStep(Current(p))
      BY <2>1, Plan DEF Current
    <3> QED
      BY <3>1 DEF IsStep, Statements
  <2> HIDE DEF s
  <2>4. /\ Current(p).kind = "guarded"
        /\ TrueClass(s) = "rewrite" =>
             s.verb = "alter" /\ \A j \in DOMAIN s.acts : s.acts[j] \in Overlooked
    BY <2>2, <2>3, OneAction DEF s
  <2> QED
    BY <2>4 DEF s
<1> QED
  BY <1>1, BootInvariant, PTL
=============================================================================

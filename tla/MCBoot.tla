------------------------------- MODULE MCBoot -------------------------------
(***************************************************************************)
(* Instances of Boot for TLC: two packages after engine.MigrationSteps and *)
(* mediapackage.MigrationSteps, in several releases.                       *)
(***************************************************************************)
EXTENDS Boot, TLC

CONSTANTS p1, p2

Stmt(verb, table, acts) == [verb |-> verb, table |-> table, acts |-> acts]
Step(kind, sql, stmts, creates) ==
  [kind |-> kind, sql |-> sql, stmts |-> stmts, creates |-> creates]
Alter(table, act) == <<Stmt("alter", table, <<act>>)>>

Baseline == Step("guarded", "m0", Alter("mp_element", "add column"), {"mp_element"})
Index(sql) == Step("index", sql, <<Stmt("create index", "mp_element", <<>>)>>, {})
Backfill == Step("batch", "m2", <<>>, {})
Tombstone == Step("tx", "m3", Alter("mediapackage", "add column"), {})

Release(media) ==
  [engine |-> <<Step("tx", "e0", <<Stmt("create", "task", <<>>)>>, {})>>,
   mediapackage |-> media]

Old == Release(<<Baseline>>)
New == Release(<<Baseline, Index("m1"), Backfill, Tombstone>>)
EditedIndex == Release(<<Baseline, Index("m1b")>>)

\* Steps a developer may propose on top of the old release: on the serve-read
\* set and off it, of every class, in both transactional kinds, of several
\* statements and of several sub-actions, and where the classifier errs.
Proposed(kind, stmts) == Release(<<Baseline, Step(kind, "x1", stmts, {})>>)
Proposals ==
  {Proposed("tx", Alter("mp_element", "add column constant")),
   Proposed("guarded", Alter("mp_element", "add check not valid")
                       \o Alter("task", "set not null")),
   Proposed("guarded", Alter("mp_element", "add column volatile")),
   Proposed("guarded", Alter("mp_element", "add column serial")),
   Proposed("tx", Alter("task", "set not null")
                  \o Alter("mp_element", "add column computed")),
   Proposed("tx", <<Stmt("alter", "mp_element", <<"validate", "add column">>)>>),
   Proposed("tx", <<Stmt("other", "", <<>>)>>)}

\* The mount of p1 is ahead of that of p2.
Lagging == (p1 :> (1 :> "v2" @@ 2 :> NoFile)) @@ (p2 :> (1 :> "v1" @@ 2 :> NoFile))

PackageList == <<"engine", "mediapackage">>

AllPlans ==
  {(p1 :> Old) @@ (p2 :> New), (p1 :> New) @@ (p2 :> EditedIndex)}
  \cup {(p1 :> Old) @@ (p2 :> r) : r \in Proposals}
=============================================================================

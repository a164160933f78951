--------------------------- MODULE ContentProofs ---------------------------
(***************************************************************************)
(* Proofs about Content and the readers of its rows, Visibility: for any   *)
(* events, series, policies, principals, sessions and any number of        *)
(* transactions.                                                           *)
(*                                                                         *)
(* Five inductive invariants, each resting on those before it.             *)
(*                                                                         *)
(*   LockInv      what a transaction has still to run (Local): its         *)
(*                statements are well formed, in the order of the ranks of *)
(*                the rows they lock, above every row it has locked, and   *)
(*                prepared for by the ones before; a row has one writer.   *)
(*                The first statements of an inspection have no rank: they *)
(*                come before all others, and while one is to come only    *)
(*                rows of the inspected event are held.                    *)
(*   Referential  what a publication references exists in every view, and  *)
(*                who references an element keeps it from being removed.   *)
(*   Serial       without overlap: what an open transaction has dirtied in *)
(*                the projection, a statement to come refreshes.           *)
(*   FilledInv    who pins an event refers to elements afterwards, so that *)
(*                a committed publication has some.                        *)
(*   Gone         without overlap: what is left of a deleted event, a      *)
(*                statement to come removes, and none brings it back.      *)
(*                                                                         *)
(* The eighteen kinds of statements are shown to have one Effect on the    *)
(* invariant of their own session; the theorems then look at Begin, a      *)
(* statement, Commit and Rollback.                                         *)
(***************************************************************************)
EXTENDS Visibility, SequenceTheorems, FiniteSetTheorems, TLAPS

-----------------------------------------------------------------------------
(* Rows and statements *)

Table(t) == {k \in Rows : k[1] = t}
Entry == SUBSET AclEntries
Pins == [state : {"ABSENT", "EMPTY", "POPULATED"}, read : SUBSET Roles]

Puts ==
  ({"put"} \X Table("acl") \X Entry)
  \cup ({"put"} \X Table("search_event") \X EventRows)
  \cup ({"put"} \X Table("search_series") \X SeriesRows)
  \cup ({"put"} \X Table("mp_element") \X {"row"})
Deletes ==
  {"delete"} \X (UNION {Table(t) : t \in {"publication", "mp_element", "mp_snapshot",
                                          "search_event", "search_series"}}) \X {NoRow}
Updates ==
  ({"tombstone"} \X (Table("mediapackage") \cup Table("series")) \X {NoRow})
  \cup ({"setSeries"} \X Table("mediapackage") \X (SeriesIds \cup {NoSeries}))
  \cup ({"setTitle"} \X Table("series") \X Titles)
Mutations ==
  ({"lock"} \X Table("mediapackage") \X {NoRow})
  \cup ({"addVersion"} \X Table("mp_snapshot") \X {NoRow})
  \cup ({"pin"} \X Table("publication") \X {NoRow})
  \cup ({"putPin"} \X Table("publication") \X Pins)
  \cup ({"reference"} \X Table("publication") \X ((SUBSET Elements) \ {{}}))
Inspections ==
  ({"tech"} \X Events \X Elements) \cup ({"duration"} \X Events \X {NoRow})
Projections ==
  ({"projectEvent", "eventRow"} \X Events \X {NoRow})
  \cup ({"projectSeries", "seriesRow", "projectMembers"} \X SeriesIds \X {NoRow})
  \cup ({"override"} \X SeriesIds \X Entry)
Stmts == Puts \cup Deletes \cup Updates \cup Mutations \cup Inspections \cup Projections

\* What a row is the row of.
LEMMA RowFacts ==
  /\ \A e \in Events : /\ Mp(e) \in Table("mediapackage") /\ Snapshots(e) \in Table("mp_snapshot")
                       /\ \A c \in Channels : Publication(e, c) \in Table("publication")
                       /\ SearchEvent(e) \in Table("search_event") /\ Policy(e) \in Table("acl")
                       /\ \A el \in Elements : Element(e, el) \in Table("mp_element")
  /\ \A s \in SeriesIds : /\ Series(s) \in Table("series") /\ Policy(s) \in Table("acl")
                          /\ SearchSeries(s) \in Table("search_series")
  /\ \A k \in Rows :
       /\ k[1] = "mediapackage" => k[2] \in Events /\ k = Mp(k[2])
       /\ k[1] = "mp_snapshot" => k[2] \in Events /\ k = Snapshots(k[2])
       /\ k[1] = "publication" => /\ k[2][1] \in Events /\ k[2][2] \in Channels
                                  /\ k = Publication(k[2][1], k[2][2])
       /\ k[1] = "search_event" => k[2] \in Events /\ k = SearchEvent(k[2])
       /\ k[1] = "search_series" => k[2] \in SeriesIds /\ k = SearchSeries(k[2])
       /\ k[1] = "series" => k[2] \in SeriesIds /\ k = Series(k[2])
       /\ k[1] = "acl" => k[2] \in Events \cup SeriesIds /\ k = Policy(k[2])
       /\ k[1] = "mp_element" => /\ k[2][1] \in Events /\ k[2][2] \in Elements
                                 /\ k = Element(k[2][1], k[2][2])
  BY DEF Rows, Table, Mp, Snapshots, Publication, SearchEvent, Policy, Element, Series,
         SearchSeries

LEMMA StmtFacts ==
  ASSUME NEW st \in Stmts
  PROVE  /\ st[1] = "put" => st \in Puts
         /\ st[1] = "delete" => st \in Deletes
         /\ st[1] = "tombstone" => /\ st[2] \in Table("mediapackage") \cup Table("series")
         /\ st[1] = "setSeries" => /\ st[2] \in Table("mediapackage")
                                   /\ st[3] \in SeriesIds \cup {NoSeries}
         /\ st[1] = "setTitle" => st[2] \in Table("series") /\ st[3] \in Titles
         /\ st[1] = "lock" => st[2] \in Table("mediapackage")
         /\ st[1] = "addVersion" => st[2] \in Table("mp_snapshot")
         /\ st[1] = "pin" => st[2] \in Table("publication")
         /\ st[1] = "putPin" => st[2] \in Table("publication") /\ st[3] \in Pins
         /\ st[1] = "reference" => /\ st[2] \in Table("publication")
                                   /\ st[3] \in (SUBSET Elements) \ {{}}
         /\ st[1] \in {"projectEvent", "eventRow"} => st[2] \in Events
         /\ st[1] \in {"projectSeries", "seriesRow", "projectMembers"} => st[2] \in SeriesIds
         /\ st[1] = "override" => st[2] \in SeriesIds /\ st[3] \in Entry
         /\ st[1] \in {"tech", "duration"} => st[2] \in Events
         /\ st[1] = "tech" => st[3] \in Elements
  BY DEF Stmts, Puts, Deletes, Updates, Mutations, Inspections, Projections

-----------------------------------------------------------------------------
(* The order in which rows are locked *)

\* What an event is made of, then the policy, then the event's row of the
\* projection, then the series' row.
Rank(k) ==
  CASE k[1] \in {"mediapackage", "series"} -> 0
    [] k[1] = "publication" -> IF k[2][2] = EngagePlayer THEN 1 ELSE 2
    [] k[1] = "mp_element" -> IF k[2][2] = Source THEN 3 ELSE 4
    [] k[1] = "mp_snapshot" -> 5
    [] k[1] = "acl" -> IF k[2] \in Events THEN 7 ELSE 6
    [] k[1] = "search_event" -> 8
    [] OTHER -> 9

\* The first and the last rank at which a statement, or one it expands to,
\* may lock a row.
Keyed == {"put", "delete", "tombstone", "setSeries", "setTitle", "lock", "addVersion",
          "pin", "putPin"}
Unranked == {"tech", "duration"}
Low(st) ==
  CASE st[1] \in Keyed -> Rank(st[2])
    [] st[1] \in Unranked -> 0
    [] st[1] = "reference" -> 3
    [] st[1] = "override" -> 7
    [] st[1] \in {"projectEvent", "projectMembers", "eventRow"} -> 8
    [] OTHER -> 9
Top(st) ==
  CASE st[1] \in Keyed -> Rank(st[2])
    [] st[1] \in Unranked \cup {"reference"} -> 4
    [] st[1] = "override" -> 7
    [] st[1] = "eventRow" -> 8
    [] OTHER -> 9

\* Only the policies and the projected rows of members share a rank.
Ordered(q, r) == q < r \/ (q = r /\ r \in {7, 8})

\* A statement locks above another, and above a row; or all of it is an
\* inspection's own.
Precedes(u, st) ==
  \/ Ordered(Top(u), Low(st))
  \/ u[1] \in Unranked /\ st[1] \in Unranked /\ u[2] = st[2]
Below(k, st) ==
  \/ Ordered(Rank(k), Low(st))
  \/ st[1] \in Unranked /\ k \in OwnRows(st[2])

InOrder(p) == \A i, j \in DOMAIN p : i < j => Precedes(p[i], p[j])
Within(p, st) == \A i \in DOMAIN p : Low(st) <= Low(p[i]) /\ Top(p[i]) <= Top(st)
Above(K, p) == \A k \in K : \A i \in DOMAIN p : Below(k, p[i])
Rises(st, p) == \A i \in DOMAIN p : Low(st) <= Low(p[i])

LEMMA RankType == \A k : Rank(k) \in 0 .. 9
  BY DEF Rank

LEMMA RankFacts ==
  \A st \in Stmts : Low(st) \in 0 .. 9 /\ Top(st) \in 0 .. 9 /\ Low(st) <= Top(st)
  BY RankType, StmtFacts DEF Low, Top, Stmts, Keyed, Unranked

LEMMA AtTheStart == \A st : st[1] \in Unranked => Low(st) = 0 /\ Top(st) = 4
  BY DEF Low, Top, Keyed, Unranked

\* A statement is replaced by a program within its ranks.
LEMMA ExpandInOrder ==
  ASSUME NEW s \in Seq(Stmts), s # <<>>, InOrder(s), NEW K, Above(K, s),
         NEW p \in Seq(Stmts), InOrder(p), Within(p, Head(s)), Low(Head(s)) > 0
  PROVE  /\ p \o Tail(s) \in Seq(Stmts)
         /\ InOrder(p \o Tail(s))
         /\ Above(K, p \o Tail(s))
         /\ Rises(Head(s), p \o Tail(s))
<1> DEFINE q == p \o Tail(s)
<1>1. /\ q \in Seq(Stmts) /\ Len(q) = Len(p) + Len(s) - 1 /\ DOMAIN q = 1 .. Len(q)
      /\ \A i \in DOMAIN q : q[i] = IF i <= Len(p) THEN p[i] ELSE s[i - Len(p) + 1]
  OBVIOUS
<1>2. /\ Len(p) \in Nat /\ Len(s) \in Nat \ {0} /\ Head(s) = s[1] /\ DOMAIN p = 1 .. Len(p)
      /\ DOMAIN s = 1 .. Len(s)
      /\ \A i \in DOMAIN p : p[i] \in Stmts
      /\ \A i \in DOMAIN s : s[i] \in Stmts
  OBVIOUS
<1> HIDE DEF q
<1>3. InOrder(q)
  <2> SUFFICES ASSUME NEW i \in DOMAIN q, NEW j \in DOMAIN q, i < j
               PROVE  Precedes(q[i], q[j])
    BY DEF InOrder
  <2>1. CASE j <= Len(p)
    BY <1>1, <1>2, <2>1 DEF InOrder
  <2>2. CASE i > Len(p)
    <3>1. /\ i - Len(p) + 1 \in DOMAIN s /\ q[i] = s[i - Len(p) + 1]
          /\ j - Len(p) + 1 \in DOMAIN s /\ q[j] = s[j - Len(p) + 1]
          /\ i - Len(p) + 1 < j - Len(p) + 1
      BY <1>1, <1>2, <2>2
    <3> QED
      BY <3>1 DEF InOrder
  <2>3. CASE i <= Len(p) /\ j > Len(p)
    <3>1. q[i] = p[i] /\ i \in DOMAIN p /\ q[j] = s[j - Len(p) + 1]
          /\ j - Len(p) + 1 \in DOMAIN s /\ 1 < j - Len(p) + 1
      BY <1>1, <1>2, <2>3
    <3>2. Ordered(Top(s[1]), Low(q[j])) /\ Top(q[i]) <= Top(s[1])
      BY <1>2, <3>1, AtTheStart DEF InOrder, Within, Precedes
    <3>3. Top(q[i]) \in 0 .. 9 /\ Top(s[1]) \in 0 .. 9 /\ Low(q[j]) \in 0 .. 9
      BY <1>1, <1>2, <3>1, RankFacts
    <3> QED
      BY <3>2, <3>3 DEF Ordered, Precedes
  <2> QED
    BY <1>1, <1>2, <2>1, <2>2, <2>3
<1>4. Above(K, q)
  <2> SUFFICES ASSUME NEW k \in K, NEW i \in DOMAIN q
               PROVE  Below(k, q[i])
    BY DEF Above
  <2>1. CASE i > Len(p)
    BY <1>1, <1>2, <2>1 DEF Above
  <2>2. CASE i <= Len(p)
    <3>1. q[i] = p[i] /\ Low(s[1]) <= Low(p[i]) /\ Ordered(Rank(k), Low(s[1]))
      BY <1>1, <1>2, <2>2, AtTheStart DEF Above, Within, Below
    <3>2. Rank(k) \in 0 .. 9 /\ Low(s[1]) \in 0 .. 9 /\ Low(p[i]) \in 0 .. 9
      BY <1>1, <1>2, <2>2, <3>1, RankFacts, RankType
    <3> QED
      BY <3>1, <3>2 DEF Ordered, Below
  <2> QED
    BY <1>1, <1>2, <2>1, <2>2
<1>5. Rises(s[1], q)
  <2> SUFFICES ASSUME NEW i \in DOMAIN q
               PROVE  Low(s[1]) <= Low(q[i])
    BY DEF Rises
  <2>1. CASE i <= Len(p)
    BY <1>1, <1>2, <2>1 DEF Within
  <2>2. CASE i > Len(p)
    <3>1. /\ q[i] = s[i - Len(p) + 1] /\ i - Len(p) + 1 \in DOMAIN s /\ 1 < i - Len(p) + 1
          /\ 1 \in DOMAIN s
      BY <1>1, <1>2, <2>2
    <3>2. Ordered(Top(s[1]), Low(q[i]))
      BY <1>2, <3>1, AtTheStart DEF InOrder, Precedes
    <3>3. /\ Low(s[1]) \in 0 .. 9 /\ Top(s[1]) \in 0 .. 9 /\ Low(q[i]) \in 0 .. 9
          /\ Low(s[1]) <= Top(s[1])
      BY <1>2, <3>1, RankFacts
    <3> QED
      BY <3>2, <3>3 DEF Ordered
  <2> QED
    BY <1>1, <1>2, <2>1, <2>2
<1> QED
  BY <1>1, <1>2, <1>3, <1>4, <1>5 DEF q

LEMMA TailRises ==
  ASSUME NEW s \in Seq(Stmts), s # <<>>, InOrder(s)
  PROVE  Rises(Head(s), Tail(s))
<1> DEFINE p == Tail(s)
<1>1. /\ Len(s) \in Nat \ {0} /\ Head(s) = s[1] /\ s[1] \in Stmts /\ DOMAIN s = 1 .. Len(s)
      /\ DOMAIN p = 1 .. (Len(s) - 1)
      /\ \A i \in DOMAIN p : p[i] = s[i + 1] /\ p[i] \in Stmts
  OBVIOUS
<1> HIDE DEF p
<1>2. ASSUME NEW i \in DOMAIN p
      PROVE  Low(s[1]) <= Low(p[i])
  <2>1. 1 \in DOMAIN s /\ i + 1 \in DOMAIN s /\ 1 < i + 1
    BY <1>1
  <2>2. Precedes(s[1], p[i])
    BY <1>1, <2>1 DEF InOrder
  <2>3. /\ Low(s[1]) \in 0 .. 9 /\ Top(s[1]) \in 0 .. 9 /\ Low(p[i]) \in 0 .. 9
        /\ Low(s[1]) <= Top(s[1])
    BY <1>1, RankFacts
  <2> QED
    BY <2>2, <2>3, AtTheStart DEF Precedes, Ordered
<1> QED
  BY <1>1, <1>2 DEF Rises, p

-----------------------------------------------------------------------------
(* What a transaction has behind it and before it *)

\* A statement that has to come after another one in its transaction: the
\* references after the pin, what touches the versions of an event after the
\* lock of its row.
Needed(st, w) ==
  /\ st[1] = "reference" =>
       st[2] \in DOMAIN w /\ w[st[2]] \in Publications
  /\ st[1] \in {"addVersion", "delete"} /\ st[2][1] = "mp_snapshot" =>
       Mp(st[2][2]) \in DOMAIN w
Provides(st, u) ==
  \/ u[1] = "reference" /\ st[1] \in {"pin", "putPin"} /\ st[2] = u[2]
  \/ u[1] # "reference" /\ st[1] \in {"lock", "tombstone"} /\ st[2] = Mp(u[2][2])
Prepared(p, w) ==
  /\ \A i \in DOMAIN p : Needed(p[i], w) \/ \E j \in DOMAIN p : j < i /\ Provides(p[j], p[i])
  /\ \A k \in DOMAIN w : k[1] = "mp_snapshot" => Mp(k[2]) \in DOMAIN w

\* Nothing of a program has to come after something.
Plain(p) ==
  \A i \in DOMAIN p : /\ p[i][1] # "reference"
                      /\ p[i][1] \in {"addVersion", "delete"} => p[i][2][1] # "mp_snapshot"

RowsTyped(w) == \A k \in DOMAIN w : k \in Rows /\ w[k] \in RowOf(k[1])
Local(p, w, sh) ==
  /\ p \in Seq(Stmts)
  /\ RowsTyped(w) /\ sh \subseteq Table("mp_element")
  /\ InOrder(p) /\ Above(DOMAIN w \cup sh, p)
  /\ Prepared(p, w)

\* The head of a program is replaced by what it expands to.
LEMMA ExpandLocal ==
  ASSUME NEW s, NEW w, NEW sh, s # <<>>, Local(s, w, sh),
         NEW q \in Seq(Stmts), InOrder(q), Within(q, Head(s)), Plain(q), Low(Head(s)) > 0,
         Head(s)[1] \notin {"lock", "tombstone", "putPin"},
         Head(s)[1] = "pin" => \E i \in DOMAIN q : q[i][1] = "putPin" /\ q[i][2] = Head(s)[2]
  PROVE  Local(q \o Tail(s), w, sh) /\ Rises(Head(s), q \o Tail(s))
<1> DEFINE p == q \o Tail(s)
<1>1. p \in Seq(Stmts) /\ InOrder(p) /\ Above(DOMAIN w \cup sh, p) /\ Rises(Head(s), p)
  BY ExpandInOrder DEF Local
<1>a. s \in Seq(Stmts)
  BY DEF Local
<1>b. /\ p \in Seq(Stmts) /\ Len(p) = Len(q) + Len(s) - 1 /\ DOMAIN p = 1 .. Len(p)
      /\ \A i \in DOMAIN p : p[i] = IF i <= Len(q) THEN q[i] ELSE s[i - Len(q) + 1]
  BY <1>a
<1>c. /\ Len(q) \in Nat /\ Len(s) \in Nat \ {0} /\ Head(s) = s[1] /\ DOMAIN q = 1 .. Len(q)
      /\ DOMAIN s = 1 .. Len(s)
  BY <1>a
<1> HIDE DEF p
<1>d. \A i \in DOMAIN q : i \in DOMAIN p /\ p[i] = q[i]
  BY <1>b, <1>c
<1>e. \A i \in DOMAIN s : i > 1 => i + Len(q) - 1 \in DOMAIN p /\ p[i + Len(q) - 1] = s[i]
  BY <1>b, <1>c
<1>2. /\ s \in Seq(Stmts) /\ Len(q) \in Nat /\ Len(s) \in Nat \ {0} /\ Head(s) = s[1]
      /\ DOMAIN q = 1 .. Len(q) /\ DOMAIN s = 1 .. Len(s)
      /\ DOMAIN p = 1 .. (Len(q) + Len(s) - 1)
      /\ \A i \in DOMAIN p : p[i] = IF i <= Len(q) THEN q[i] ELSE s[i - Len(q) + 1]
  BY <1>a, <1>b, <1>c
<1> HIDE DEF p
<1>3. ASSUME NEW i \in DOMAIN p
      PROVE  Needed(p[i], w) \/ \E j \in DOMAIN p : j < i /\ Provides(p[j], p[i])
  <2>1. CASE i <= Len(q)
    BY <1>2, <1>d, <2>1 DEF Plain, Needed
  <2>2. CASE i > Len(q)
    <3> DEFINE m == i - Len(q) + 1
    <3>1. m \in DOMAIN s /\ m > 1 /\ p[i] = s[m]
      BY <1>2, <2>2
    <3>2. Needed(s[m], w) \/ \E j \in DOMAIN s : j < m /\ Provides(s[j], s[m])
      BY <3>1 DEF Local, Prepared
    <3>3. ASSUME NEW j \in DOMAIN s, j < m, Provides(s[j], s[m])
          PROVE  \E l \in DOMAIN p : l < i /\ Provides(p[l], p[i])
      <4>1. CASE j > 1
        <5>1. j + Len(q) - 1 \in DOMAIN p /\ p[j + Len(q) - 1] = s[j] /\ j + Len(q) - 1 < i
          BY <1>2, <1>e, <3>1, <3>3, <4>1
        <5> QED
          BY <3>1, <3>3, <5>1
      <4>2. CASE j = 1
        <5>1. /\ s[m][1] = "reference" /\ s[1][1] = "pin" /\ s[1][2] = s[m][2]
          BY <1>2, <3>3, <4>2 DEF Provides
        <5>2. PICK l \in DOMAIN q : q[l][1] = "putPin" /\ q[l][2] = s[1][2]
          BY <1>2, <5>1
        <5>3. l \in DOMAIN p /\ p[l] = q[l] /\ l < i
          BY <1>2, <1>d, <2>2, <5>2
        <5>4. Provides(p[l], p[i])
          BY <3>1, <5>1, <5>2, <5>3 DEF Provides
        <5> QED
          BY <5>3, <5>4
      <4> QED
        BY <1>2, <4>1, <4>2
    <3> QED
      BY <3>1, <3>2, <3>3
  <2> QED
    BY <1>2, <2>1, <2>2
<1> QED
  BY <1>1, <1>3 DEF Local, Prepared, p

\* The head of a program is executed: it writes rows of its own ranks.
LEMMA ExecuteLocal ==
  ASSUME NEW s, NEW w, NEW sh, s # <<>>, Local(s, w, sh),
         NEW w2, RowsTyped(w2), DOMAIN w \subseteq DOMAIN w2,
         NEW sh2, sh \subseteq sh2, sh2 \subseteq Table("mp_element"),
         \A k \in (DOMAIN w2 \cup sh2) \ (DOMAIN w \cup sh) :
           /\ Rank(k) <= Top(Head(s))
           /\ Head(s)[1] \in Unranked => k \in OwnRows(Head(s)[2]),
         \A k \in Table("publication") : k \in DOMAIN w /\ w[k] \in Publications =>
           w2[k] \in Publications,
         \A k \in DOMAIN w2 \ DOMAIN w : k[1] = "mp_snapshot" => Mp(k[2]) \in DOMAIN w,
         Head(s)[1] \in {"lock", "tombstone"} => Head(s)[2] \in DOMAIN w2,
         Head(s)[1] # "pin",
         Head(s)[1] = "putPin" => /\ Head(s)[2] \in DOMAIN w2
                                  /\ w2[Head(s)[2]] \in Publications
  PROVE  Local(Tail(s), w2, sh2)
<1> DEFINE p == Tail(s)
<1>1. s \in Seq(Stmts)
  BY DEF Local
<1>2. /\ p \in Seq(Stmts) /\ Len(s) \in Nat \ {0} /\ Head(s) = s[1] /\ s[1] \in Stmts
      /\ DOMAIN s = 1 .. Len(s) /\ DOMAIN p = 1 .. (Len(s) - 1)
      /\ \A i \in DOMAIN p : p[i] = s[i + 1] /\ p[i] \in Stmts
  BY <1>1
<1>3. \A i \in DOMAIN p : i + 1 \in DOMAIN s
  BY <1>2
<1> HIDE DEF p
<1>4. InOrder(p)
  <2> SUFFICES ASSUME NEW i \in DOMAIN p, NEW j \in DOMAIN p, i < j
               PROVE  Precedes(p[i], p[j])
    BY DEF InOrder
  <2>1. i + 1 \in DOMAIN s /\ j + 1 \in DOMAIN s /\ i + 1 < j + 1
    BY <1>2, <1>3
  <2> QED
    BY <1>2, <2>1 DEF Local, InOrder
<1>5. Above(DOMAIN w2 \cup sh2, p)
  <2> SUFFICES ASSUME NEW k \in DOMAIN w2 \cup sh2, NEW i \in DOMAIN p
               PROVE  Below(k, p[i])
    BY DEF Above
  <2>1. i + 1 \in DOMAIN s /\ 1 < i + 1 /\ 1 \in DOMAIN s
    BY <1>2, <1>3
  <2>2. CASE k \in DOMAIN w \cup sh
    BY <1>2, <2>1, <2>2 DEF Local, Above
  <2>3. CASE k \notin DOMAIN w \cup sh
    <3>1. /\ Rank(k) <= Top(s[1]) /\ Precedes(s[1], p[i])
          /\ s[1][1] \in Unranked => k \in OwnRows(s[1][2])
      BY <1>2, <2>1, <2>3 DEF Local, InOrder
    <3>2. Rank(k) \in 0 .. 9 /\ Top(s[1]) \in 0 .. 9 /\ Low(p[i]) \in 0 .. 9
      BY <1>2, RankFacts, RankType
    <3> QED
      BY <3>1, <3>2 DEF Ordered, Precedes, Below
  <2> QED
    BY <2>2, <2>3
<1>6. ASSUME NEW i \in DOMAIN p
      PROVE  Needed(p[i], w2) \/ \E j \in DOMAIN p : j < i /\ Provides(p[j], p[i])
  <2>1. i + 1 \in DOMAIN s /\ p[i] = s[i + 1] /\ p[i] \in Stmts
    BY <1>2, <1>3
  <2>2. Needed(p[i], w) \/ \E j \in DOMAIN s : j < i + 1 /\ Provides(s[j], p[i])
    BY <2>1 DEF Local, Prepared
  <2>3. CASE Needed(p[i], w)
    <3>1. p[i][1] = "reference" => p[i][2] \in Table("publication")
      BY <2>1, StmtFacts
    <3> QED
      BY <2>3, <3>1 DEF Needed
  <2>4. ASSUME NEW j \in DOMAIN s, j < i + 1, Provides(s[j], p[i])
        PROVE  Needed(p[i], w2) \/ \E l \in DOMAIN p : l < i /\ Provides(p[l], p[i])
    <3>1. CASE j = 1
      BY <1>2, <2>4, <3>1 DEF Provides, Needed
    <3>2. CASE j > 1
      <4>1. j - 1 \in DOMAIN p /\ j - 1 < i /\ p[j - 1] = s[j]
        BY <1>2, <2>4, <3>2
      <4> QED
        BY <2>4, <4>1
    <3> QED
      BY <1>2, <3>1, <3>2
  <2> QED
    BY <2>2, <2>3, <2>4
<1>7. \A k \in DOMAIN w2 : k[1] = "mp_snapshot" => Mp(k[2]) \in DOMAIN w2
  BY DEF Local, Prepared
<1> QED
  BY <1>2, <1>4, <1>5, <1>6, <1>7 DEF Local, Prepared, p

\* The case of a statement that writes one row.
LEMMA WriteLocal ==
  ASSUME NEW s, NEW w, NEW sh, s # <<>>, Local(s, w, sh),
         NEW k \in Rows, NEW row \in RowOf(k[1]),
         Low(Head(s)) <= Rank(k), Rank(k) <= Top(Head(s)),
         Head(s)[1] \in Unranked => k \in OwnRows(Head(s)[2]),
         k[1] = "publication" /\ row \notin Publications => k \notin DOMAIN w,
         k[1] = "mp_snapshot" => Mp(k[2]) \in DOMAIN w,
         Head(s)[1] \in {"lock", "tombstone", "putPin"} => Head(s)[2] = k,
         Head(s)[1] # "pin",
         Head(s)[1] = "putPin" => row \in Publications
  PROVE  Local(Tail(s), With(w, k, row), sh)
<1> DEFINE w2 == With(w, k, row)
<1>1. /\ DOMAIN w2 = DOMAIN w \cup {k} /\ w2[k] = row
      /\ \A l \in DOMAIN w : l # k => w2[l] = w[l]
  BY DEF With
<1> HIDE DEF w2
<1>2. RowsTyped(w2) /\ sh \subseteq Table("mp_element")
  BY <1>1 DEF RowsTyped, Local
<1>a. \A l \in Table("publication") : l \in DOMAIN w /\ w[l] \in Publications =>
        w2[l] \in Publications
  BY <1>1 DEF Table
<1>3. Local(Tail(s), w2, sh)
  BY <1>1, <1>2, <1>a, ExecuteLocal
<1> QED
  BY <1>3 DEF w2

\* And of one that writes none.
LEMMA SkipLocal ==
  ASSUME NEW s, NEW w, NEW sh, s # <<>>, Local(s, w, sh),
         Head(s)[1] \notin {"lock", "tombstone", "pin", "putPin"}
  PROVE  Local(Tail(s), w, sh)
<1>1. RowsTyped(w) /\ sh \subseteq Table("mp_element")
  BY DEF Local
<1>2. \A k \in Table("publication") : k \in DOMAIN w /\ w[k] \in Publications =>
        w[k] \in Publications
  OBVIOUS
<1> QED
  BY <1>1, <1>2, ExecuteLocal

-----------------------------------------------------------------------------
(* The invariant of the locks *)

Typed ==
  /\ DOMAIN db = Rows /\ RowsTyped(db)
  /\ open \subseteq Sessions
  /\ begun \in 0 .. MaxTx
  /\ overlapped \in BOOLEAN
  /\ DOMAIN todo = Sessions /\ DOMAIN writes = Sessions /\ DOMAIN shares = Sessions
  /\ \A x \in Sessions \ open : todo[x] = <<>> /\ writes[x] = Empty /\ shares[x] = {}

Locals == \A x \in Sessions : Local(todo[x], writes[x], shares[x])

\* A row is written by one transaction at a time.
Exclusive ==
  \A x, y \in Sessions : x # y => DOMAIN writes[x] \cap DOMAIN writes[y] = {}

LockInv == Typed /\ Locals /\ Exclusive

\* A view has the rows of the database.
LEMMA ViewTyped ==
  ASSUME Typed, Locals, NEW x \in Sessions
  PROVE  DOMAIN View(x) = Rows /\ RowsTyped(View(x))
  BY DEF Typed, Locals, Local, RowsTyped, View

LEMMA RowTypes ==
  ASSUME NEW v, DOMAIN v = Rows, RowsTyped(v)
  PROVE  /\ \A e \in Events :
              /\ v[Mp(e)] \in [series : SeriesIds \cup {NoSeries}, deleted : BOOLEAN]
              /\ \A c \in Channels : v[Publication(e, c)] \in Publications \cup {NoRow}
              /\ v[SearchEvent(e)] \in EventRows \cup {NoRow}
              /\ v[Snapshots(e)] \in (Nat \ {0}) \cup {NoRow}
              /\ v[Policy(e)] \in Entry \cup {NoRow}
              /\ \A el \in Elements : v[Element(e, el)] \in {"row", NoRow}
         /\ \A s \in SeriesIds :
              /\ v[Series(s)] \in [title : Titles, deleted : BOOLEAN]
              /\ v[Policy(s)] \in Entry \cup {NoRow}
              /\ v[SearchSeries(s)] \in SeriesRows \cup {NoRow}
<1>1. \A k \in Rows : v[k] \in RowOf(k[1])
  BY DEF RowsTyped
<1>2. /\ RowOf("mediapackage") = [series : SeriesIds \cup {NoSeries}, deleted : BOOLEAN]
      /\ RowOf("series") = [title : Titles, deleted : BOOLEAN]
      /\ RowOf("acl") = Entry \cup {NoRow}
      /\ RowOf("mp_element") = {"row", NoRow}
      /\ RowOf("mp_snapshot") = (Nat \ {0}) \cup {NoRow}
      /\ RowOf("publication") = Publications \cup {NoRow}
      /\ RowOf("search_event") = EventRows \cup {NoRow}
      /\ RowOf("search_series") = SeriesRows \cup {NoRow}
  BY DEF RowOf, Entry
<1>3. ASSUME NEW t, NEW k \in Table(t)
      PROVE  v[k] \in RowOf(t)
  BY <1>1 DEF Table
<1>4. ASSUME NEW e \in Events
      PROVE  /\ v[Mp(e)] \in RowOf("mediapackage") 
             /\ \A c \in Channels : v[Publication(e, c)] \in RowOf("publication")
             /\ v[SearchEvent(e)] \in RowOf("search_event") /\ v[Snapshots(e)] \in RowOf("mp_snapshot")
             /\ v[Policy(e)] \in RowOf("acl")
             /\ \A el \in Elements : v[Element(e, el)] \in RowOf("mp_element")
  BY <1>3, RowFacts
<1>5. ASSUME NEW s \in SeriesIds
      PROVE  /\ v[Series(s)] \in RowOf("series") /\ v[Policy(s)] \in RowOf("acl")
             /\ v[SearchSeries(s)] \in RowOf("search_series")
  BY <1>3, RowFacts
<1> QED
  BY <1>2, <1>4, <1>5

LEMMA DerivedTypes ==
  ASSUME NEW v, DOMAIN v = Rows, RowsTyped(v)
  PROVE  /\ \A e \in Events : EventRow(v, e) \in EventRows /\ Pin(v, e) \in Pins
         /\ \A s \in SeriesIds : SeriesRow(v, s) \in SeriesRows
<1>1. \A id : /\ AclState(v, id) \in {"ABSENT", "EMPTY", "POPULATED"}
              /\ ReadRoles(v, id) \subseteq Roles /\ WriteRoles(v, id) \subseteq Roles
  BY DEF AclState, ReadRoles, WriteRoles, Allowed
<1>2. ASSUME NEW e \in Events
      PROVE  EventRow(v, e) \in EventRows /\ Pin(v, e) \in Pins
  <2>1. v[Mp(e)].series \in SeriesIds \cup {NoSeries}
    BY RowTypes
  <2>2. v[Mp(e)].series # NoSeries => v[Series(v[Mp(e)].series)].title \in Titles
    BY <2>1, RowTypes
  <2>3. EngagePlayer \in OnChannels(v, e) => v[Publication(e, EngagePlayer)].read \subseteq Roles
    BY RowTypes DEF Exists, Publications, OnChannels, Channels
  <2>4. (OnChannels(v, e) # {}) \in BOOLEAN
    OBVIOUS
  <2> QED
    BY <1>1, <2>1, <2>2, <2>3, <2>4 DEF EventRow, EventRows, Pin, Pins
<1>3. ASSUME NEW s \in SeriesIds
      PROVE  SeriesRow(v, s) \in SeriesRows
  <2>1. v[Series(s)].title \in Titles
    BY RowTypes
  <2>2. \A e \in Published(v, s) : v[SearchEvent(e)].pubRead \subseteq Roles
    BY RowTypes DEF Published, Exists, EventRows
  <2>3. UNION {v[SearchEvent(e)].pubRead : e \in Published(v, s)} \subseteq Roles
    BY <2>2
  <2> QED
    BY <1>1, <2>1, <2>3 DEF SeriesRow, SeriesRows
<1> QED
  BY <1>2, <1>3

-----------------------------------------------------------------------------
(* What a statement does to its transaction, and leaves to the others *)

LEMMA ContinueStep ==
  ASSUME Typed, NEW x \in Sessions, NEW p, Continue(x, p)
  PROVE  /\ DOMAIN todo' = Sessions /\ todo'[x] = p \o Tail(todo[x])
         /\ \A y \in Sessions \ {x} : todo'[y] = todo[y]
  BY DEF Typed, Continue

LEMMA WriteStep ==
  ASSUME Typed, NEW x \in Sessions, NEW k, NEW row, Write(x, k, row)
  PROVE  /\ DOMAIN writes' = Sessions /\ writes'[x] = With(writes[x], k, row)
         /\ \A y \in Sessions \ {x} : writes'[y] = writes[y]
  BY DEF Typed, Write

LEMMA AtHead ==
  ASSUME Typed, Locals, NEW x \in Sessions, NEW op, Next1(x, op)
  PROVE  /\ todo[x] # <<>> /\ todo[x] \in Seq(Stmts) /\ Len(todo[x]) \in Nat \ {0}
         /\ Head(todo[x]) \in Stmts /\ Head(todo[x])[1] = op
         /\ Head(todo[x]) = todo[x][1] /\ 1 \in DOMAIN todo[x]
         /\ Tail(todo[x]) \in Seq(Stmts) /\ <<>> \o Tail(todo[x]) = Tail(todo[x])
         /\ x \in open
<1> DEFINE s == todo[x]
<1>1. s \in Seq(Stmts) /\ s # <<>> /\ Head(s)[1] = op /\ x \in open
  BY DEF Locals, Local, Next1
<1> HIDE DEF s
<1>2. /\ Len(s) \in Nat \ {0} /\ Head(s) = s[1] /\ 1 \in DOMAIN s /\ Head(s) \in Stmts
      /\ Tail(s) \in Seq(Stmts)
  BY <1>1
<1>3. <<>> \o Tail(s) = Tail(s)
  BY <1>2
<1> QED
  BY <1>1, <1>2, <1>3 DEF s

LEMMA KeyFacts ==
  ASSUME Typed, Locals, NEW x \in Sessions, NEW op, Next1(x, op)
  PROVE  LET k == Key(x)
             h == Head(todo[x])
         IN  /\ op = "put" => k \in Rows /\ Val(x) \in RowOf(k[1]) /\ k[1] # "publication"
                              /\ k[1] # "mp_snapshot"
             /\ op = "delete" => k \in Rows /\ NoRow \in RowOf(k[1])
             /\ op = "tombstone" => k \in Table("mediapackage") \cup Table("series")
             /\ op = "setSeries" => /\ k \in Table("mediapackage")
                                    /\ Val(x) \in SeriesIds \cup {NoSeries}
             /\ op = "setTitle" => k \in Table("series") /\ Val(x) \in Titles
             /\ op = "lock" => k \in Table("mediapackage")
             /\ op = "addVersion" => k \in Table("mp_snapshot")
             /\ op \in {"pin", "putPin"} => k \in Table("publication")
             /\ op = "putPin" => Val(x) \in Pins
             /\ op = "reference" => /\ k \in Table("publication")
                                    /\ Val(x) \in (SUBSET Elements) \ {{}}
             /\ op \in Unranked => k \in Events
             /\ op = "tech" => Val(x) \in Elements
             /\ op \in {"projectEvent", "eventRow"} => k \in Events
             /\ op \in {"projectSeries", "seriesRow", "projectMembers", "override"} =>
                  k \in SeriesIds
             /\ op = "override" => Val(x) \in Entry
             /\ op \in Keyed => Low(h) = Rank(k) /\ Top(h) = Rank(k)
<1> DEFINE h == Head(todo[x])
<1>1. h \in Stmts /\ h[1] = op
  BY AtHead
<1>2. op = "put" => h \in Puts
  BY <1>1, StmtFacts
<1>3. op = "delete" => h \in Deletes
  BY <1>1, StmtFacts
<1> HIDE DEF h
<1>4. op = "put" => /\ h[2] \in Rows /\ h[3] \in RowOf(h[2][1]) /\ h[2][1] # "publication"
                    /\ h[2][1] # "mp_snapshot"
  BY <1>2 DEF Puts, Table, RowOf, Entry
<1>5. op = "delete" => h[2] \in Rows /\ NoRow \in RowOf(h[2][1])
  BY <1>3 DEF Deletes, Table, RowOf
<1>6. op \in Keyed => Low(h) = Rank(h[2]) /\ Top(h) = Rank(h[2])
  BY <1>1 DEF Low, Top, Keyed, Unranked
<1> QED
  BY <1>1, <1>4, <1>5, <1>6, StmtFacts DEF Key, Val, Unranked, h

\* The programs a statement expands to: one statement, or two.
LEMMA OneLocal ==
  ASSUME NEW s, NEW w, NEW sh, s # <<>>, Local(s, w, sh), NEW st \in Stmts,
         0 < Low(Head(s)), Low(Head(s)) <= Low(st), Top(st) <= Top(Head(s)),
         st[1] # "reference", st[1] \in {"addVersion", "delete"} => st[2][1] # "mp_snapshot",
         Head(s)[1] \notin {"lock", "tombstone", "putPin"},
         Head(s)[1] = "pin" => st[1] = "putPin" /\ st[2] = Head(s)[2]
  PROVE  Local(<<st>> \o Tail(s), w, sh) /\ Rises(Head(s), <<st>> \o Tail(s))
<1> DEFINE q == <<st>>
<1>1. q \in Seq(Stmts) /\ DOMAIN q = {1} /\ q[1] = st
  OBVIOUS
<1> HIDE DEF q
<1>2. InOrder(q) /\ Within(q, Head(s)) /\ Plain(q)
  BY <1>1 DEF InOrder, Within, Plain
<1>3. Head(s)[1] = "pin" => \E i \in DOMAIN q : q[i][1] = "putPin" /\ q[i][2] = Head(s)[2]
  BY <1>1
<1>4. Local(q \o Tail(s), w, sh) /\ Rises(Head(s), q \o Tail(s))
  BY <1>1, <1>2, <1>3, ExpandLocal
<1> QED
  BY <1>4 DEF q

LEMMA TwoLocal ==
  ASSUME NEW s, NEW w, NEW sh, s # <<>>, Local(s, w, sh), NEW st \in Stmts, NEW st2 \in Stmts,
         0 < Low(Head(s)), Low(Head(s)) <= Low(st), Top(st) <= Top(Head(s)),
         Low(Head(s)) <= Low(st2), Top(st2) <= Top(Head(s)), Ordered(Top(st), Low(st2)),
         st[1] # "reference", st[1] \in {"addVersion", "delete"} => st[2][1] # "mp_snapshot",
         st2[1] # "reference", st2[1] \in {"addVersion", "delete"} => st2[2][1] # "mp_snapshot",
         Head(s)[1] \notin {"lock", "tombstone", "pin", "putPin"}
  PROVE  /\ Local((<<st>> \o <<st2>>) \o Tail(s), w, sh)
         /\ Rises(Head(s), (<<st>> \o <<st2>>) \o Tail(s))
<1> DEFINE q == <<st>> \o <<st2>>
<1>1. q \in Seq(Stmts) /\ DOMAIN q = 1 .. 2 /\ q[1] = st /\ q[2] = st2
  OBVIOUS
<1> HIDE DEF q
<1>2. InOrder(q) /\ Within(q, Head(s)) /\ Plain(q)
  BY <1>1 DEF InOrder, Precedes, Within, Plain
<1>4. Local(q \o Tail(s), w, sh) /\ Rises(Head(s), q \o Tail(s))
  BY <1>1, <1>2, ExpandLocal
<1> QED
  BY <1>4 DEF q

-----------------------------------------------------------------------------
(* The statements of the programs, and their ranks *)

Ranked(st, low, top) == st \in Stmts /\ Low(st) = low /\ Top(st) = top

LEMMA RowRanks ==
  /\ \A e \in Events : /\ Rank(Mp(e)) = 0 /\ Rank(Publication(e, EngagePlayer)) = 1
                       /\ Rank(Publication(e, OtherChannel)) = 2
                       /\ Rank(Element(e, Source)) = 3 /\ Rank(Element(e, Encoded)) = 4
                       /\ Rank(Snapshots(e)) = 5 /\ Rank(Policy(e)) = 7
                       /\ Rank(SearchEvent(e)) = 8
  /\ \A s \in SeriesIds : /\ Rank(Series(s)) = 0 /\ Rank(Policy(s)) = 6
                          /\ Rank(SearchSeries(s)) = 9
  BY ElementAssumption, ChannelAssumption, SeriesAssumption
  DEF Rank, Mp, Publication, Element, Snapshots, Policy, SearchEvent, Series, SearchSeries

LEMMA PutRanks ==
  /\ \A e \in Events, p \in Entry : Ranked(SetTx(e, p), 7, 7)
  /\ \A s \in SeriesIds, p \in Entry : Ranked(SetTx(s, p), 6, 6)
  /\ \A e \in Events, row \in EventRows : Ranked(Stmt("put", SearchEvent(e), row), 8, 8)
  /\ \A s \in SeriesIds, row \in SeriesRows : Ranked(Stmt("put", SearchSeries(s), row), 9, 9)
  /\ \A e \in Events : Ranked(Stmt("put", Element(e, Encoded), "row"), 4, 4)
<1>1. \A k, val : /\ Stmt("put", k, val)[1] = "put"
                  /\ Low(Stmt("put", k, val)) = Rank(k) /\ Top(Stmt("put", k, val)) = Rank(k)
  BY DEF Stmt, Low, Top, Keyed, Unranked
<1>2. \A k, val : Stmt("put", k, val) \in Puts => Stmt("put", k, val) \in Stmts
  BY DEF Stmts
<1>3. /\ \A k \in Table("acl"), p \in Entry : Stmt("put", k, p) \in Puts
      /\ \A k \in Table("search_event"), row \in EventRows : Stmt("put", k, row) \in Puts
      /\ \A k \in Table("search_series"), row \in SeriesRows : Stmt("put", k, row) \in Puts
      /\ \A k \in Table("mp_element") : Stmt("put", k, "row") \in Puts
  BY DEF Puts, Stmt
<1> QED
  BY <1>1, <1>2, <1>3, RowFacts, RowRanks DEF Ranked, SetTx, Elements

LEMMA DeleteRanks ==
  /\ \A e \in Events : /\ Ranked(Stmt("delete", Publication(e, EngagePlayer), NoRow), 1, 1)
                       /\ Ranked(Stmt("delete", Publication(e, OtherChannel), NoRow), 2, 2)
                       /\ Ranked(Stmt("delete", Element(e, Source), NoRow), 3, 3)
                       /\ Ranked(Stmt("delete", Element(e, Encoded), NoRow), 4, 4)
                       /\ Ranked(Stmt("delete", Snapshots(e), NoRow), 5, 5)
                       /\ Ranked(Stmt("delete", SearchEvent(e), NoRow), 8, 8)
  /\ \A s \in SeriesIds : Ranked(Stmt("delete", SearchSeries(s), NoRow), 9, 9)
<1>1. \A k : /\ Low(Stmt("delete", k, NoRow)) = Rank(k) /\ Top(Stmt("delete", k, NoRow)) = Rank(k)
  BY DEF Stmt, Low, Top, Keyed, Unranked
<1>2. \A t \in {"publication", "mp_element", "mp_snapshot", "search_event", "search_series"} :
        \A k \in Table(t) : Stmt("delete", k, NoRow) \in Stmts
  BY DEF Stmts, Deletes, Stmt
<1> QED
  BY <1>1, <1>2, RowFacts, RowRanks DEF Ranked, Elements, Channels

LEMMA UpdateRanks ==
  /\ \A e \in Events :
       /\ Ranked(Stmt("tombstone", Mp(e), NoRow), 0, 0)
       /\ \A s \in SeriesIds \cup {NoSeries} : Ranked(Stmt("setSeries", Mp(e), s), 0, 0)
       /\ Ranked(Stmt("lock", Mp(e), NoRow), 0, 0)
       /\ Ranked(Stmt("addVersion", Snapshots(e), NoRow), 5, 5)
       /\ \A c \in Channels :
            LET k == Publication(e, c)
            IN  /\ Ranked(Stmt("pin", k, NoRow), Rank(k), Rank(k)) /\ Rank(k) \in 1 .. 2
                /\ \A pin \in Pins : Ranked(Stmt("putPin", k, pin), Rank(k), Rank(k))
                /\ \A els \in (SUBSET Elements) \ {{}} : Ranked(Stmt("reference", k, els), 3, 4)
  /\ \A s \in SeriesIds :
       /\ Ranked(Stmt("tombstone", Series(s), NoRow), 0, 0)
       /\ \A t \in Titles : Ranked(Stmt("setTitle", Series(s), t), 0, 0)
<1>1. \A op \in Keyed : \A k, val : /\ Low(Stmt(op, k, val)) = Rank(k)
                                    /\ Top(Stmt(op, k, val)) = Rank(k)
  BY DEF Stmt, Low, Top, Keyed, Unranked
<1>2. {"tombstone", "setSeries", "lock", "addVersion", "pin", "putPin", "setTitle"} \subseteq Keyed
  BY DEF Keyed
<1>3. /\ \A k \in Table("mediapackage") :
           /\ Stmt("tombstone", k, NoRow) \in Updates /\ Stmt("lock", k, NoRow) \in Mutations
           /\ \A s \in SeriesIds \cup {NoSeries} : Stmt("setSeries", k, s) \in Updates
      /\ \A k \in Table("series") :
           /\ Stmt("tombstone", k, NoRow) \in Updates
           /\ \A t \in Titles : Stmt("setTitle", k, t) \in Updates
      /\ \A k \in Table("mp_snapshot") : Stmt("addVersion", k, NoRow) \in Mutations
      /\ \A k \in Table("publication") :
           /\ Stmt("pin", k, NoRow) \in Mutations
           /\ \A pin \in Pins : Stmt("putPin", k, pin) \in Mutations
           /\ \A els \in (SUBSET Elements) \ {{}} : Stmt("reference", k, els) \in Mutations
  BY DEF Updates, Mutations, Stmt
<1>4. Updates \subseteq Stmts /\ Mutations \subseteq Stmts
  BY DEF Stmts
<1>5. \A e, els : Low(Stmt("reference", e, els)) = 3 /\ Top(Stmt("reference", e, els)) = 4
  BY DEF Stmt, Low, Top, Keyed, Unranked
<1> QED
  BY <1>1, <1>2, <1>3, <1>4, <1>5, RowFacts, RowRanks DEF Ranked, Channels

LEMMA InspectionRanks ==
  \A e \in Events :
    /\ \A el \in Elements : Ranked(Stmt("tech", e, el), 0, 4)
    /\ Ranked(Stmt("duration", e, NoRow), 0, 4)
<1>1. \A e \in Events :
        /\ \A el \in Elements : Stmt("tech", e, el) \in Inspections
        /\ Stmt("duration", e, NoRow) \in Inspections
  BY DEF Inspections, Stmt
<1>2. Inspections \subseteq Stmts
  BY DEF Stmts
<1>3. \A e, val : Stmt("tech", e, val)[1] \in Unranked /\ Stmt("duration", e, val)[1] \in Unranked
  BY DEF Stmt, Unranked
<1> QED
  BY <1>1, <1>2, <1>3, AtTheStart DEF Ranked

LEMMA ProjectionRanks ==
  /\ \A e \in Events : Ranked(ProjectEvent(e), 8, 9) /\ Ranked(Stmt("eventRow", e, NoRow), 8, 8)
  /\ \A s \in SeriesIds : /\ Ranked(ProjectSeries(s), 8, 9)
                          /\ Ranked(Stmt("projectSeries", s, NoRow), 9, 9)
                          /\ Ranked(Stmt("seriesRow", s, NoRow), 9, 9)
                          /\ \A p \in Entry : Ranked(Stmt("override", s, p), 7, 7)
<1>1. /\ \A e \in Events : /\ Stmt("projectEvent", e, NoRow) \in Projections
                           /\ Stmt("eventRow", e, NoRow) \in Projections
      /\ \A s \in SeriesIds : /\ Stmt("projectSeries", s, NoRow) \in Projections
                              /\ Stmt("seriesRow", s, NoRow) \in Projections
                              /\ Stmt("projectMembers", s, NoRow) \in Projections
                              /\ \A p \in Entry : Stmt("override", s, p) \in Projections
  BY DEF Projections, Stmt
<1>2. Projections \subseteq Stmts
  BY DEF Stmts
<1>3. \A k, val :
        /\ Low(Stmt("projectEvent", k, val)) = 8 /\ Top(Stmt("projectEvent", k, val)) = 9
        /\ Low(Stmt("eventRow", k, val)) = 8 /\ Top(Stmt("eventRow", k, val)) = 8
        /\ Low(Stmt("projectMembers", k, val)) = 8 /\ Top(Stmt("projectMembers", k, val)) = 9
        /\ Low(Stmt("projectSeries", k, val)) = 9 /\ Top(Stmt("projectSeries", k, val)) = 9
        /\ Low(Stmt("seriesRow", k, val)) = 9 /\ Top(Stmt("seriesRow", k, val)) = 9
        /\ Low(Stmt("override", k, val)) = 7 /\ Top(Stmt("override", k, val)) = 7
  BY DEF Stmt, Low, Top, Keyed, Unranked
<1> QED
  BY <1>1, <1>2, <1>3 DEF Ranked, ProjectEvent, ProjectSeries

-----------------------------------------------------------------------------
(* A statement keeps the invariant of its transaction *)

Effect(x) ==
  /\ DOMAIN todo' = Sessions /\ DOMAIN writes' = Sessions /\ DOMAIN shares' = Sessions
  /\ \A y \in Sessions \ {x} : /\ todo'[y] = todo[y] /\ writes'[y] = writes[y]
                               /\ shares'[y] = shares[y]
  /\ Local(todo'[x], writes'[x], shares'[x])
  /\ Rises(Head(todo[x]), todo'[x])
  /\ \A k \in DOMAIN writes'[x] \ DOMAIN writes[x] : ~Locked(x, k)
  /\ x \in open

LEMMA WriteEffect ==
  ASSUME Typed, Locals, NEW x \in Sessions, NEW op, Next1(x, op),
         NEW k \in Rows, NEW row \in RowOf(k[1]), ~Locked(x, k), Write(x, k, row),
         Continue(x, <<>>), UNCHANGED shares,
         op \in Keyed, k = Key(x), op # "pin",
         k[1] = "publication" /\ row \notin Publications => op = "delete",
         k[1] = "mp_snapshot" => op \in {"addVersion", "delete"},
         op = "putPin" => row \in Publications
  PROVE  Effect(x)
<1> DEFINE h == Head(todo[x])
<1>1. /\ todo[x] # <<>> /\ h[1] = op /\ h = todo[x][1] /\ 1 \in DOMAIN todo[x] /\ h[2] = k
      /\ <<>> \o Tail(todo[x]) = Tail(todo[x]) /\ x \in open /\ h \in Stmts
  BY AtHead DEF Key
<1>2. Low(h) = Rank(k) /\ Top(h) = Rank(k)
  BY KeyFacts
<1>3. Local(todo[x], writes[x], shares[x])
  BY DEF Locals
<1> HIDE DEF h
<1>4. k[1] = "publication" /\ row \notin Publications => k \notin DOMAIN writes[x]
  <2> SUFFICES ASSUME k[1] = "publication", k \in DOMAIN writes[x]
               PROVE  FALSE
    OBVIOUS
  <2>1. Rank(k) \in 1 .. 2
    BY DEF Rank
  <2>2. Ordered(Rank(k), Low(h))
    BY <1>1, <1>3 DEF Local, Above, Below, Keyed, Unranked
  <2> QED
    BY <1>2, <2>1, <2>2 DEF Ordered
<1>5. k[1] = "mp_snapshot" => Mp(k[2]) \in DOMAIN writes[x]
  <2>1. Needed(h, writes[x])
    BY <1>1, <1>3 DEF Local, Prepared
  <2> QED
    BY <1>1, <2>1 DEF Needed
<1>6. Rank(k) \in 0 .. 9
  BY RankType
<1>7. Local(Tail(todo[x]), With(writes[x], k, row), shares[x])
  BY <1>1, <1>2, <1>3, <1>4, <1>5, <1>6, WriteLocal DEF h, Keyed, Unranked
<1>8. /\ DOMAIN todo' = Sessions /\ todo'[x] = Tail(todo[x])
      /\ \A y \in Sessions \ {x} : todo'[y] = todo[y]
  BY <1>1, ContinueStep
<1>9. /\ DOMAIN writes' = Sessions /\ writes'[x] = With(writes[x], k, row)
      /\ \A y \in Sessions \ {x} : writes'[y] = writes[y]
  BY WriteStep
<1>10. DOMAIN With(writes[x], k, row) = DOMAIN writes[x] \cup {k}
  BY DEF With
<1>11. Rises(h, Tail(todo[x]))
  BY <1>1, <1>3, TailRises DEF Local, h
<1> QED
  BY <1>1, <1>7, <1>8, <1>9, <1>10, <1>11 DEF Effect, Typed, h

LEMMA SkipEffect ==
  ASSUME Typed, Locals, NEW x \in Sessions, NEW op, Next1(x, op),
         op \notin {"lock", "tombstone", "pin", "putPin"},
         Continue(x, <<>>), UNCHANGED <<writes, shares>>
  PROVE  Effect(x)
<1>1. /\ todo[x] # <<>> /\ Head(todo[x])[1] = op /\ x \in open
      /\ <<>> \o Tail(todo[x]) = Tail(todo[x])
  BY AtHead
<1>2. Local(Tail(todo[x]), writes[x], shares[x])
  BY <1>1, SkipLocal DEF Locals
<1>3. /\ DOMAIN todo' = Sessions /\ todo'[x] = Tail(todo[x])
      /\ \A y \in Sessions \ {x} : todo'[y] = todo[y]
  BY <1>1, ContinueStep
<1>4. Rises(Head(todo[x]), Tail(todo[x]))
  BY <1>1, TailRises DEF Locals, Local
<1> QED
  BY <1>1, <1>2, <1>3, <1>4 DEF Effect, Typed

LEMMA ReadEffect ==
  ASSUME Typed, Locals, NEW x \in Sessions, NEW op, Next1(x, op),
         NEW p, Continue(x, p), UNCHANGED <<writes, shares>>,
         Local(p \o Tail(todo[x]), writes[x], shares[x]),
         Rises(Head(todo[x]), p \o Tail(todo[x]))
  PROVE  Effect(x)
<1>1. x \in open
  BY AtHead
<1>2. /\ DOMAIN todo' = Sessions /\ todo'[x] = p \o Tail(todo[x])
      /\ \A y \in Sessions \ {x} : todo'[y] = todo[y]
  BY ContinueStep
<1> QED
  BY <1>1, <1>2 DEF Effect, Typed

\* An order of a set lists all of it.
LEMMA OrderFacts ==
  ASSUME NEW S, S \subseteq Events, NEW order \in SetToSeqs(S)
  PROVE  /\ order \in Seq(S) /\ Len(order) \in Nat /\ DOMAIN order = 1 .. Len(order)
         /\ \A e \in S : \E i \in DOMAIN order : order[i] = e
<1>1. IsFiniteSet(S) /\ Cardinality(S) \in Nat
  BY EventsAssumption, FS_Subset, FS_CardinalityType
<1> DEFINE D == 1 .. Cardinality(S)
<1>2. order \in [D -> S] /\ \A i, j \in D : i # j => order[i] # order[j]
  BY DEF SetToSeqs
<1>3. order \in Injection(D, S)
  BY <1>2 DEF Injection, IsInjective
<1>4. IsFiniteSet(D) /\ Cardinality(D) = Cardinality(S)
  BY <1>1, FS_Interval
<1>5. order \in Surjection(D, S)
  BY <1>1, <1>3, <1>4, FS_Injection
<1>6. \A e \in S : \E i \in D : order[i] = e
  BY <1>5 DEF Surjection
<1>7. order \in Seq(S) /\ Len(order) = Cardinality(S) /\ DOMAIN order = D
  BY <1>1, <1>2
<1> QED
  BY <1>1, <1>6, <1>7

LEMMA UpdatedRows ==
  /\ \A row \in RowOf("mediapackage") :
       /\ [row EXCEPT !.deleted = TRUE] \in RowOf("mediapackage")
       /\ \A s \in SeriesIds \cup {NoSeries} :
            [row EXCEPT !.series = s] \in RowOf("mediapackage")
  /\ \A row \in RowOf("series") :
       /\ [row EXCEPT !.deleted = TRUE] \in RowOf("series")
       /\ \A t \in Titles : [row EXCEPT !.title = t] \in RowOf("series")
<1>1. /\ RowOf("mediapackage") = [series : SeriesIds \cup {NoSeries}, deleted : BOOLEAN]
      /\ RowOf("series") = [title : Titles, deleted : BOOLEAN]
  BY DEF RowOf
<1>2. ASSUME NEW row \in [series : SeriesIds \cup {NoSeries}, deleted : BOOLEAN]
      PROVE  [row EXCEPT !.deleted = TRUE] \in [series : SeriesIds \cup {NoSeries}, deleted : BOOLEAN]
  OBVIOUS
<1>3. ASSUME NEW row \in [series : SeriesIds \cup {NoSeries}, deleted : BOOLEAN],
             NEW s \in SeriesIds \cup {NoSeries}
      PROVE  [row EXCEPT !.series = s] \in [series : SeriesIds \cup {NoSeries}, deleted : BOOLEAN]
  OBVIOUS
<1>4. ASSUME NEW row \in [title : Titles, deleted : BOOLEAN]
      PROVE  [row EXCEPT !.deleted = TRUE] \in [title : Titles, deleted : BOOLEAN]
  OBVIOUS
<1>5. ASSUME NEW row \in [title : Titles, deleted : BOOLEAN], NEW t \in Titles
      PROVE  [row EXCEPT !.title = t] \in [title : Titles, deleted : BOOLEAN]
  OBVIOUS
<1> QED
  BY <1>1, <1>2, <1>3, <1>4, <1>5

LEMMA WritesOneRow ==
  ASSUME Typed, Locals, NEW x \in Sessions, Put(x) \/ Delete(x) \/ Tombstone(x) \/ SetSeries(x)
         \/ SetTitle(x) \/ LockRow(x) \/ AddVersion(x) \/ PutPin(x)
  PROVE  Effect(x)
<1> DEFINE k == Key(x)
           v == View(x)
<1>1. DOMAIN v = Rows /\ RowsTyped(v)
  BY ViewTyped
<1>2. \A l \in Rows : v[l] \in RowOf(l[1])
  BY <1>1 DEF RowsTyped
<1>3. /\ RowOf("mediapackage") = [series : SeriesIds \cup {NoSeries}, deleted : BOOLEAN]
      /\ RowOf("series") = [title : Titles, deleted : BOOLEAN]
      /\ RowOf("mp_snapshot") = (Nat \ {0}) \cup {NoRow}
      /\ RowOf("publication") = Publications \cup {NoRow}
  BY DEF RowOf
<1>4. /\ \A l \in Table("mediapackage") : l \in Rows /\ l[1] = "mediapackage"
      /\ \A l \in Table("series") : l \in Rows /\ l[1] = "series"
      /\ \A l \in Table("mp_snapshot") : l \in Rows /\ l[1] = "mp_snapshot"
      /\ \A l \in Table("publication") : l \in Rows /\ l[1] = "publication"
  BY DEF Table
<1> HIDE DEF v
<1>5. ASSUME Put(x) PROVE Effect(x)
  <2>1. Next1(x, "put") /\ ~Locked(x, k) /\ Write(x, k, Val(x)) /\ Continue(x, <<>>) /\ UNCHANGED shares
    BY <1>5 DEF Put
  <2>2. k \in Rows /\ Val(x) \in RowOf(k[1]) /\ k[1] # "publication" /\ k[1] # "mp_snapshot"
    BY <2>1, KeyFacts
  <2> QED
    BY <2>1, <2>2, WriteEffect DEF Keyed
<1>6. ASSUME Delete(x) PROVE Effect(x)
  <2>1. Next1(x, "delete") /\ Continue(x, <<>>) /\ UNCHANGED shares
    BY <1>6 DEF Delete
  <2>2. k \in Rows /\ NoRow \in RowOf(k[1])
    BY <2>1, KeyFacts
  <2>3. CASE UNCHANGED writes
    BY <2>1, <2>3, SkipEffect
  <2>4. CASE ~Locked(x, k) /\ Write(x, k, NoRow)
    BY <2>1, <2>2, <2>4, WriteEffect DEF Keyed
  <2> QED
    BY <1>6, <2>3, <2>4 DEF Delete
<1>7. ASSUME SetSeries(x) PROVE Effect(x)
  <2>1. Next1(x, "setSeries") /\ ~Locked(x, k) /\ Continue(x, <<>>) /\ UNCHANGED shares
    BY <1>7 DEF SetSeries
  <2>2. k \in Rows /\ k[1] = "mediapackage" /\ Val(x) \in SeriesIds \cup {NoSeries}
    BY <1>4, <2>1, KeyFacts
  <2>3. CASE UNCHANGED writes
    BY <2>1, <2>3, SkipEffect
  <2>4. CASE Write(x, k, [v[k] EXCEPT !.series = Val(x)])
    <3>1. [v[k] EXCEPT !.series = Val(x)] \in RowOf(k[1])
      BY <1>2, <2>2, UpdatedRows
    <3> QED
      BY <2>1, <2>2, <2>4, <3>1, WriteEffect DEF Keyed
  <2> QED
    BY <1>7, <2>3, <2>4 DEF SetSeries, v
<1>8. ASSUME SetTitle(x) PROVE Effect(x)
  <2>1. /\ Next1(x, "setTitle") /\ ~Locked(x, k) /\ Continue(x, <<>>) /\ UNCHANGED shares
        /\ Write(x, k, [v[k] EXCEPT !.title = Val(x)])
    BY <1>8 DEF SetTitle, v
  <2>2. k \in Rows /\ k[1] = "series" /\ Val(x) \in Titles
    BY <1>4, <2>1, KeyFacts
  <2>3. [v[k] EXCEPT !.title = Val(x)] \in RowOf(k[1])
    BY <1>2, <2>2, UpdatedRows
  <2> QED
    BY <2>1, <2>2, <2>3, WriteEffect DEF Keyed
<1>9. ASSUME LockRow(x) PROVE Effect(x)
  <2>1. /\ Next1(x, "lock") /\ ~Locked(x, k) /\ Continue(x, <<>>) /\ UNCHANGED shares
        /\ Write(x, k, v[k])
    BY <1>9 DEF LockRow, v
  <2>2. k \in Rows /\ k[1] = "mediapackage" /\ v[k] \in RowOf(k[1])
    BY <1>2, <1>4, <2>1, KeyFacts
  <2> QED
    BY <2>1, <2>2, WriteEffect DEF Keyed
<1>10. ASSUME AddVersion(x) PROVE Effect(x)
  <2> DEFINE last == IF Exists(v, k) THEN v[k] ELSE 0
  <2>1. /\ Next1(x, "addVersion") /\ ~Locked(x, k) /\ Continue(x, <<>>) /\ UNCHANGED shares
        /\ Write(x, k, last + 1)
    BY <1>10 DEF AddVersion, v
  <2>2. k \in Rows /\ k[1] = "mp_snapshot"
    BY <1>4, <2>1, KeyFacts
  <2>3. last + 1 \in RowOf(k[1])
    <3>1. v[k] \in (Nat \ {0}) \cup {NoRow}
      BY <1>2, <1>3, <2>2
    <3>2. last \in Nat
      BY <3>1 DEF Exists
    <3> QED
      BY <1>3, <2>2, <3>2
  <2> QED
    BY <2>1, <2>2, <2>3, WriteEffect DEF Keyed
<1>11. ASSUME PutPin(x) PROVE Effect(x)
  <2> DEFINE old == IF Exists(v, k) THEN v[k].elements ELSE {}
             row == [state |-> Val(x).state, read |-> Val(x).read, elements |-> old]
  <2>1. /\ Next1(x, "putPin") /\ ~Locked(x, k) /\ Continue(x, <<>>) /\ UNCHANGED shares
        /\ Write(x, k, row)
    BY <1>11 DEF PutPin, v
  <2>2. k \in Rows /\ k[1] = "publication" /\ Val(x) \in Pins
    BY <1>4, <2>1, KeyFacts
  <2>3. old \subseteq Elements
    BY <1>2, <1>3, <2>2 DEF Exists, Publications
  <2>4. row \in Publications /\ row \in RowOf(k[1])
    BY <1>3, <2>2, <2>3 DEF Pins, Publications
  <2> HIDE DEF row
  <2> QED
    BY <2>1, <2>2, <2>4, WriteEffect DEF Keyed
<1>12. ASSUME Tombstone(x) PROVE Effect(x)
  <2>1. Next1(x, "tombstone") /\ ~Locked(x, k) /\ UNCHANGED shares
    BY <1>12 DEF Tombstone
  <2>2. k \in Rows /\ k[1] \in {"mediapackage", "series"}
    BY <1>4, <2>1, KeyFacts
  <2>3. CASE /\ Write(x, k, [v[k] EXCEPT !.deleted = TRUE])
             /\ Continue(x, <<>>)
    <3>1. [v[k] EXCEPT !.deleted = TRUE] \in RowOf(k[1])
      BY <1>2, <2>2, UpdatedRows
    <3> QED
      BY <2>1, <2>2, <2>3, <3>1, WriteEffect DEF Keyed
  <2>4. CASE todo' = [todo EXCEPT ![x] = <<>>] /\ UNCHANGED writes
    <3>1. Local(todo[x], writes[x], shares[x]) /\ x \in open
      BY <2>1, AtHead DEF Locals
    <3>2. Local(<<>>, writes[x], shares[x])
      BY <3>1 DEF Local, InOrder, Above, Prepared
    <3>3. Rises(Head(todo[x]), <<>>)
      BY DEF Rises
    <3> QED
      BY <2>1, <2>4, <3>1, <3>2, <3>3 DEF Effect, Typed
  <2> QED
    BY <1>12, <2>3, <2>4 DEF Tombstone, v
<1> QED
  BY <1>5, <1>6, <1>7, <1>8, <1>9, <1>10, <1>11, <1>12

LEMMA ReferenceStep ==
  ASSUME Typed, Locals, NEW x \in Sessions, Reference(x)
  PROVE  LET k == Key(x)
         IN  /\ k \in Table("publication") /\ k[2][1] \in Events /\ Val(x) \in (SUBSET Elements) \ {{}}
             /\ k \in DOMAIN writes[x] /\ k \in Rows /\ writes[x][k] \in Publications
             /\ View(x)[k] = writes[x][k]
             /\ [View(x)[k] EXCEPT !.elements = Val(x)] \in Publications
<1> DEFINE k == Key(x)
<1>1. Next1(x, "reference")
  BY DEF Reference
<1>2. k \in Table("publication") /\ Val(x) \in (SUBSET Elements) \ {{}}
  BY <1>1, KeyFacts
<1>3. k \in Rows /\ k[2][1] \in Events
  BY <1>2, RowFacts DEF Table
<1>4. Needed(Head(todo[x]), writes[x])
  <2>1. Head(todo[x]) = todo[x][1] /\ 1 \in DOMAIN todo[x] /\ DOMAIN todo[x] = 1 .. Len(todo[x])
    BY <1>1, AtHead
  <2>2. Prepared(todo[x], writes[x])
    BY DEF Locals, Local
  <2> QED
    BY <2>1, <2>2 DEF Prepared
<1>5. k \in DOMAIN writes[x] /\ writes[x][k] \in Publications
  BY <1>1, <1>4 DEF Needed, Next1, Key
<1>6. View(x)[k] = writes[x][k]
  BY <1>3, <1>5 DEF View
<1>7. ASSUME NEW row \in Publications, NEW els \in SUBSET Elements
      PROVE  [row EXCEPT !.elements = els] \in Publications
  BY DEF Publications
<1> QED
  BY <1>2, <1>3, <1>5, <1>6, <1>7

LEMMA ReferenceEffect ==
  ASSUME Typed, Locals, NEW x \in Sessions, Reference(x)
  PROVE  Effect(x)
<1> DEFINE k == Key(x)
           e == k[2][1]
           row == [View(x)[k] EXCEPT !.elements = Val(x)]
           keys == {Element(e, el) : el \in Val(x)}
           w2 == With(writes[x], k, row)
           sh2 == shares[x] \cup keys
<1>1. /\ Next1(x, "reference") /\ Write(x, k, row) /\ shares' = [shares EXCEPT ![x] = sh2]
      /\ Continue(x, <<>>)
  BY DEF Reference
<1>2. /\ e \in Events /\ Val(x) \in (SUBSET Elements) \ {{}}
      /\ k \in DOMAIN writes[x] /\ k \in Rows /\ row \in Publications
      /\ k \in Table("publication")
  BY ReferenceStep
<1>3. /\ todo[x] # <<>> /\ Head(todo[x])[1] = "reference" /\ x \in open
      /\ <<>> \o Tail(todo[x]) = Tail(todo[x])
  BY <1>1, AtHead
<1>4. Local(todo[x], writes[x], shares[x])
  BY DEF Locals
<1>5. keys \subseteq Table("mp_element") /\ \A l \in keys : Rank(l) <= 4
  <2>1. \A el \in Elements : Rank(Element(e, el)) <= 4
    BY <1>2, RowRanks DEF Elements
  <2> QED
    BY <1>2, <2>1, RowFacts
<1>6. Top(Head(todo[x])) = 4
  BY <1>3 DEF Top, Keyed, Unranked
<1>7. /\ DOMAIN w2 = DOMAIN writes[x] /\ w2[k] = row
      /\ \A l \in DOMAIN w2 : l # k => w2[l] = writes[x][l]
  BY <1>2 DEF With
<1> HIDE DEF row, keys, w2
<1>8. RowsTyped(w2)
  <2>1. k[1] = "publication"
    BY <1>2 DEF Table
  <2>2. row \in RowOf("publication")
    BY <1>2 DEF RowOf
  <2> QED
    BY <1>2, <1>4, <1>7, <2>1, <2>2 DEF RowsTyped, Local
<1>9. Local(Tail(todo[x]), w2, sh2)
  <2>1. sh2 \subseteq Table("mp_element") /\ shares[x] \subseteq sh2
    BY <1>4, <1>5 DEF Local
  <2>2. \A l \in (DOMAIN w2 \cup sh2) \ (DOMAIN writes[x] \cup shares[x]) :
          Rank(l) <= Top(Head(todo[x]))
    BY <1>5, <1>6, <1>7
  <2>3. \A l \in Table("publication") :
          l \in DOMAIN writes[x] /\ writes[x][l] \in Publications => w2[l] \in Publications
    BY <1>2, <1>7
  <2> HIDE DEF sh2
  <2> QED
    BY <1>3, <1>4, <1>7, <1>8, <2>1, <2>2, <2>3, ExecuteLocal DEF Unranked
<1>10. /\ DOMAIN writes' = Sessions /\ writes'[x] = w2
       /\ \A y \in Sessions \ {x} : writes'[y] = writes[y]
  BY <1>1, WriteStep DEF w2
<1>11. /\ DOMAIN todo' = Sessions /\ todo'[x] = Tail(todo[x])
       /\ \A y \in Sessions \ {x} : todo'[y] = todo[y]
  BY <1>1, <1>3, ContinueStep
<1>12. /\ DOMAIN shares' = Sessions /\ shares'[x] = sh2
       /\ \A y \in Sessions \ {x} : shares'[y] = shares[y]
  BY <1>1 DEF Typed
<1>13. Rises(Head(todo[x]), Tail(todo[x]))
  BY <1>3, <1>4, TailRises DEF Local
<1> QED
  BY <1>3, <1>7, <1>9, <1>10, <1>11, <1>12, <1>13 DEF Effect

\* The statements of an inspection, which lock rows of its event alone.
LEMMA InspectEffect ==
  ASSUME Typed, Locals, NEW x \in Sessions, UpdateTech(x) \/ UpdateDuration(x)
  PROVE  Effect(x)
<1> DEFINE h == Head(todo[x])
<1>1. PICK op \in Unranked : /\ Next1(x, op) /\ Continue(x, <<>>) /\ UNCHANGED shares
  BY DEF UpdateTech, UpdateDuration, Unranked
<1>2. /\ Key(x) \in Events /\ (op = "tech" => Val(x) \in Elements)
  BY <1>1, KeyFacts
<1>3. /\ todo[x] # <<>> /\ h[1] = op /\ h[2] = Key(x) /\ x \in open
      /\ <<>> \o Tail(todo[x]) = Tail(todo[x])
  BY <1>1, AtHead DEF Key
<1>4. CASE UNCHANGED writes
  BY <1>1, <1>4, SkipEffect DEF Unranked
<1>5. ASSUME NEW k \in OwnRows(Key(x)), ~Locked(x, k), Write(x, k, View(x)[k])
      PROVE  Effect(x)
  <2> DEFINE row == View(x)[k]
  <2>1. k \in Rows /\ k[1] \in {"mediapackage", "mp_element"} /\ Rank(k) <= 4 /\ 0 <= Rank(k)
    <3>1. k \in Table("mediapackage") \cup Table("mp_element")
      BY <1>2, <1>5, RowFacts DEF OwnRows
    <3>2. k \in Rows /\ k[1] \in {"mediapackage", "mp_element"}
      BY <3>1 DEF Table
    <3> QED
      BY <3>2 DEF Rank
  <2>2. row \in RowOf(k[1])
    BY <2>1, ViewTyped DEF RowsTyped
  <2> HIDE DEF row
  <2>3. Low(h) = 0 /\ Top(h) = 4
    BY <1>3, AtTheStart
  <2>4. Local(Tail(todo[x]), With(writes[x], k, row), shares[x])
    BY <1>3, <1>5, <2>1, <2>2, <2>3, WriteLocal DEF Locals, Unranked
  <2>5. /\ DOMAIN todo' = Sessions /\ todo'[x] = Tail(todo[x])
        /\ \A y \in Sessions \ {x} : todo'[y] = todo[y]
    BY <1>1, <1>3, ContinueStep
  <2>6. /\ DOMAIN writes' = Sessions /\ writes'[x] = With(writes[x], k, row)
        /\ \A y \in Sessions \ {x} : writes'[y] = writes[y]
    BY <1>5, WriteStep DEF row
  <2>7. DOMAIN With(writes[x], k, row) = DOMAIN writes[x] \cup {k}
    BY DEF With
  <2>8. Rises(h, Tail(todo[x]))
    BY <1>3, TailRises DEF Locals, Local
  <2> QED
    BY <1>1, <1>3, <1>5, <2>4, <2>5, <2>6, <2>7, <2>8 DEF Effect, Typed
<1>6. CASE UpdateTech(x)
  <2>1. op = "tech" /\ (UNCHANGED writes \/ \E k \in OwnRows(Key(x)) :
                                              ~Locked(x, k) /\ Write(x, k, View(x)[k]))
    <3>1. op = "tech"
      BY <1>1, <1>6 DEF UpdateTech, Next1
    <3>2. Element(Key(x), Val(x)) \in OwnRows(Key(x))
      BY <1>2, <3>1 DEF OwnRows
    <3> QED
      BY <1>6, <3>1, <3>2 DEF UpdateTech
  <2> QED
    BY <1>4, <1>5, <2>1
<1>7. CASE UpdateDuration(x)
  <2>1. Mp(Key(x)) \in OwnRows(Key(x))
    BY DEF OwnRows
  <2> QED
    BY <1>4, <1>5, <1>7, <2>1 DEF UpdateDuration
<1> QED
  BY <1>6, <1>7

LEMMA ReadsRows ==
  ASSUME Typed, Locals, NEW x \in Sessions,
         ComputePin(x) \/ ReadEvent(x) \/ ComputeEventRow(x) \/ ReadSeries(x)
         \/ ComputeSeriesRow(x)
  PROVE  Effect(x)
<1> DEFINE k == Key(x)
           h == Head(todo[x])
           v == View(x)
<1>1. DOMAIN v = Rows /\ RowsTyped(v)
  BY ViewTyped
<1>2. Local(todo[x], writes[x], shares[x])
  BY DEF Locals
<1>3. ASSUME NEW op, Next1(x, op)
      PROVE  todo[x] # <<>> /\ h \in Stmts /\ h[1] = op
  BY <1>3, AtHead
<1> HIDE DEF v
<1>4. ASSUME ComputePin(x) PROVE Effect(x)
  <2> DEFINE e == k[2][1]
             st == Stmt("putPin", k, Pin(v, e))
  <2>1. Next1(x, "pin") /\ Continue(x, <<st>>) /\ UNCHANGED <<writes, shares>>
    BY <1>4 DEF ComputePin, v
  <2>2. k \in Table("publication") /\ Low(h) = Rank(k) /\ Top(h) = Rank(k)
    BY <2>1, KeyFacts DEF Keyed
  <2>3. e \in Events /\ k[2][2] \in Channels /\ k = Publication(e, k[2][2])
    BY <2>2, RowFacts DEF Table
  <2>4. Ranked(st, Rank(k), Rank(k)) /\ Rank(k) \in 1 .. 2
    BY <1>1, <2>3, UpdateRanks, DerivedTypes
  <2>5. st[1] = "putPin" /\ st[2] = k
    BY DEF Stmt
  <2>6. h[2] = k
    BY DEF Key
  <2> HIDE DEF st, h, k
  <2>7. /\ Local(<<st>> \o Tail(todo[x]), writes[x], shares[x])
        /\ Rises(Head(todo[x]), <<st>> \o Tail(todo[x]))
    BY <1>2, <1>3, <2>1, <2>2, <2>4, <2>5, <2>6, OneLocal DEF Ranked, h
  <2> QED
    BY <2>1, <2>7, ReadEffect
<1>5. ASSUME ComputeEventRow(x) PROVE Effect(x)
  <2> DEFINE st == Stmt("put", SearchEvent(k), EventRow(v, k))
  <2>1. Next1(x, "eventRow") /\ Continue(x, <<st>>) /\ UNCHANGED <<writes, shares>>
    BY <1>5 DEF ComputeEventRow, v
  <2>2. k \in Events
    BY <2>1, KeyFacts
  <2>3. Ranked(st, 8, 8) /\ st[1] = "put"
    BY <1>1, <2>2, PutRanks, DerivedTypes DEF Stmt
  <2>4. Low(h) = 8 /\ Top(h) = 8
    BY <1>3, <2>1 DEF Low, Top, Keyed, Unranked
  <2> HIDE DEF st, h, k
  <2>5. /\ Local(<<st>> \o Tail(todo[x]), writes[x], shares[x])
        /\ Rises(Head(todo[x]), <<st>> \o Tail(todo[x]))
    BY <1>2, <1>3, <2>1, <2>3, <2>4, OneLocal DEF Ranked, h
  <2> QED
    BY <2>1, <2>5, ReadEffect
<1>6. ASSUME ReadSeries(x) PROVE Effect(x)
  <2> DEFINE st == IF v[Series(k)].deleted THEN Stmt("delete", SearchSeries(k), NoRow)
                   ELSE Stmt("seriesRow", k, NoRow)
  <2>1. Next1(x, "projectSeries") /\ Continue(x, <<st>>) /\ UNCHANGED <<writes, shares>>
    BY <1>6 DEF ReadSeries, v
  <2>2. k \in SeriesIds
    BY <2>1, KeyFacts
  <2>3. Ranked(st, 9, 9)
    BY <2>2, DeleteRanks, ProjectionRanks
  <2>4. st[1] # "reference" /\ (st[1] \in {"addVersion", "delete"} => st[2][1] # "mp_snapshot")
    BY DEF Stmt, SearchSeries
  <2>5. Low(h) = 9 /\ Top(h) = 9
    BY <1>3, <2>1 DEF Low, Top, Keyed, Unranked
  <2> HIDE DEF st, h, k
  <2>6. /\ Local(<<st>> \o Tail(todo[x]), writes[x], shares[x])
        /\ Rises(Head(todo[x]), <<st>> \o Tail(todo[x]))
    BY <1>2, <1>3, <2>1, <2>3, <2>4, <2>5, OneLocal DEF Ranked, h
  <2> QED
    BY <2>1, <2>6, ReadEffect
<1>7. ASSUME ComputeSeriesRow(x) PROVE Effect(x)
  <2> DEFINE st == Stmt("put", SearchSeries(k), SeriesRow(v, k))
  <2>1. Next1(x, "seriesRow") /\ Continue(x, <<st>>) /\ UNCHANGED <<writes, shares>>
    BY <1>7 DEF ComputeSeriesRow, v
  <2>2. k \in SeriesIds
    BY <2>1, KeyFacts
  <2>3. Ranked(st, 9, 9) /\ st[1] = "put"
    BY <1>1, <2>2, PutRanks, DerivedTypes DEF Stmt
  <2>4. Low(h) = 9 /\ Top(h) = 9
    BY <1>3, <2>1 DEF Low, Top, Keyed, Unranked
  <2> HIDE DEF st, h, k
  <2>5. /\ Local(<<st>> \o Tail(todo[x]), writes[x], shares[x])
        /\ Rises(Head(todo[x]), <<st>> \o Tail(todo[x]))
    BY <1>2, <1>3, <2>1, <2>3, <2>4, OneLocal DEF Ranked, h
  <2> QED
    BY <2>1, <2>5, ReadEffect
<1>8. ASSUME ReadEvent(x) PROVE Effect(x)
  <2> DEFINE row == v[Mp(k)]
             st == IF row.deleted THEN Stmt("delete", SearchEvent(k), NoRow)
                   ELSE Stmt("eventRow", k, NoRow)
             rest == IF row.series = NoSeries THEN <<>>
                     ELSE <<Stmt("projectSeries", row.series, NoRow)>>
  <2>1. Next1(x, "projectEvent") /\ Continue(x, <<st>> \o rest) /\ UNCHANGED <<writes, shares>>
    BY <1>8 DEF ReadEvent, v
  <2>2. k \in Events
    BY <2>1, KeyFacts
  <2>3. Ranked(st, 8, 8)
    BY <2>2, DeleteRanks, ProjectionRanks
  <2>4. st[1] # "reference" /\ (st[1] \in {"addVersion", "delete"} => st[2][1] # "mp_snapshot")
    BY DEF Stmt, SearchEvent
  <2>5. Low(h) = 8 /\ Top(h) = 9
    BY <1>3, <2>1 DEF Low, Top, Keyed, Unranked
  <2>6. CASE row.series = NoSeries
    <3>1. Continue(x, <<st>>)
      BY <2>1, <2>6
    <3> HIDE DEF st, h, k
    <3>2. /\ Local(<<st>> \o Tail(todo[x]), writes[x], shares[x])
          /\ Rises(Head(todo[x]), <<st>> \o Tail(todo[x]))
      BY <1>2, <1>3, <2>1, <2>3, <2>4, <2>5, OneLocal DEF Ranked, h
    <3> QED
      BY <2>1, <3>1, <3>2, ReadEffect
  <2>7. CASE row.series # NoSeries
    <3> DEFINE st2 == Stmt("projectSeries", row.series, NoRow)
    <3>1. Continue(x, <<st>> \o <<st2>>)
      BY <2>1, <2>7
    <3>2. row.series \in SeriesIds
      BY <1>1, <2>2, <2>7, RowTypes
    <3>3. Ranked(st2, 9, 9) /\ st2[1] = "projectSeries"
      BY <3>2, ProjectionRanks DEF Stmt
    <3> HIDE DEF st, st2, h, k
    <3>4. /\ Local((<<st>> \o <<st2>>) \o Tail(todo[x]), writes[x], shares[x])
          /\ Rises(Head(todo[x]), (<<st>> \o <<st2>>) \o Tail(todo[x]))
      BY <1>2, <1>3, <2>1, <2>3, <2>4, <2>5, <3>3, TwoLocal DEF Ranked, h, Ordered
    <3> QED
      BY <2>1, <3>1, <3>4, ReadEffect
  <2> QED
    BY <2>6, <2>7
<1> QED
  BY <1>4, <1>5, <1>6, <1>7, <1>8

LEMMA MembersEffect ==
  ASSUME Typed, Locals, NEW x \in Sessions, ReadMembers(x)
  PROVE  Effect(x)
<1> DEFINE s == Key(x)
           h == Head(todo[x])
           S == Members(View(x), s)
<1>1. Next1(x, "projectMembers") /\ UNCHANGED <<writes, shares>>
  BY DEF ReadMembers
<1>2. s \in SeriesIds /\ S \subseteq Events
  BY <1>1, KeyFacts DEF Members
<1>3. todo[x] # <<>> /\ h[1] = "projectMembers" /\ Local(todo[x], writes[x], shares[x])
  BY <1>1, AtHead DEF Locals
<1>4. PICK order \in SetToSeqs(S) :
        Continue(x, [i \in DOMAIN order |-> Stmt("eventRow", order[i], NoRow)]
                    \o <<Stmt("projectSeries", s, NoRow)>>)
  BY DEF ReadMembers
<1> DEFINE last == Stmt("projectSeries", s, NoRow)
           rows == [i \in DOMAIN order |-> Stmt("eventRow", order[i], NoRow)]
           q == rows \o <<last>>
<1>5. /\ Len(order) \in Nat /\ DOMAIN order = 1 .. Len(order)
      /\ \A i \in DOMAIN order : order[i] \in Events
  BY <1>2, OrderFacts
<1>6. \A i \in DOMAIN order : Ranked(rows[i], 8, 8) /\ rows[i][1] = "eventRow"
  BY <1>5, ProjectionRanks DEF Stmt
<1>7. Ranked(last, 9, 9) /\ last[1] = "projectSeries"
  BY <1>2, ProjectionRanks DEF Stmt
<1>8. rows \in Seq(Stmts) /\ Len(rows) = Len(order)
  <2>1. rows \in [1 .. Len(order) -> Stmts]
    BY <1>5, <1>6 DEF Ranked
  <2> HIDE DEF rows
  <2> QED
    BY <1>5, <2>1
<1> HIDE DEF last, rows
<1>9. /\ q \in Seq(Stmts) /\ DOMAIN q = 1 .. (Len(order) + 1)
      /\ \A i \in 1 .. Len(order) : q[i] = rows[i]
      /\ q[Len(order) + 1] = last
  BY <1>5, <1>7, <1>8 DEF Ranked
<1> HIDE DEF q
<1>10. \A i \in DOMAIN q :
         \/ i <= Len(order) /\ Ranked(q[i], 8, 8) /\ q[i][1] = "eventRow"
         \/ i = Len(order) + 1 /\ Ranked(q[i], 9, 9) /\ q[i][1] = "projectSeries"
  BY <1>5, <1>6, <1>7, <1>9
<1>11. InOrder(q) /\ Plain(q)
  BY <1>5, <1>9, <1>10 DEF InOrder, Precedes, Plain, Ordered, Ranked
<1>12. Low(h) = 8 /\ Top(h) = 9
  BY <1>3 DEF Low, Top, Keyed, Unranked
<1>13. Within(q, h)
  BY <1>10, <1>12 DEF Within, Ranked
<1>14. /\ Local(q \o Tail(todo[x]), writes[x], shares[x])
       /\ Rises(Head(todo[x]), q \o Tail(todo[x]))
  BY <1>3, <1>9, <1>11, <1>12, <1>13, ExpandLocal
<1>15. Continue(x, q)
  BY <1>4 DEF q, rows, last
<1> QED
  BY <1>1, <1>14, <1>15, ReadEffect

LEMMA OverrideEffect ==
  ASSUME Typed, Locals, NEW x \in Sessions, Override(x)
  PROVE  Effect(x)
<1> DEFINE s == Key(x)
           h == Head(todo[x])
           S == Members(View(x), s)
<1>1. Next1(x, "override") /\ UNCHANGED <<writes, shares>>
  BY DEF Override
<1>2. s \in SeriesIds /\ S \subseteq Events /\ Val(x) \in Entry
  BY <1>1, KeyFacts DEF Members
<1>3. todo[x] # <<>> /\ h[1] = "override" /\ Local(todo[x], writes[x], shares[x])
  BY <1>1, AtHead DEF Locals
<1>4. PICK order \in SetToSeqs(S) :
        Continue(x, [i \in DOMAIN order |-> SetTx(order[i], Val(x))])
  BY DEF Override
<1> DEFINE q == [i \in DOMAIN order |-> SetTx(order[i], Val(x))]
<1>5. /\ Len(order) \in Nat /\ DOMAIN order = 1 .. Len(order)
      /\ \A i \in DOMAIN order : order[i] \in Events
  BY <1>2, OrderFacts
<1>6. \A i \in DOMAIN order : Ranked(q[i], 7, 7) /\ q[i][1] = "put"
  BY <1>2, <1>5, PutRanks DEF Stmt, SetTx
<1>7. q \in Seq(Stmts) /\ DOMAIN q = DOMAIN order
  <2>1. q \in [1 .. Len(order) -> Stmts]
    BY <1>5, <1>6 DEF Ranked
  <2> HIDE DEF q
  <2> QED
    BY <1>5, <2>1
<1> HIDE DEF q
<1>8. InOrder(q) /\ Plain(q)
  BY <1>5, <1>6, <1>7 DEF InOrder, Precedes, Plain, Ordered, Ranked
<1>9. Low(h) = 7 /\ Top(h) = 7
  BY <1>3 DEF Low, Top, Keyed, Unranked
<1>10. Within(q, h)
  BY <1>6, <1>7, <1>9 DEF Within, Ranked
<1>11. /\ Local(q \o Tail(todo[x]), writes[x], shares[x])
       /\ Rises(Head(todo[x]), q \o Tail(todo[x]))
  BY <1>3, <1>7, <1>8, <1>9, <1>10, ExpandLocal
<1> QED
  BY <1>1, <1>4, <1>11, ReadEffect DEF q

LEMMA StatementEffect ==
  ASSUME Typed, Locals, NEW x \in Sessions, Statement(x)
  PROVE  Effect(x)
  BY WritesOneRow, ReadsRows, ReferenceEffect, InspectEffect, MembersEffect, OverrideEffect
  DEF Statement

-----------------------------------------------------------------------------
(* The programs of the requests *)

Program(p) == p \in Seq(Stmts) /\ InOrder(p) /\ Prepared(p, Empty)

LEMMA ProgramLocal == \A p : Program(p) => Local(p, Empty, {})
  BY DEF Program, Local, RowsTyped, Empty, Above

\* Programs of one, two and three statements of which none needs another.
LEMMA OneProgram ==
  ASSUME NEW a \in Stmts, a[1] # "reference",
         a[1] \in {"addVersion", "delete"} => a[2][1] # "mp_snapshot"
  PROVE  Program(<<a>>)
<1> DEFINE q == <<a>>
<1>1. q \in Seq(Stmts) /\ DOMAIN q = {1} /\ q[1] = a
  OBVIOUS
<1> HIDE DEF q
<1> QED
  BY <1>1 DEF Program, InOrder, Prepared, Needed, Empty, q

LEMMA TwoProgram ==
  ASSUME NEW a \in Stmts, NEW b \in Stmts, Ordered(Top(a), Low(b)),
         a[1] \notin {"reference", "addVersion", "delete"},
         Needed(b, Empty) \/ Provides(a, b)
  PROVE  Program(<<a, b>>)
<1> DEFINE q == <<a, b>>
<1>1. q \in Seq(Stmts) /\ DOMAIN q = 1 .. 2 /\ q[1] = a /\ q[2] = b
  OBVIOUS
<1> HIDE DEF q
<1>2. Needed(a, Empty)
  BY DEF Needed
<1>3. InOrder(q)
  BY <1>1 DEF InOrder, Precedes
<1>4. Prepared(q, Empty)
  BY <1>1, <1>2 DEF Prepared, Empty
<1> QED
  BY <1>1, <1>3, <1>4 DEF Program, q

LEMMA ThreeProgram ==
  ASSUME NEW a \in Stmts, NEW b \in Stmts, NEW c \in Stmts, Ordered(Top(a), Low(b)),
         Ordered(Top(a), Low(c)), Ordered(Top(b), Low(c)),
         a[1] \notin {"reference", "addVersion", "delete"},
         Needed(b, Empty) \/ Provides(a, b), Needed(c, Empty)
  PROVE  Program(<<a, b, c>>)
<1> DEFINE q == <<a, b, c>>
<1>1. q \in Seq(Stmts) /\ DOMAIN q = 1 .. 3 /\ q[1] = a /\ q[2] = b /\ q[3] = c
  OBVIOUS
<1> HIDE DEF q
<1>2. Needed(a, Empty)
  BY DEF Needed
<1>3. InOrder(q)
  BY <1>1 DEF InOrder, Precedes
<1>4. Prepared(q, Empty)
  BY <1>1, <1>2 DEF Prepared, Empty
<1> QED
  BY <1>1, <1>3, <1>4 DEF Program, q

LEMMA Singletons ==
  ASSUME NEW S, NEW a \in S, NEW b \in S, NEW c \in S
  PROVE  (<<a>> \o <<>>) \o <<c>> = <<a, c>> /\ (<<a>> \o <<b>>) \o <<c>> = <<a, b, c>>
<1> DEFINE p == (<<a>> \o <<b>>) \o <<c>>
           q == <<a, b, c>>
           r == (<<a>> \o <<>>) \o <<c>>
           s == <<a, c>>
<1>1. p \in Seq(S) /\ Len(p) = 3 /\ p[1] = a /\ p[2] = b /\ p[3] = c
  OBVIOUS
<1>2. q \in Seq(S) /\ Len(q) = 3 /\ q[1] = a /\ q[2] = b /\ q[3] = c
  OBVIOUS
<1>3. r \in Seq(S) /\ Len(r) = 2 /\ r[1] = a /\ r[2] = c
  OBVIOUS
<1>4. s \in Seq(S) /\ Len(s) = 2 /\ s[1] = a /\ s[2] = c
  OBVIOUS
<1> HIDE DEF p, q, r, s
<1>5. \A i \in 1 .. Len(p) : p[i] = q[i]
  BY <1>1, <1>2
<1>6. \A i \in 1 .. Len(r) : r[i] = s[i]
  BY <1>3, <1>4
<1>7. p = q
  BY <1>1, <1>2, <1>5, SeqEqual
<1>8. r = s
  BY <1>3, <1>4, <1>6, SeqEqual
<1> QED
  BY <1>7, <1>8 DEF p, q, r, s

LEMMA TombstoneProgram ==
  ASSUME NEW e \in Events
  PROVE  Program(TombstoneEvent(e))
<1> DEFINE q == TombstoneEvent(e)
           a1 == Stmt("tombstone", Mp(e), NoRow)
           a2 == Stmt("delete", Publication(e, EngagePlayer), NoRow)
           a3 == Stmt("delete", Publication(e, OtherChannel), NoRow)
           a4 == Stmt("delete", Element(e, Source), NoRow)
           a5 == Stmt("delete", Element(e, Encoded), NoRow)
           a6 == Stmt("delete", Snapshots(e), NoRow)
           a7 == ProjectEvent(e)
<1>1. q = <<a1, a2, a3, a4, a5, a6, a7>>
  BY DEF TombstoneEvent
<1>2. /\ Ranked(a1, 0, 0) /\ Ranked(a2, 1, 1) /\ Ranked(a3, 2, 2) /\ Ranked(a4, 3, 3)
      /\ Ranked(a5, 4, 4) /\ Ranked(a6, 5, 5) /\ Ranked(a7, 8, 9)
  BY UpdateRanks, DeleteRanks, ProjectionRanks
<1>3. /\ Provides(a1, a6) /\ Needed(a1, Empty) /\ Needed(a2, Empty) /\ Needed(a3, Empty)
      /\ Needed(a4, Empty) /\ Needed(a5, Empty) /\ Needed(a7, Empty)
  BY DEF Provides, Needed, Stmt, Mp, Publication, Element, Snapshots, ProjectEvent
<1> HIDE DEF q, a1, a2, a3, a4, a5, a6, a7
<1>4. /\ q \in Seq(Stmts) /\ DOMAIN q = 1 .. 7 /\ q[1] = a1 /\ q[2] = a2 /\ q[3] = a3
      /\ q[4] = a4 /\ q[5] = a5 /\ q[6] = a6 /\ q[7] = a7
  BY <1>1, <1>2 DEF Ranked
<1>5. InOrder(q)
  BY <1>2, <1>4 DEF InOrder, Precedes, Ordered, Ranked
<1>6. Prepared(q, Empty)
  BY <1>3, <1>4 DEF Prepared, Empty
<1> QED
  BY <1>4, <1>5, <1>6 DEF Program, q

LEMMA ThenTwo ==
  ASSUME NEW S, NEW p \in Seq(S), NEW a \in S, NEW b \in S
  PROVE  LET q == p \o <<a, b>>
         IN  /\ q \in Seq(S) /\ DOMAIN q = 1 .. (Len(p) + 2)
             /\ q[Len(p) + 1] = a /\ q[Len(p) + 2] = b
             /\ \A i \in 1 .. Len(p) : q[i] = p[i]
  OBVIOUS

\* Its own statements come first, in any order.
LEMMA InspectProgram ==
  ASSUME NEW e \in Events, NEW tracks \in Seq(Elements)
  PROVE  Program(Inspect(e, tracks))
<1> DEFINE q == Inspect(e, tracks)
           n == Len(tracks)
           own == [i \in DOMAIN tracks |-> Stmt("tech", e, tracks[i])]
           a == Stmt("duration", e, NoRow)
           b == ProjectEvent(e)
<1>1. n \in Nat /\ DOMAIN tracks = 1 .. n /\ \A i \in 1 .. n : tracks[i] \in Elements
  OBVIOUS
<1>2. /\ \A i \in 1 .. n : Ranked(own[i], 0, 4) /\ own[i][1] = "tech" /\ own[i][2] = e
      /\ Ranked(a, 0, 4) /\ a[1] = "duration" /\ a[2] = e
      /\ Ranked(b, 8, 9) /\ b[1] = "projectEvent"
  BY <1>1, InspectionRanks, ProjectionRanks DEF Stmt, ProjectEvent
<1>3. own \in Seq(Stmts) /\ Len(own) = n
  <2>1. own \in [1 .. n -> Stmts]
    BY <1>1, <1>2 DEF Ranked
  <2> HIDE DEF own
  <2> QED
    BY <1>1, <2>1
<1>4. q = own \o <<a, b>>
  BY DEF Inspect
<1> HIDE DEF q, own, a, b
<1>5. /\ q \in Seq(Stmts) /\ DOMAIN q = 1 .. (n + 2) /\ q[n + 1] = a /\ q[n + 2] = b
      /\ \A i \in 1 .. n : q[i] = own[i]
  <2>1. a \in Stmts /\ b \in Stmts
    BY <1>2 DEF Ranked
  <2>2. own \in Seq(Stmts) /\ Len(own) = n
    BY <1>3
  <2>3. LET r == own \o <<a, b>>
        IN  /\ r \in Seq(Stmts) /\ DOMAIN r = 1 .. (Len(own) + 2)
            /\ r[Len(own) + 1] = a /\ r[Len(own) + 2] = b
            /\ \A i \in 1 .. Len(own) : r[i] = own[i]
    BY <2>1, <2>2, ThenTwo
  <2> QED
    BY <1>4, <2>2, <2>3
<1>6. \A i \in DOMAIN q :
        \/ i <= n + 1 /\ Ranked(q[i], 0, 4) /\ q[i][1] \in Unranked /\ q[i][2] = e
        \/ i = n + 2 /\ Ranked(q[i], 8, 9) /\ q[i][1] = "projectEvent"
  BY <1>1, <1>2, <1>5 DEF Unranked
<1>7. InOrder(q)
  BY <1>1, <1>5, <1>6 DEF InOrder, Precedes, Ordered, Ranked
<1>8. Prepared(q, Empty)
  BY <1>6 DEF Prepared, Needed, Empty, Unranked
<1> QED
  BY <1>5, <1>7, <1>8 DEF Program, q

LEMMA Programs ==
  /\ \A e \in Events :
       /\ \A p \in Policies : Program(SetACL(e, p))
       /\ \A s \in SeriesIds \cup {NoSeries} : Program(SetEventDC(e, s))
       /\ \A c \in Channels, els \in (SUBSET Elements) \ {{}} : Program(Publish(e, c, els))
       /\ Program(Snapshot(e)) /\ Program(InsertElement(e)) /\ Program(Materialise(e))
  /\ \A s \in SeriesIds :
       /\ \A p \in Policies, override \in BOOLEAN : Program(SetSeriesACL(s, p, override))
       /\ \A t \in Titles : Program(PutSeries(s, t))
       /\ Program(TombstoneSeries(s))
<1>1. Policies \subseteq Entry
  BY PolicyAssumption DEF Entry
<1>2. \A e : Needed(ProjectEvent(e), Empty) /\ Needed(ProjectSeries(e), Empty)
  BY DEF Needed, ProjectEvent, ProjectSeries, Stmt
<1>3. ASSUME NEW e \in Events
      PROVE  Ranked(ProjectEvent(e), 8, 9)
  BY ProjectionRanks
<1>4. ASSUME NEW e \in Events, NEW p \in Policies
      PROVE  Program(SetACL(e, p))
  <2>1. Ranked(SetTx(e, p), 7, 7) /\ SetTx(e, p)[1] = "put"
    BY <1>1, PutRanks DEF SetTx, Stmt
  <2> QED
    BY <1>2, <1>3, <2>1, TwoProgram DEF SetACL, Ranked, Ordered
<1>5. ASSUME NEW e \in Events, NEW s \in SeriesIds \cup {NoSeries}
      PROVE  Program(SetEventDC(e, s))
  <2> DEFINE st == Stmt("setSeries", Mp(e), s)
  <2>1. Ranked(st, 0, 0) /\ st[1] = "setSeries"
    BY UpdateRanks DEF Stmt
  <2> HIDE DEF st
  <2>2. Program(<<st, ProjectEvent(e)>>)
    BY <1>2, <1>3, <2>1, TwoProgram DEF Ranked, Ordered
  <2> QED
    BY <2>2 DEF SetEventDC, st
<1>6. ASSUME NEW e \in Events, NEW c \in Channels,
             NEW els \in (SUBSET Elements) \ {{}}
      PROVE  Program(Publish(e, c, els))
  <2> DEFINE k == Publication(e, c)
             a == Stmt("pin", k, NoRow)
             b == Stmt("reference", k, els)
  <2>1. Ranked(a, Rank(k), Rank(k)) /\ Rank(k) \in 1 .. 2 /\ Ranked(b, 3, 4)
    BY UpdateRanks
  <2>2. Provides(a, b) /\ a[1] = "pin"
    BY DEF Provides, Stmt
  <2> HIDE DEF a, b
  <2>3. Program(<<a, b, ProjectEvent(e)>>)
    BY <1>2, <1>3, <2>1, <2>2, ThreeProgram DEF Ranked, Ordered
  <2> QED
    BY <2>3 DEF Publish, a, b
<1>7. ASSUME NEW e \in Events
      PROVE  Program(Snapshot(e))
  <2> DEFINE a == Stmt("lock", Mp(e), NoRow)
             b == Stmt("addVersion", Snapshots(e), NoRow)
  <2>1. Ranked(a, 0, 0) /\ Ranked(b, 5, 5)
    BY UpdateRanks
  <2>2. Provides(a, b) /\ a[1] = "lock"
    BY DEF Provides, Stmt, Snapshots
  <2> HIDE DEF a, b
  <2>3. Program(<<a, b>>)
    BY <2>1, <2>2, TwoProgram DEF Ranked, Ordered
  <2> QED
    BY <2>3 DEF Snapshot, a, b
<1>8. ASSUME NEW e \in Events
      PROVE  Program(InsertElement(e)) /\ Program(Materialise(e))
  <2> DEFINE a == Stmt("put", Element(e, Encoded), "row")
  <2>1. Ranked(a, 4, 4) /\ a[1] = "put" /\ ProjectEvent(e)[1] = "projectEvent"
    BY PutRanks DEF Stmt, ProjectEvent
  <2> HIDE DEF a
  <2>2. Program(<<a>>) /\ Program(<<ProjectEvent(e)>>)
    BY <1>3, <2>1, OneProgram DEF Ranked
  <2> QED
    BY <2>2 DEF InsertElement, Materialise, a
<1>9. ASSUME NEW s \in SeriesIds
      PROVE  Ranked(ProjectSeries(s), 8, 9)
  BY ProjectionRanks
<1>10. ASSUME NEW s \in SeriesIds, NEW p \in Policies, NEW override \in BOOLEAN
       PROVE  Program(SetSeriesACL(s, p, override))
  <2> DEFINE a == SetTx(s, p)
             b == Stmt("override", s, p)
  <2>1. Ranked(a, 6, 6) /\ a[1] = "put" /\ Ranked(b, 7, 7) /\ Needed(b, Empty)
    BY <1>1, PutRanks, ProjectionRanks DEF SetTx, Stmt, Needed
  <2> HIDE DEF a, b
  <2>2. Program(<<a, ProjectSeries(s)>>)
    BY <1>2, <1>9, <2>1, TwoProgram DEF Ranked, Ordered
  <2>3. Program(<<a, b, ProjectSeries(s)>>)
    BY <1>2, <1>9, <2>1, ThreeProgram DEF Ranked, Ordered
  <2>4. /\ (<<a>> \o <<>>) \o <<ProjectSeries(s)>> = <<a, ProjectSeries(s)>>
        /\ (<<a>> \o <<b>>) \o <<ProjectSeries(s)>> = <<a, b, ProjectSeries(s)>>
    BY <1>9, <2>1, Singletons DEF Ranked
  <2> QED
    BY <2>2, <2>3, <2>4 DEF SetSeriesACL, a, b
<1>11. ASSUME NEW s \in SeriesIds, NEW t \in Titles
       PROVE  Program(PutSeries(s, t))
  <2> DEFINE a == Stmt("setTitle", Series(s), t)
  <2>1. Ranked(a, 0, 0) /\ a[1] = "setTitle"
    BY UpdateRanks DEF Stmt
  <2> HIDE DEF a
  <2>2. Program(<<a, ProjectSeries(s)>>)
    BY <1>2, <1>9, <2>1, TwoProgram DEF Ranked, Ordered
  <2> QED
    BY <2>2 DEF PutSeries, a
<1>12. ASSUME NEW s \in SeriesIds
       PROVE  Program(TombstoneSeries(s))
  <2> DEFINE a == Stmt("tombstone", Series(s), NoRow)
  <2>1. Ranked(a, 0, 0) /\ a[1] = "tombstone"
    BY UpdateRanks DEF Stmt
  <2> HIDE DEF a
  <2>2. Program(<<a, ProjectSeries(s)>>)
    BY <1>2, <1>9, <2>1, TwoProgram DEF Ranked, Ordered
  <2> QED
    BY <2>2 DEF TombstoneSeries, a
<1> QED
  BY <1>4, <1>5, <1>6, <1>7, <1>8, <1>10, <1>11, <1>12

OneOfThem(p) ==
  \/ \E e \in Events :
       \/ \E policy \in Policies : p = SetACL(e, policy)
       \/ \E s \in SeriesIds \cup {NoSeries} : p = SetEventDC(e, s)
       \/ \E c \in Channels, els \in (SUBSET Elements) \ {{}} : p = Publish(e, c, els)
       \/ \E tracks \in Seq(Elements) : p = Inspect(e, tracks)
       \/ p \in {TombstoneEvent(e), Snapshot(e), InsertElement(e), Materialise(e)}
  \/ \E s \in SeriesIds :
       \/ \E policy \in Policies, override \in BOOLEAN : p = SetSeriesACL(s, policy, override)
       \/ \E t \in Titles : p = PutSeries(s, t)
       \/ p = TombstoneSeries(s)

LEMMA AllPrograms == \A p : OneOfThem(p) => Program(p)
  BY Programs, TombstoneProgram, InspectProgram DEF OneOfThem

\* The tracks of an inspection are elements.
LEMMA TracksOfStored ==
  ASSUME NEW e, NEW tracks \in SetToSeqs(Stored(e))
  PROVE  tracks \in Seq(Elements)
<1>1. tracks \in [1 .. Cardinality(Stored(e)) -> Stored(e)] /\ Stored(e) \subseteq Elements
  BY DEF SetToSeqs, Stored
<1>2. Cardinality(Stored(e)) \in Nat
  <2>1. IsFiniteSet({Source} \cup {Encoded}) /\ Elements = {Source} \cup {Encoded}
    BY FS_Singleton, FS_AddElement DEF Elements
  <2> QED
    BY <1>1, <2>1, FS_Subset, FS_CardinalityType
<1> QED
  BY <1>1, <1>2

\* What a request begins is one of those programs.
LEMMA RequestBegins ==
  ASSUME Typed, NEW x \in Sessions, Request(x)
  PROVE  \E p : OneOfThem(p) /\ Program(p) /\ Begin(x, p)
<1>1. ASSUME NEW e \in Events
      PROVE  /\ db[Mp(e)].series \in SeriesIds \cup {NoSeries}
             /\ Stored(e) # {} => Stored(e) \in (SUBSET Elements) \ {{}}
  BY <1>1, RowTypes DEF Typed, Stored
<1>2. ASSUME NEW e \in Events,
             \/ EventAccessWrite(x, e) \/ EventDelete(x, e) \/ EventMetadataEdit(x, e)
             \/ PublishBody(x, e) \/ SnapshotBody(x, e) \/ EncodeBody(x, e)
             \/ InspectBody(x, e) \/ Ingest(x, e)
      PROVE  \E p : OneOfThem(p) /\ Begin(x, p)
  <2>1. CASE EventAccessWrite(x, e)
    BY <2>1 DEF EventAccessWrite, OneOfThem
  <2>2. CASE EventDelete(x, e)
    BY <2>2 DEF EventDelete, OneOfThem
  <2>3. CASE EventMetadataEdit(x, e)
    BY <1>1, <2>3 DEF EventMetadataEdit, OneOfThem
  <2>4. CASE PublishBody(x, e)
    BY <1>1, <2>4 DEF PublishBody, OneOfThem
  <2>5. CASE SnapshotBody(x, e)
    BY <2>5 DEF SnapshotBody, OneOfThem
  <2>6. CASE EncodeBody(x, e)
    BY <2>6 DEF EncodeBody, OneOfThem
  <2>7. CASE Ingest(x, e)
    BY <2>7 DEF Ingest, OneOfThem
  <2>8. CASE InspectBody(x, e)
    <3>1. PICK tracks \in SetToSeqs(Stored(e)) : Begin(x, Inspect(e, tracks))
      BY <2>8 DEF InspectBody
    <3>2. tracks \in Seq(Elements)
      BY TracksOfStored
    <3> QED
      BY <3>1, <3>2 DEF OneOfThem
  <2> QED
    BY <1>2, <2>1, <2>2, <2>3, <2>4, <2>5, <2>6, <2>7, <2>8
<1>3. ASSUME NEW s \in SeriesIds,
             SeriesAccessWrite(x, s) \/ SeriesMetadataEdit(x, s) \/ SeriesDelete(x, s)
      PROVE  \E p : OneOfThem(p) /\ Begin(x, p)
  <2>1. CASE SeriesAccessWrite(x, s)
    BY <2>1 DEF SeriesAccessWrite, OneOfThem
  <2>2. CASE SeriesMetadataEdit(x, s)
    BY <2>2 DEF SeriesMetadataEdit, OneOfThem
  <2>3. CASE SeriesDelete(x, s)
    BY <2>3 DEF SeriesDelete, OneOfThem
  <2> QED
    BY <1>3, <2>1, <2>2, <2>3
<1> QED
  BY <1>2, <1>3, AllPrograms DEF Request

-----------------------------------------------------------------------------
(* It holds in every reachable state *)

LEMMA Stored0Typed == DOMAIN Stored0 = Rows /\ RowsTyped(Stored0)
<1>1. ASSUME NEW k \in Rows
      PROVE  Stored0[k] \in RowOf(k[1])
  <2>1. (CHOOSE t \in Titles : TRUE) \in Titles
    BY TitlesAssumption
  <2>2. k[1] \in {"mediapackage", "mp_snapshot", "publication", "search_event", "acl",
                  "mp_element", "series", "search_series"}
    BY DEF Rows
  <2>3. CASE k[1] = "mediapackage"
    BY <2>3, InitialSeriesAssumption DEF Stored0, RowOf
  <2>4. CASE k[1] = "series"
    BY <2>1, <2>4 DEF Stored0, RowOf
  <2>5. CASE k[1] = "mp_element"
    BY <2>5 DEF Stored0, RowOf
  <2>6. CASE k[1] \in {"mp_snapshot", "publication", "search_event", "acl", "search_series"}
    <3>1. Stored0[k] = NoRow
      BY <2>6 DEF Stored0
    <3> QED
      BY <2>6, <3>1 DEF RowOf
  <2> QED
    BY <2>2, <2>3, <2>4, <2>5, <2>6
<1> QED
  BY <1>1 DEF RowsTyped, Stored0

LEMMA InitLock ==
  ASSUME Init
  PROVE  LockInv
<1>1. DOMAIN db = Rows /\ RowsTyped(db)
  <2>1. ASSUME NEW k \in Rows
        PROVE  db[k] \in RowOf(k[1])
    <3>1. CASE k[1] = "search_event"
      <4>1. k[2] \in Events /\ db[k] = EventRow(Stored0, k[2])
        BY <3>1, RowFacts DEF Init
      <4> QED
        BY <3>1, <4>1, Stored0Typed, DerivedTypes DEF RowOf
    <3>2. CASE k[1] = "search_series"
      <4>1. k[2] \in SeriesIds /\ db[k] = SeriesRow(Stored0, k[2])
        BY <3>2, RowFacts DEF Init
      <4> QED
        BY <3>2, <4>1, Stored0Typed, DerivedTypes DEF RowOf
    <3>3. CASE k[1] \notin {"search_event", "search_series"}
      BY <3>3, Stored0Typed DEF Init, RowsTyped
    <3> QED
      BY <3>1, <3>2, <3>3
  <2> QED
    BY <2>1 DEF Init, RowsTyped
<1>2. Typed
  <2>1. begun \in 0 .. MaxTx
    BY MaxTxAssumption DEF Init
  <2>2. open \subseteq Sessions /\ overlapped \in BOOLEAN
    BY DEF Init
  <2>3. DOMAIN todo = Sessions /\ DOMAIN writes = Sessions /\ DOMAIN shares = Sessions
    BY DEF Init
  <2>4. \A y \in Sessions : todo[y] = <<>> /\ writes[y] = Empty /\ shares[y] = {}
    BY DEF Init
  <2> QED
    BY <1>1, <2>1, <2>2, <2>3, <2>4 DEF Typed
<1>3. Local(<<>>, Empty, {})
  BY DEF Local, RowsTyped, Empty, InOrder, Above, Prepared
<1>4. Locals
  BY <1>3 DEF Locals, Init
<1>5. Exclusive
  BY DEF Exclusive, Init, Empty
<1> QED
  BY <1>2, <1>4, <1>5 DEF LockInv

LEMMA BeginLock ==
  ASSUME LockInv, NEW x \in Sessions, NEW p, Program(p), Begin(x, p)
  PROVE  LockInv'
<1>1. /\ todo' = [todo EXCEPT ![x] = p] /\ x \notin open /\ begun < MaxTx
      /\ UNCHANGED <<db, writes, shares>> /\ open' = open \cup {x} /\ begun' = begun + 1
      /\ overlapped' = (overlapped \/ open # {})
  BY DEF Begin
<1>2. writes[x] = Empty /\ shares[x] = {} /\ Local(p, Empty, {})
  BY <1>1, ProgramLocal DEF LockInv, Typed
<1>3. /\ DOMAIN todo' = Sessions /\ todo'[x] = p
      /\ \A y \in Sessions \ {x} : todo'[y] = todo[y]
  BY <1>1 DEF LockInv, Typed
<1>4. Typed'
  <2>1. begun' \in 0 .. MaxTx /\ overlapped' \in BOOLEAN
    BY <1>1, MaxTxAssumption DEF LockInv, Typed
  <2>2. RowsTyped(db)' /\ DOMAIN db' = Rows
    BY <1>1 DEF LockInv, Typed, RowsTyped
  <2>3. open' \subseteq Sessions /\ DOMAIN writes' = Sessions /\ DOMAIN shares' = Sessions
    BY <1>1 DEF LockInv, Typed
  <2>4. \A y \in Sessions \ open' : todo'[y] = <<>> /\ writes'[y] = Empty /\ shares'[y] = {}
    BY <1>1, <1>3 DEF LockInv, Typed
  <2> QED
    BY <1>3, <2>1, <2>2, <2>3, <2>4 DEF Typed
<1>5. \A y \in Sessions : Local(todo'[y], writes'[y], shares'[y])
  BY <1>1, <1>2, <1>3 DEF LockInv, Locals
<1>6. Exclusive'
  BY <1>1 DEF LockInv, Exclusive
<1> QED
  BY <1>4, <1>5, <1>6 DEF LockInv, Locals

LEMMA StatementLock ==
  ASSUME LockInv, NEW x \in Sessions, Statement(x), UNCHANGED <<db, open, begun, overlapped>>
  PROVE  LockInv'
<1>1. Effect(x)
  BY StatementEffect DEF LockInv
<1>2. Typed'
  <2>1. RowsTyped(db)' /\ DOMAIN db' = Rows
    BY DEF LockInv, Typed, RowsTyped
  <2>2. \A y \in Sessions \ open' : todo'[y] = <<>> /\ writes'[y] = Empty /\ shares'[y] = {}
    BY <1>1 DEF LockInv, Typed, Effect
  <2> QED
    BY <1>1, <2>1, <2>2 DEF LockInv, Typed, Effect
<1>3. \A y \in Sessions : Local(todo'[y], writes'[y], shares'[y])
  BY <1>1 DEF LockInv, Locals, Effect
<1>4. Exclusive'
  <2> SUFFICES ASSUME NEW y \in Sessions, NEW z \in Sessions, y # z,
                      NEW k, k \in DOMAIN writes'[y], k \in DOMAIN writes'[z]
               PROVE  FALSE
    BY DEF Exclusive
  <2>1. \A u \in Sessions \ {x} : writes'[u] = writes[u]
    BY <1>1 DEF Effect
  <2>2. \A u \in Sessions \ {x} : k \in DOMAIN writes[u] => k \notin DOMAIN writes'[x]
    BY <1>1 DEF Effect, Locked, LockInv, Exclusive
  <2> QED
    BY <2>1, <2>2 DEF LockInv, Exclusive
<1> QED
  BY <1>2, <1>3, <1>4 DEF LockInv, Locals

LEMMA CloseLock ==
  ASSUME LockInv, NEW x \in Sessions, Close(x), db' \in {db, View(x)}
  PROVE  LockInv'
<1>1. /\ DOMAIN todo' = Sessions /\ DOMAIN writes' = Sessions /\ DOMAIN shares' = Sessions
      /\ todo'[x] = <<>> /\ writes'[x] = Empty /\ shares'[x] = {}
      /\ \A y \in Sessions \ {x} : /\ todo'[y] = todo[y] /\ writes'[y] = writes[y]
                                   /\ shares'[y] = shares[y]
      /\ open' = open \ {x} /\ UNCHANGED <<begun, overlapped>>
  BY DEF Close, LockInv, Typed
<1>2. DOMAIN db' = Rows /\ RowsTyped(db')
  BY ViewTyped DEF LockInv, Typed
<1>3. Typed'
  <2>1. RowsTyped(db)'
    BY <1>2 DEF RowsTyped
  <2>2. open' \subseteq Sessions /\ begun' \in 0 .. MaxTx /\ overlapped' \in BOOLEAN
    BY <1>1 DEF LockInv, Typed
  <2>3. \A y \in Sessions \ open' : todo'[y] = <<>> /\ writes'[y] = Empty /\ shares'[y] = {}
    BY <1>1 DEF LockInv, Typed
  <2> QED
    BY <1>1, <1>2, <2>1, <2>2, <2>3 DEF Typed
<1>4. Local(<<>>, Empty, {})
  BY DEF Local, RowsTyped, Empty, InOrder, Above, Prepared
<1>5. \A y \in Sessions : Local(todo'[y], writes'[y], shares'[y])
  BY <1>1, <1>4 DEF LockInv, Locals
<1>6. DOMAIN Empty = {}
  BY DEF Empty
<1>7. Exclusive'
  BY <1>1, <1>6 DEF LockInv, Exclusive
<1> QED
  BY <1>3, <1>5, <1>7 DEF LockInv, Locals

\* Every transaction but an inspection locks rows in the order of their ranks:
\* when it comes to a statement, all it holds ranks below what that locks.  An
\* inspection holds rows of its event alone until it is through with them, and
\* goes on in that order.  And no row has two writers.
THEOREM LocksInOrder == Spec => []LockInv
<1>1. Init => LockInv
  BY InitLock
<1>2. ASSUME LockInv, [Next]_vars
      PROVE  LockInv'
  <2>1. CASE UNCHANGED vars
    <3>1. UNCHANGED <<db, open, todo, writes, shares, begun, overlapped>>
      BY <2>1 DEF vars, session
    <3> QED
      BY <1>2, <3>1 DEF LockInv, Typed, RowsTyped, Locals, Exclusive
  <2>2. ASSUME NEW x \in Sessions, Request(x)
        PROVE  LockInv'
    BY <1>2, <2>2, RequestBegins, BeginLock DEF LockInv
  <2>3. ASSUME NEW x \in Sessions, Statement(x), UNCHANGED <<db, open, begun, overlapped>>
        PROVE  LockInv'
    BY <1>2, <2>3, StatementLock
  <2>4. ASSUME NEW x \in Sessions, Commit(x) \/ Rollback(x)
        PROVE  LockInv'
    BY <1>2, <2>4, CloseLock DEF Commit, Rollback
  <2> QED
    BY <1>2, <2>1, <2>2, <2>3, <2>4 DEF Next
<1> QED
  BY <1>1, <1>2, PTL DEF Spec

\* Committed rows have the types of their tables, and nothing is left of a
\* transaction that has ended.
THEOREM RowsHaveTheirTypes == Spec => []TypeOK
<1>1. LockInv => TypeOK
  <2> SUFFICES ASSUME LockInv
               PROVE  TypeOK
    OBVIOUS
  <2>1. \A x \in Sessions : DOMAIN writes[x] \subseteq Rows /\ shares[x] \subseteq Rows
    BY DEF LockInv, Locals, Local, RowsTyped, Table
  <2>2. \A k \in Rows : db[k] \in RowOf(k[1])
    BY DEF LockInv, Typed, RowsTyped
  <2> QED
    BY <2>1, <2>2 DEF LockInv, Typed, TypeOK
<1> QED
  BY <1>1, LocksInOrder, PTL

\* What a transaction needs, it has when it comes to it.
LEMMA HeadNeeds ==
  ASSUME LockInv, NEW x \in Sessions, NEW op, Next1(x, op)
  PROVE  Needed(Head(todo[x]), writes[x])
<1>1. Head(todo[x]) = todo[x][1] /\ 1 \in DOMAIN todo[x] /\ DOMAIN todo[x] = 1 .. Len(todo[x])
  BY AtHead DEF LockInv
<1>2. Prepared(todo[x], writes[x])
  BY DEF LockInv, Locals, Local
<1> QED
  BY <1>1, <1>2 DEF Prepared

\* A transaction that is about to add a version finds no other transaction's
\* uncommitted one: both would hold the lock of the mediapackage's row.
THEOREM VersionsAreSerialized == Spec => []VersionsSerialized
<1>1. LockInv => VersionsSerialized
  <2> SUFFICES ASSUME LockInv, NEW x \in Sessions, NEW y \in Sessions, NEW e \in Events,
                      x # y, Next1(x, "addVersion"), Key(x) = Snapshots(e),
                      Snapshots(e) \in DOMAIN writes[y]
               PROVE  FALSE
    BY DEF VersionsSerialized
  <2>1. Snapshots(e)[1] = "mp_snapshot" /\ Snapshots(e)[2] = e
    BY DEF Snapshots
  <2>2. Mp(e) \in DOMAIN writes[x]
    BY <2>1, HeadNeeds DEF Needed, Next1, Key
  <2>3. Mp(e) \in DOMAIN writes[y]
    BY <2>1 DEF LockInv, Locals, Local, Prepared
  <2> QED
    BY <2>2, <2>3 DEF LockInv, Exclusive
<1> QED
  BY <1>1, LocksInOrder, PTL

\* What a transaction waits for ranks above what it holds, or it is inspecting
\* an event and holds rows of that event only.
LEMMA WaitsAbove ==
  ASSUME LockInv, NEW x \in Sessions, NEW k, WaitsFor(x, k)
  PROVE  \/ \A l \in Holdings(x) : Ordered(Rank(l), Rank(k))
         \/ \E e \in Events : Inspecting(x, e) /\ k \in OwnRows(e) /\ Holdings(x) \subseteq OwnRows(e)
<1> DEFINE h == Head(todo[x])
<1>1. PICK op : Next1(x, op)
  BY DEF WaitsFor
<1>2. /\ h \in Stmts /\ h = todo[x][1] /\ 1 \in DOMAIN todo[x] /\ h[1] = op
  BY <1>1, AtHead DEF LockInv
<1>3. \A l \in Holdings(x) : Below(l, h)
  BY <1>2 DEF LockInv, Locals, Local, Above, Holdings
<1>4. CASE op \in Unranked
  <2>1. Key(x) \in Events /\ (op = "tech" => Val(x) \in Elements) /\ h[2] = Key(x)
    BY <1>1, <1>4, KeyFacts DEF LockInv, Key
  <2>2. Inspecting(x, Key(x))
    BY <1>1, <1>4 DEF Inspecting, Unranked
  <2>3. k \in OwnRows(Key(x))
    BY <1>1, <1>2, <1>4, <2>1 DEF WaitsFor, Next1, OwnRows, Unranked
  <2>4. ASSUME NEW l \in Holdings(x)
        PROVE  l \in OwnRows(Key(x))
    <3>1. ~Ordered(Rank(l), Low(h))
      <4>1. Low(h) = 0 /\ Rank(l) \in 0 .. 9
        BY <1>2, <1>4, AtTheStart, RankType
      <4> QED
        BY <4>1 DEF Ordered
    <3> QED
      BY <1>3, <2>1, <3>1 DEF Below
  <2> QED
    BY <2>1, <2>2, <2>3, <2>4
<1>5. CASE op \notin Unranked
  <2>1. Low(h) <= Rank(k)
    <3>1. CASE h[1] = "reference"
      <4>1. PICK el \in Val(x) : k = Element(Key(x)[2][1], el)
        BY <3>1 DEF WaitsFor, Next1
      <4>2. Key(x)[2][1] \in Events /\ el \in Elements
        <5>1. Key(x) \in Table("publication") /\ Val(x) \subseteq Elements
          BY <1>1, <1>2, <3>1, KeyFacts DEF LockInv
        <5> QED
          BY <4>1, <5>1, RowFacts DEF Table
      <4>3. Rank(k) >= 3
        BY <4>1, <4>2, RowRanks DEF Elements
      <4> QED
        BY <3>1, <4>3 DEF Low, Keyed, Unranked
    <3>2. CASE h[1] # "reference"
      <4>1. k = Key(x) /\ op \in Keyed
        BY <1>1, <1>2, <1>5, <3>2 DEF WaitsFor, Next1, Keyed, Unranked
      <4>2. Low(h) = Rank(k)
        BY <1>1, <4>1, KeyFacts DEF LockInv
      <4> QED
        BY <4>2, RankType
    <3> QED
      BY <3>1, <3>2
  <2>2. ASSUME NEW l \in Holdings(x)
        PROVE  Ordered(Rank(l), Rank(k))
    <3>1. Ordered(Rank(l), Low(h))
      BY <1>2, <1>3, <1>5 DEF Below
    <3>2. Rank(l) \in 0 .. 9 /\ Rank(k) \in 0 .. 9 /\ Low(h) \in 0 .. 9
      BY <1>2, RankType, RankFacts
    <3> QED
      BY <2>1, <3>1, <3>2 DEF Ordered
  <2> QED
    BY <2>2
<1> QED
  BY <1>4, <1>5

\* Two transactions that wait for each other hold the policies, or the rows
\* of the projection, of different events; or one of them is inspecting an
\* event, and they wait for the event's element and mediapackage rows.
THEOREM OnlyMembersDeadlock == Spec => []NoDeadlock
<1>1. LockInv => NoDeadlock
  <2> SUFFICES ASSUME LockInv, NEW x \in Sessions, NEW y \in Sessions, x # y,
                      NEW k \in Holdings(y), NEW l \in Holdings(x),
                      WaitsFor(x, k), WaitsFor(y, l)
               PROVE  \/ \E e, f \in Events : e # f /\ k \in MemberRows(e) /\ l \in MemberRows(f)
                      \/ \E e \in Events : {k, l} \subseteq OwnRows(e)
                                          /\ (Inspecting(x, e) \/ Inspecting(y, e))
    BY DEF NoDeadlock
  <2>a. CASE \E e \in Events : Inspecting(x, e) /\ k \in OwnRows(e) /\ Holdings(x) \subseteq OwnRows(e)
    BY <2>a
  <2>b. CASE \E e \in Events : Inspecting(y, e) /\ l \in OwnRows(e) /\ Holdings(y) \subseteq OwnRows(e)
    BY <2>b
  <2>c. CASE Ordered(Rank(l), Rank(k)) /\ Ordered(Rank(k), Rank(l))
    <3>2. Rank(k) \in 0 .. 9 /\ Rank(l) \in 0 .. 9
      BY RankType
    <3>3. Rank(k) = Rank(l) /\ Rank(k) \in {7, 8}
      BY <2>c, <3>2 DEF Ordered
    <3>4. \A u \in Sessions : \A m \in Holdings(u) :
            /\ m \in Rows
            /\ m \notin DOMAIN writes[u] => m[1] = "mp_element"
      BY DEF Holdings, LockInv, Locals, Local, RowsTyped, Table
    <3>5. \A m \in Rows : Rank(m) \in {7, 8} =>
            /\ m[1] # "mp_element"
            /\ \/ Rank(m) = 7 /\ \E e \in Events : m = Policy(e)
               \/ Rank(m) = 8 /\ \E e \in Events : m = SearchEvent(e)
      <4> SUFFICES ASSUME NEW m \in Rows, Rank(m) \in {7, 8}
                   PROVE  /\ m[1] # "mp_element"
                          /\ \/ Rank(m) = 7 /\ \E e \in Events : m = Policy(e)
                             \/ Rank(m) = 8 /\ \E e \in Events : m = SearchEvent(e)
        OBVIOUS
      <4>1. \/ m[1] = "acl" /\ m[2] \in Events /\ Rank(m) = 7
            \/ m[1] = "search_event" /\ Rank(m) = 8
        BY DEF Rank
      <4> QED
        BY <4>1, RowFacts
    <3>6. k \in DOMAIN writes[y] /\ l \in DOMAIN writes[x]
      BY <3>3, <3>4, <3>5
    <3>7. k # l
      BY <3>6 DEF LockInv, Exclusive
    <3>8. k \in Rows /\ l \in Rows
      BY <3>4
    <3>9. \/ \E e, f \in Events : k = Policy(e) /\ l = Policy(f) /\ e # f
          \/ \E e, f \in Events : k = SearchEvent(e) /\ l = SearchEvent(f) /\ e # f
      BY <3>3, <3>5, <3>7, <3>8
    <3> QED
      BY <3>9 DEF MemberRows
  <2> QED
    BY <2>a, <2>b, <2>c, WaitsAbove
<1> QED
  BY <1>1, LocksInOrder, PTL

-----------------------------------------------------------------------------
(* Publications and the elements they reference *)

References(v, e, c, el) ==
  Exists(v, Publication(e, c)) /\ el \in v[Publication(e, c)].elements
Complete(v) == \A e \in Events, c \in Channels, el \in Elements :
  References(v, e, c, el) => Exists(v, Element(e, el))
Publishes(x, e, c, el) ==
  Publication(e, c) \in DOMAIN writes[x] /\ References(writes[x], e, c, el)
Removes(y, e, el) == /\ Element(e, el) \in DOMAIN writes[y]
                     /\ writes[y][Element(e, el)] = NoRow

\* Every transaction sees publications whose elements exist.  One that writes
\* a publication has locked its elements, or found them referenced: no other
\* transaction is removing them.
Referential ==
  /\ Complete(db)
  /\ \A x \in Sessions : Complete(View(x))
  /\ \A x \in Sessions : \A e \in Events, c \in Channels, el \in Elements : Publishes(x, e, c, el) =>
       /\ \A y \in Sessions \ {x} : ~Removes(y, e, el)
       /\ Element(e, el) \in shares[x] \/ References(db, e, c, el)

LEMMA KeysDiffer ==
  /\ \A e, f, c, d : Publication(e, c) = Publication(f, d) => e = f /\ c = d
  /\ \A e, f, el, fl : Element(e, el) = Element(f, fl) => e = f /\ el = fl
  /\ \A e, f, c, el : Publication(e, c) # Element(f, el)
  BY DEF Publication, Element

\* What a written row does to the views.
LEMMA ViewWrite ==
  ASSUME LockInv, NEW x \in Sessions, NEW k \in Rows, NEW row, Write(x, k, row), UNCHANGED db
  PROVE  /\ View(x)' = [l \in Rows |-> IF l = k THEN row ELSE View(x)[l]]
         /\ \A y \in Sessions \ {x} : View(y)' = View(y) /\ writes'[y] = writes[y]
         /\ DOMAIN writes'[x] = DOMAIN writes[x] \cup {k}
         /\ writes'[x][k] = row
         /\ \A l \in DOMAIN writes[x] : l # k => writes'[x][l] = writes[x][l]
<1>1. /\ writes'[x] = With(writes[x], k, row)
      /\ \A y \in Sessions \ {x} : writes'[y] = writes[y]
  BY WriteStep DEF LockInv
<1>2. /\ DOMAIN writes'[x] = DOMAIN writes[x] \cup {k} /\ writes'[x][k] = row
      /\ \A l \in DOMAIN writes[x] : l # k => writes'[x][l] = writes[x][l]
  BY <1>1 DEF With
<1>3. View(x)' = [l \in Rows |-> IF l = k THEN row ELSE View(x)[l]]
  <2>1. View(x)' = [l \in Rows |-> IF l \in DOMAIN writes'[x] THEN writes'[x][l] ELSE db[l]]
    BY DEF View
  <2>2. \A l \in Rows : (IF l \in DOMAIN writes'[x] THEN writes'[x][l] ELSE db[l])
                        = IF l = k THEN row ELSE View(x)[l]
    BY <1>2 DEF View
  <2> QED
    BY <2>1, <2>2
<1>4. \A y \in Sessions \ {x} : View(y)' = View(y)
  BY <1>1 DEF View
<1> QED
  BY <1>1, <1>2, <1>3, <1>4

\* When a row may be written.
LEMMA WriteReferential ==
  ASSUME LockInv, Referential, NEW x \in Sessions, NEW k \in Rows, NEW row,
         Write(x, k, row), UNCHANGED db,
         \A y \in Sessions : shares[y] \subseteq shares'[y],
         \A e \in Events, c \in Channels, el \in Elements :
           k = Publication(e, c) /\ row # NoRow /\ el \in row.elements =>
             /\ Exists(View(x), Element(e, el))
             /\ \A y \in Sessions \ {x} : ~Removes(y, e, el)
             /\ Element(e, el) \in shares'[x] \/ References(db, e, c, el),
         \A e \in Events, c \in Channels, el \in Elements :
           k = Element(e, el) /\ row = NoRow =>
             /\ ~References(View(x), e, c, el)
             /\ \A y \in Sessions \ {x} : ~Publishes(y, e, c, el)
  PROVE  Referential'
<1> DEFINE v == View(x)
           v2 == [l \in Rows |-> IF l = k THEN row ELSE v[l]]
<1>1. /\ View(x)' = v2
      /\ \A y \in Sessions \ {x} : View(y)' = View(y) /\ writes'[y] = writes[y]
      /\ DOMAIN writes'[x] = DOMAIN writes[x] \cup {k} /\ writes'[x][k] = row
      /\ \A l \in DOMAIN writes[x] : l # k => writes'[x][l] = writes[x][l]
  BY ViewWrite
<1>2. \A e \in Events : /\ \A c \in Channels : Publication(e, c) \in Rows
                        /\ \A el \in Elements : Element(e, el) \in Rows
  BY RowFacts DEF Table
<1>3. Complete(db)'
  BY DEF Referential, Complete, References, Exists
<1>4. Complete(v2)
  <2> SUFFICES ASSUME NEW e \in Events, NEW c \in Channels, NEW el \in Elements, References(v2, e, c, el)
               PROVE  Exists(v2, Element(e, el))
    BY DEF Complete
  <2>1. CASE k = Publication(e, c)
    <3>1. row # NoRow /\ el \in row.elements /\ k # Element(e, el)
      BY <1>2, <2>1, KeysDiffer DEF References, Exists
    <3> QED
      BY <1>2, <2>1, <3>1 DEF Exists
  <2>2. CASE k # Publication(e, c)
    <3>1. References(v, e, c, el)
      BY <1>2, <2>2 DEF References, Exists
    <3>2. Exists(v, Element(e, el))
      BY <3>1 DEF Referential, Complete
    <3> QED
      BY <1>2, <3>1, <3>2 DEF Exists
  <2> QED
    BY <2>1, <2>2
<1> HIDE DEF v2
<1>5. \A y \in Sessions : Complete(View(y)')
  BY <1>1, <1>4 DEF Referential
<1>6. ASSUME NEW y \in Sessions, NEW e \in Events, NEW c \in Channels, NEW el \in Elements, Publishes(y, e, c, el)'
      PROVE  /\ \A z \in Sessions \ {y} : ~Removes(z, e, el)'
             /\ Element(e, el) \in shares'[y] \/ References(db', e, c, el)
  <2>1. References(db', e, c, el) = References(db, e, c, el)
    OBVIOUS
  <2>2. \A z \in Sessions \ {x} : Removes(z, e, el)' = Removes(z, e, el)
    BY <1>1 DEF Removes
  <2>3. Removes(x, e, el)' => Removes(x, e, el) \/ (k = Element(e, el) /\ row = NoRow)
    BY <1>1 DEF Removes
  <2>4. CASE y = x /\ k = Publication(e, c)
    <3>1. row # NoRow /\ el \in row.elements
      BY <1>1, <1>6, <2>4 DEF Publishes, References, Exists
    <3> QED
      BY <2>1, <2>2, <2>4, <3>1
  <2>5. CASE y = x /\ k # Publication(e, c)
    <3>1. Publishes(x, e, c, el)
      BY <1>1, <1>6, <2>5 DEF Publishes, References, Exists
    <3> QED
      BY <2>1, <2>2, <2>5, <3>1 DEF Referential
  <2>6. CASE y # x
    <3>1. Publishes(y, e, c, el)
      BY <1>1, <1>6, <2>6 DEF Publishes, References, Exists
    <3> QED
      BY <2>1, <2>2, <2>3, <2>6, <3>1 DEF Referential
  <2> QED
    BY <2>4, <2>5, <2>6
<1> QED
  BY <1>3, <1>5, <1>6 DEF Referential

\* A statement that writes nothing, or a row of another table.
LEMMA NoWriteReferential ==
  ASSUME Referential, UNCHANGED <<db, writes>>,
         \A y \in Sessions : shares[y] \subseteq shares'[y]
  PROVE  Referential'
<1>1. /\ \A y : View(y)' = View(y)
      /\ \A y, e, c, el : Publishes(y, e, c, el)' = Publishes(y, e, c, el)
      /\ \A y, e, el : Removes(y, e, el)' = Removes(y, e, el)
  BY DEF View, Publishes, Removes, References, Exists
<1>2. Complete(db)' /\ \A e, c, el : References(db', e, c, el) = References(db, e, c, el)
  BY DEF Referential, Complete, References, Exists
<1> QED
  BY <1>1, <1>2 DEF Referential

LEMMA DeleteReferential ==
  ASSUME LockInv, Referential, NEW x \in Sessions, Delete(x), UNCHANGED db
  PROVE  Referential'
<1> DEFINE k == Key(x)
<1>1. Next1(x, "delete") /\ UNCHANGED shares
  BY DEF Delete
<1>2. k \in Rows
  BY <1>1, KeyFacts DEF LockInv
<1>3. CASE UNCHANGED writes
  BY <1>1, <1>3, NoWriteReferential
<1>4. CASE /\ ~Referenced(x, k) /\ ~ReferencedBy(View(x), k)
           /\ Write(x, k, NoRow)
  <2>1. ASSUME NEW e \in Events, NEW c \in Channels, NEW el \in Elements, k = Element(e, el)
        PROVE  /\ ~References(View(x), e, c, el)
               /\ \A y \in Sessions \ {x} : ~Publishes(y, e, c, el)
    <3>1. ~References(View(x), e, c, el)
      BY <1>4, <2>1 DEF ReferencedBy, References, OnChannels
    <3>2. ASSUME NEW y \in Sessions \ {x}, Publishes(y, e, c, el)
          PROVE  FALSE
      <4>1. References(db, e, c, el)
        BY <1>4, <2>1, <3>2 DEF Referential, Referenced
      <4>2. Publication(e, c) \notin DOMAIN writes[x] /\ Publication(e, c) \in Rows
        BY <3>2, RowFacts DEF Publishes, LockInv, Exclusive, Table
      <4> QED
        BY <3>1, <4>1, <4>2 DEF References, Exists, View
    <3> QED
      BY <3>1, <3>2
  <2> QED
    BY <1>1, <1>2, <1>4, <2>1, WriteReferential
<1> QED
  BY <1>3, <1>4 DEF Delete

LEMMA PutPinReferential ==
  ASSUME LockInv, Referential, NEW x \in Sessions, PutPin(x), UNCHANGED db
  PROVE  Referential'
<1> DEFINE k == Key(x)
           v == View(x)
           old == IF Exists(v, k) THEN v[k].elements ELSE {}
           row == [state |-> Val(x).state, read |-> Val(x).read, elements |-> old]
<1>1. Next1(x, "putPin") /\ ~Locked(x, k) /\ Write(x, k, row) /\ UNCHANGED shares
  BY DEF PutPin
<1>2. k \in Rows /\ k[1] = "publication"
  BY <1>1, KeyFacts DEF LockInv, Table
<1>3. ASSUME NEW e \in Events, NEW c \in Channels, NEW el \in Elements, 
             k = Publication(e, c), el \in row.elements
      PROVE  /\ Exists(v, Element(e, el))
             /\ \A y \in Sessions \ {x} : ~Removes(y, e, el)
             /\ Element(e, el) \in shares'[x] \/ References(db, e, c, el)
  <2>1. References(v, e, c, el)
    BY <1>3 DEF References
  <2>2. Exists(v, Element(e, el))
    BY <2>1 DEF Referential, Complete
  <2>3. CASE k \in DOMAIN writes[x]
    <3>1. Publishes(x, e, c, el)
      BY <1>2, <1>3, <2>1, <2>3 DEF Publishes, References, Exists, View
    <3> QED
      BY <1>1, <2>2, <3>1 DEF Referential
  <2>4. CASE k \notin DOMAIN writes[x]
    <3>1. References(db, e, c, el)
      BY <1>2, <1>3, <2>1, <2>4 DEF References, Exists, View
    <3>2. ASSUME NEW y \in Sessions \ {x}, Removes(y, e, el)
          PROVE  FALSE
      <4>1. ~Exists(View(y), Element(e, el))
        BY <3>2, RowFacts DEF Removes, Exists, View, Table
      <4>2. ~References(View(y), e, c, el)
        BY <4>1 DEF Referential, Complete
      <4>3. k \in DOMAIN writes[y]
        BY <1>2, <1>3, <3>1, <4>2 DEF References, Exists, View
      <4> QED
        BY <1>1, <4>3 DEF Locked
    <3> QED
      BY <2>2, <3>1, <3>2
  <2> QED
    BY <2>3, <2>4
<1>4. \A e, el : k # Element(e, el)
  BY <1>2 DEF Element
<1> HIDE DEF row
<1> QED
  BY <1>1, <1>2, <1>3, <1>4, WriteReferential

LEMMA ReferenceReferential ==
  ASSUME LockInv, Referential, NEW x \in Sessions, Reference(x), UNCHANGED db
  PROVE  Referential'
<1> DEFINE k == Key(x)
           e == k[2][1]
           row == [View(x)[k] EXCEPT !.elements = Val(x)]
           keys == {Element(e, el) : el \in Val(x)}
<1>1. /\ Write(x, k, row) /\ shares' = [shares EXCEPT ![x] = @ \cup keys]
      /\ Resolvable(x, e, Val(x))
      /\ \A l \in keys : ~Removed(x, l)
  BY DEF Reference
<1>2. /\ e \in Events /\ k \in Rows /\ Val(x) \subseteq Elements
      /\ View(x)[k] \in Publications /\ k[1] = "publication"
  BY ReferenceStep DEF LockInv, Table
<1>3. row.elements = Val(x)
  <2>1. \A r \in Publications : [r EXCEPT !.elements = Val(x)].elements = Val(x)
    BY DEF Publications
  <2> QED
    BY <1>2, <2>1
<1>4. /\ shares'[x] = shares[x] \cup keys
      /\ \A y \in Sessions : shares[y] \subseteq shares'[y]
  BY <1>1 DEF LockInv, Typed
<1> HIDE DEF row
<1>5. ASSUME NEW f \in Events, NEW c \in Channels, NEW el \in Elements, 
             k = Publication(f, c), el \in row.elements
      PROVE  /\ Exists(View(x), Element(f, el))
             /\ \A y \in Sessions \ {x} : ~Removes(y, f, el)
             /\ Element(f, el) \in shares'[x] \/ References(db, f, c, el)
  <2>1. f = e /\ el \in Val(x) /\ Element(f, el) \in keys
    BY <1>3, <1>5 DEF Publication
  <2> QED
    BY <1>1, <1>4, <2>1 DEF Resolvable, Removed, Removes
<1>6. \A f, el : k # Element(f, el)
  BY <1>2 DEF Element
<1> QED
  BY <1>1, <1>2, <1>4, <1>5, <1>6, WriteReferential

LEMMA StatementReferential ==
  ASSUME LockInv, Referential, NEW x \in Sessions, Statement(x), UNCHANGED db
  PROVE  Referential'
<1>1. \A k : /\ k \in Rows /\ k[1] \notin {"publication", "mp_element"} =>
                  \A e, c, el : k # Publication(e, c) /\ k # Element(e, el)
             /\ k[1] # "publication" => \A e, c : k # Publication(e, c)
  BY DEF Publication, Element
<1>2. ASSUME NEW k \in Rows, NEW row, Write(x, k, row), UNCHANGED shares,
             k[1] # "publication", k[1] = "mp_element" => row # NoRow
      PROVE  Referential'
  BY <1>1, <1>2, WriteReferential
<1>3. CASE Put(x)
  <2>1. Next1(x, "put") /\ Write(x, Key(x), Val(x)) /\ UNCHANGED shares
    BY <1>3 DEF Put
  <2>2. Key(x) \in Rows /\ Key(x)[1] # "publication"
    BY <2>1, KeyFacts DEF LockInv
  <2>3. Key(x)[1] = "mp_element" => Val(x) = "row"
    <3>1. Head(todo[x]) \in Puts
      BY <2>1, AtHead, StmtFacts DEF LockInv
    <3> QED
      BY <3>1 DEF Puts, Table, Key, Val
  <2> QED
    BY <1>2, <2>1, <2>2, <2>3, NoRowAssumption
<1>4. CASE Delete(x)
  BY <1>4, DeleteReferential
<1>5. CASE Tombstone(x) \/ SetSeries(x) \/ SetTitle(x) \/ LockRow(x) \/ AddVersion(x)
  <2>1. PICK op \in {"tombstone", "setSeries", "setTitle", "lock", "addVersion"} : Next1(x, op)
    BY <1>5 DEF Tombstone, SetSeries, SetTitle, LockRow, AddVersion
  <2>2. /\ Key(x) \in Rows
        /\ Key(x)[1] \in {"mediapackage", "series", "mp_snapshot"}
    BY <2>1, KeyFacts DEF LockInv, Table
  <2>3. UNCHANGED shares /\ (UNCHANGED writes \/ \E row : Write(x, Key(x), row))
    BY <1>5 DEF Tombstone, SetSeries, SetTitle, LockRow, AddVersion
  <2> QED
    BY <1>2, <2>2, <2>3, NoWriteReferential
<1>6. CASE PutPin(x)
  BY <1>6, PutPinReferential
<1>7. CASE Reference(x)
  BY <1>7, ReferenceReferential
<1>8. CASE \/ ComputePin(x) \/ ReadEvent(x) \/ ComputeEventRow(x) \/ ReadSeries(x)
           \/ ComputeSeriesRow(x) \/ ReadMembers(x) \/ Override(x)
  <2>1. UNCHANGED <<writes, shares>>
    BY <1>8 DEF ComputePin, ReadEvent, ComputeEventRow, ReadSeries, ComputeSeriesRow,
                ReadMembers, Override
  <2> QED
    BY <2>1, NoWriteReferential
<1>9. CASE UpdateTech(x)
  <2>1. Key(x) \in Events /\ Val(x) \in Elements /\ UNCHANGED shares
    BY <1>9, KeyFacts DEF UpdateTech, LockInv, Unranked
  <2>2. LET k == Element(Key(x), Val(x))
        IN  /\ k \in Rows /\ k[1] = "mp_element"
            /\ UNCHANGED writes \/ \E row : row # NoRow /\ Write(x, k, row)
    BY <1>9, <2>1, RowFacts DEF UpdateTech, Exists, Table
  <2> QED
    BY <1>2, <2>1, <2>2, NoWriteReferential
<1>10. CASE UpdateDuration(x)
  <2>1. Key(x) \in Events /\ UNCHANGED shares
    BY <1>10, KeyFacts DEF UpdateDuration, LockInv, Unranked
  <2>2. LET k == Mp(Key(x))
        IN  /\ k \in Rows /\ k[1] = "mediapackage"
            /\ UNCHANGED writes \/ \E row : Write(x, k, row)
    BY <1>10, <2>1, RowFacts DEF UpdateDuration, Table
  <2> QED
    BY <1>2, <2>1, <2>2, NoWriteReferential
<1> QED
  BY <1>3, <1>4, <1>5, <1>6, <1>7, <1>8, <1>9, <1>10 DEF Statement

LEMMA CommitReferential ==
  ASSUME LockInv, Referential, NEW x \in Sessions, Commit(x)
  PROVE  Referential'
<1> DEFINE v == View(x)
<1>1. /\ db' = v
      /\ writes'[x] = Empty /\ \A y \in Sessions \ {x} : writes'[y] = writes[y]
      /\ \A y \in Sessions \ {x} : shares'[y] = shares[y]
  BY DEF Commit, Close, LockInv, Typed
<1>2. DOMAIN Empty = {}
  BY DEF Empty
<1>3. \A e \in Events : /\ \A c \in Channels : Publication(e, c) \in Rows
                        /\ \A el \in Elements : Element(e, el) \in Rows
  BY RowFacts DEF Table
<1>4. \A y \in Sessions : View(y)' = [l \in Rows |-> IF l \in DOMAIN writes'[y] THEN writes'[y][l]
                                                      ELSE v[l]]
  BY <1>1 DEF View
<1>5. Complete(v)
  BY DEF Referential
<1> HIDE DEF v
<1>6. ASSUME NEW y \in Sessions, NEW e \in Events, NEW c \in Channels, NEW el \in Elements,
             References(View(y)', e, c, el)
      PROVE  Exists(View(y)', Element(e, el))
  <2>1. CASE y = x
    <3>1. View(y)'[Publication(e, c)] = v[Publication(e, c)]
          /\ View(y)'[Element(e, el)] = v[Element(e, el)]
      BY <1>1, <1>2, <1>3, <1>4, <2>1
    <3> QED
      BY <1>5, <1>6, <3>1 DEF Complete, References, Exists
  <2>2. CASE y # x
    <3> DEFINE p == Publication(e, c)
               k == Element(e, el)
    <3>1. /\ View(y)'[p] = IF p \in DOMAIN writes[y] THEN writes[y][p] ELSE v[p]
          /\ View(y)'[k] = IF k \in DOMAIN writes[y] THEN writes[y][k] ELSE v[k]
      BY <1>1, <1>3, <1>4, <2>2
    <3>2. /\ View(y)[p] = IF p \in DOMAIN writes[y] THEN writes[y][p] ELSE db[p]
          /\ View(y)[k] = IF k \in DOMAIN writes[y] THEN writes[y][k] ELSE db[k]
          /\ v[p] = IF p \in DOMAIN writes[x] THEN writes[x][p] ELSE db[p]
          /\ v[k] = IF k \in DOMAIN writes[x] THEN writes[x][k] ELSE db[k]
      BY <1>3 DEF View, v
    <3>3. Complete(View(y))
      BY DEF Referential
    <3>4. CASE p \in DOMAIN writes[y]
      <4>1. Publishes(y, e, c, el) /\ References(View(y), e, c, el)
        BY <1>6, <3>1, <3>2, <3>4 DEF Publishes, References, Exists
      <4>2. ~Removes(x, e, el) /\ View(y)[k] # NoRow
        BY <2>2, <3>3, <4>1 DEF Referential, Complete, Exists
      <4> QED
        BY <3>1, <3>2, <4>2 DEF Exists, Removes
    <3>5. CASE p \notin DOMAIN writes[y] /\ p \in DOMAIN writes[x]
      <4>1. References(v, e, c, el)
        BY <1>6, <3>1, <3>5 DEF References, Exists
      <4>2. Publishes(x, e, c, el)
        BY <3>2, <3>5, <4>1 DEF Publishes, References, Exists
      <4>3. ~Removes(y, e, el) /\ v[k] # NoRow
        BY <1>5, <2>2, <4>1, <4>2 DEF Referential, Complete, Exists
      <4> QED
        BY <3>1, <4>3 DEF Exists, Removes
    <3>6. CASE p \notin DOMAIN writes[y] /\ p \notin DOMAIN writes[x]
      <4>1. References(v, e, c, el) /\ References(View(y), e, c, el)
        BY <1>6, <3>1, <3>2, <3>6 DEF References, Exists
      <4>2. v[k] # NoRow /\ View(y)[k] # NoRow
        BY <1>5, <3>3, <4>1 DEF Complete, Exists
      <4> QED
        BY <3>1, <3>2, <4>2 DEF Exists
    <3> QED
      BY <3>4, <3>5, <3>6
  <2> QED
    BY <2>1, <2>2
<1>7. ASSUME NEW y \in Sessions, NEW e \in Events, NEW c \in Channels, NEW el \in Elements, Publishes(y, e, c, el)'
      PROVE  /\ \A z \in Sessions \ {y} : ~Removes(z, e, el)'
             /\ Element(e, el) \in shares'[y] \/ References(db', e, c, el)
  <2>1. y # x
    BY <1>1, <1>2, <1>7 DEF Publishes
  <2>2. Publishes(y, e, c, el)
    BY <1>1, <1>7, <2>1 DEF Publishes, References, Exists
  <2>3. \A z \in Sessions \ {y} : ~Removes(z, e, el)'
    BY <1>1, <1>2, <2>2 DEF Referential, Removes
  <2>4. Element(e, el) \in shares[y] \/ References(db, e, c, el)
    BY <2>2 DEF Referential
  <2>5. Publication(e, c) \notin DOMAIN writes[x]
    BY <2>1, <2>2 DEF Publishes, LockInv, Exclusive
  <2>6. References(db, e, c, el) => References(v, e, c, el)
    BY <1>3, <2>5 DEF References, Exists, View, v
  <2> QED
    BY <1>1, <2>1, <2>3, <2>4, <2>6
<1>8. Complete(db')
  BY <1>1, <1>5
<1> QED
  BY <1>6, <1>7, <1>8 DEF Referential, Complete

LEMMA RollbackReferential ==
  ASSUME LockInv, Referential, NEW x \in Sessions, Rollback(x)
  PROVE  Referential'
<1>1. /\ db' = db /\ writes'[x] = Empty /\ \A y \in Sessions \ {x} : writes'[y] = writes[y]
      /\ \A y \in Sessions \ {x} : shares'[y] = shares[y]
  BY DEF Rollback, Close, LockInv, Typed
<1>2. DOMAIN Empty = {}
  BY DEF Empty
<1>3. \A e \in Events : /\ \A c \in Channels : Publication(e, c) \in Rows
                        /\ \A el \in Elements : Element(e, el) \in Rows
  BY RowFacts DEF Table
<1>4. \A l \in Rows : View(x)'[l] = db[l]
  BY <1>1, <1>2 DEF View
<1>5. Complete(View(x)')
  BY <1>3, <1>4 DEF Referential, Complete, References, Exists
<1>6. \A y \in Sessions \ {x} : View(y)' = View(y)
  BY <1>1 DEF View
<1>7. ASSUME NEW y \in Sessions, NEW e \in Events, NEW c \in Channels, NEW el \in Elements, Publishes(y, e, c, el)'
      PROVE  /\ \A z \in Sessions \ {y} : ~Removes(z, e, el)'
             /\ Element(e, el) \in shares'[y] \/ References(db', e, c, el)
  <2>1. y # x
    BY <1>1, <1>2, <1>7 DEF Publishes
  <2>2. Publishes(y, e, c, el)
    BY <1>1, <1>7, <2>1 DEF Publishes, References, Exists
  <2>3. \A z \in Sessions \ {y} : ~Removes(z, e, el)'
    BY <1>1, <1>2, <2>2 DEF Referential, Removes
  <2>4. Element(e, el) \in shares[y] \/ References(db, e, c, el)
    BY <2>2 DEF Referential
  <2> QED
    BY <1>1, <2>1, <2>3, <2>4
<1>8. Complete(db')
  BY <1>1 DEF Referential
<1>9. \A y \in Sessions : Complete(View(y)')
  BY <1>5, <1>6 DEF Referential
<1> QED
  BY <1>7, <1>8, <1>9 DEF Referential

\* The elements a publication references exist, in the database and in the
\* view of every transaction.
THEOREM PublicationsAreComplete == Spec => []PublishedElementsExist
<1>1. Init => Referential
  <2> SUFFICES ASSUME Init
               PROVE  Referential
    OBVIOUS
  <2>1. \A e \in Events, c \in Channels : db[Publication(e, c)] = NoRow
    <3> SUFFICES ASSUME NEW e \in Events, NEW c \in Channels
                 PROVE  db[Publication(e, c)] = NoRow
      OBVIOUS
    <3>1. Publication(e, c) \in Rows /\ Publication(e, c)[1] = "publication"
      BY RowFacts DEF Table
    <3> QED
      BY <3>1 DEF Init, Stored0
  <2>2. /\ DOMAIN Empty = {} /\ \A x \in Sessions : writes[x] = Empty
        /\ \A e \in Events, c \in Channels : Publication(e, c) \in Rows
    BY RowFacts DEF Init, Empty, Table
  <2>3. \A x \in Sessions : \A e \in Events, c \in Channels : View(x)[Publication(e, c)] = NoRow
    BY <2>1, <2>2 DEF View
  <2> QED
    BY <2>1, <2>2, <2>3 DEF Referential, Complete, References, Exists, Publishes
<1>2. ASSUME LockInv, Referential, [Next]_vars
      PROVE  Referential'
  <2>1. CASE UNCHANGED vars
    <3>1. UNCHANGED <<db, writes, shares>>
      BY <2>1 DEF vars, session
    <3> QED
      BY <1>2, <3>1, NoWriteReferential
  <2>2. ASSUME NEW x \in Sessions, Request(x)
        PROVE  Referential'
    <3>1. UNCHANGED <<db, writes, shares>>
      BY <1>2, <2>2, RequestBegins DEF LockInv, Begin
    <3> QED
      BY <1>2, <3>1, NoWriteReferential
  <2>3. ASSUME NEW x \in Sessions, Statement(x), UNCHANGED db
        PROVE  Referential'
    BY <1>2, <2>3, StatementReferential
  <2>4. ASSUME NEW x \in Sessions, Commit(x) \/ Rollback(x)
        PROVE  Referential'
    BY <1>2, <2>4, CommitReferential, RollbackReferential
  <2> QED
    BY <1>2, <2>1, <2>2, <2>3, <2>4 DEF Next
<1>3. LockInv /\ Referential => PublishedElementsExist
  <2> SUFFICES ASSUME LockInv, Referential, NEW e \in Events, NEW c \in Channels,
                      Exists(db, Publication(e, c)), NEW el \in db[Publication(e, c)].elements
               PROVE  Exists(db, Element(e, el))
    BY DEF PublishedElementsExist, OnChannels
  <2>1. db[Publication(e, c)] \in Publications
    BY RowTypes DEF LockInv, Typed, Exists
  <2>2. el \in Elements
    BY <2>1 DEF Publications
  <2> QED
    BY <2>2 DEF Referential, Complete, References
<1> QED
  BY <1>1, <1>2, <1>3, LocksInOrder, PTL DEF Spec

-----------------------------------------------------------------------------
(* The projection of transactions that do not overlap *)

PublicationsOf(e) == {Publication(e, c) : c \in Channels}

Current(v, e) == v[SearchEvent(e)] = IF v[Mp(e)].deleted THEN NoRow ELSE EventRow(v, e)

\* A statement that will bring the row of e up to date, whatever the ones
\* before it change; and the ones it expands to.
Reprojects(v, st, e) ==
  \/ st = ProjectEvent(e)
  \/ st[1] = "projectMembers" /\ e \in Members(v, st[2])
Derived(st, e) ==
  \/ st[1] = "eventRow" /\ st[2] = e
  \/ st[1] \in {"put", "delete"} /\ st[2] = SearchEvent(e)
Refreshes(v, st, e) == Reprojects(v, st, e) \/ Derived(st, e)

\* A statement that changes what the row of e is computed from.
Dirties(v, st, e) ==
  \/ st[1] = "put" /\ st[2] = Policy(e)
  \/ st[1] \in {"setSeries", "tombstone"} /\ st[2] = Mp(e)
  \/ st[1] \in {"delete", "pin", "putPin", "reference"} /\ st[2] \in PublicationsOf(e)
  \/ st[1] = "setTitle" /\ e \in Members(v, st[2][2])
  \/ st[1] = "override" /\ e \in Members(v, st[2])

Covered(p, v) ==
  \A e \in Events : \A i \in DOMAIN p :
    Dirties(v, p[i], e) => \E j \in DOMAIN p : i < j /\ Reprojects(v, p[j], e)

\* What was derived for a row is still right when it is written.
Right(p, v) ==
  \A e \in Events : \A i \in DOMAIN p : Derived(p[i], e) =>
    /\ Low(p[1]) >= 8
    /\ p[i][1] = "delete" => v[Mp(e)].deleted
    /\ p[i][1] # "delete" => ~v[Mp(e)].deleted
    /\ p[i][1] = "put" => p[i][3] = EventRow(v, e)

\* A program that changes a mediapackage refreshes no members.
Moves(st) == st[1] \in {"setSeries", "tombstone"} /\ st[2][1] = "mediapackage"
Gathers(st) == st[1] \in {"setTitle", "override", "projectMembers"}
Single(p) == \A i, j \in DOMAIN p : ~(Moves(p[i]) /\ Gathers(p[j]))

SerialOf(p, v) ==
  /\ Covered(p, v) /\ Right(p, v) /\ Single(p)
  /\ \A e \in Events : Current(v, e) \/ \E i \in DOMAIN p : Refreshes(v, p[i], e)

\* As long as no two transactions have overlapped, the row of every event is
\* right in the database, and in the open transaction it is, or a statement
\* to come refreshes it.
Serial ==
  ~overlapped =>
    /\ \A x, y \in open : x = y
    /\ \A e \in Events : Current(db, e)
    /\ \A x \in open : SerialOf(todo[x], View(x))

\* The row of e does not change, except in the projection.
Kept(v, u, e) ==
  /\ u[Mp(e)] = v[Mp(e)]
  /\ ~v[Mp(e)].deleted => EventRow(u, e) = EventRow(v, e)

LEMMA EventRowDepends ==
  ASSUME NEW v, NEW u, NEW e, u[Mp(e)] = v[Mp(e)], u[Policy(e)] = v[Policy(e)],
         \A c \in Channels : u[Publication(e, c)] = v[Publication(e, c)],
         v[Mp(e)].series # NoSeries =>
           u[Series(v[Mp(e)].series)].title = v[Series(v[Mp(e)].series)].title
  PROVE  EventRow(u, e) = EventRow(v, e)
<1>1. /\ AclState(u, e) = AclState(v, e) /\ ReadRoles(u, e) = ReadRoles(v, e)
      /\ WriteRoles(u, e) = WriteRoles(v, e)
  BY DEF AclState, ReadRoles, WriteRoles, Allowed, Entries, Exists
<1>2. OnChannels(u, e) = OnChannels(v, e)
  BY DEF OnChannels, Exists
<1>3. (IF v[Mp(e)].series # NoSeries THEN u[Series(v[Mp(e)].series)].title ELSE NoRow)
      = IF v[Mp(e)].series # NoSeries THEN v[Series(v[Mp(e)].series)].title ELSE NoRow
  OBVIOUS
<1>4. u[Publication(e, EngagePlayer)] = v[Publication(e, EngagePlayer)]
  BY DEF Channels
<1> QED
  BY <1>1, <1>2, <1>3, <1>4 DEF EventRow

LEMMA KeptCurrent ==
  ASSUME NEW v, NEW u, NEW e, Kept(v, u, e), u[SearchEvent(e)] = v[SearchEvent(e)],
         Current(v, e)
  PROVE  Current(u, e)
  BY DEF Kept, Current

LEMMA AgreeCurrent ==
  ASSUME NEW v, DOMAIN v = Rows, RowsTyped(v), NEW u, \A k \in Rows : u[k] = v[k],
         NEW e \in Events
  PROVE  Current(v, e) <=> Current(u, e)
<1>1. /\ Mp(e) \in Rows /\ Policy(e) \in Rows /\ SearchEvent(e) \in Rows
      /\ \A c \in Channels : Publication(e, c) \in Rows
      /\ \A s \in SeriesIds : Series(s) \in Rows
  BY RowFacts DEF Table
<1>2. v[Mp(e)].series # NoSeries => v[Mp(e)].series \in SeriesIds
  BY RowTypes
<1>3. EventRow(u, e) = EventRow(v, e)
  BY <1>1, <1>2, EventRowDepends
<1> QED
  BY <1>1, <1>3 DEF Current

\* A statement that dirties a row comes before the projection.
LEMMA DirtyLow ==
  ASSUME NEW st \in Stmts, NEW v, NEW e \in Events, Dirties(v, st, e)
  PROVE  Low(st) < 8
<1>1. /\ Rank(Policy(e)) = 7 /\ Rank(Mp(e)) = 0
      /\ \A k \in PublicationsOf(e) : Rank(k) < 8
  BY RowRanks DEF PublicationsOf, Channels
<1>2. st[1] = "setTitle" => Rank(st[2]) = 0
  <2> SUFFICES ASSUME st[1] = "setTitle"
               PROVE  Rank(st[2]) = 0
    OBVIOUS
  <2>1. st[2] \in Table("series")
    BY StmtFacts
  <2> QED
    BY <2>1 DEF Table, Rank
<1> QED
  BY <1>1, <1>2 DEF Dirties, Low, Keyed

\* The head of a program is executed and the view changes from v to u.
LEMMA ExecuteSerial ==
  ASSUME NEW s \in Seq(Stmts), s # <<>>, InOrder(s), NEW v, SerialOf(s, v), NEW u,
         \A e \in Events : \A i \in DOMAIN s : /\ Dirties(u, s[i], e) <=> Dirties(v, s[i], e)
                                               /\ Reprojects(u, s[i], e) <=> Reprojects(v, s[i], e),
         \A e \in Events :
           \/ Dirties(v, s[1], e)
           \/ /\ Kept(v, u, e)
              /\ \/ Current(u, e)
                 \/ u[SearchEvent(e)] = v[SearchEvent(e)] /\ ~Refreshes(v, s[1], e)
  PROVE  SerialOf(Tail(s), u)
<1> DEFINE p == Tail(s)
<1>1. /\ p \in Seq(Stmts) /\ Len(s) \in Nat \ {0} /\ DOMAIN s = 1 .. Len(s)
      /\ DOMAIN p = 1 .. (Len(s) - 1)
      /\ \A i \in DOMAIN p : p[i] = s[i + 1] /\ p[i] \in Stmts
  OBVIOUS
<1>2. /\ \A i \in DOMAIN p : i + 1 \in DOMAIN s
      /\ \A i \in DOMAIN s : s[i] \in Stmts
      /\ \A j \in DOMAIN s : j > 1 => j - 1 \in DOMAIN p /\ p[j - 1] = s[j]
      /\ 1 \in DOMAIN s
  BY <1>1
<1> HIDE DEF p
<1>3. Single(p)
  BY <1>1, <1>2 DEF SerialOf, Single
<1>4. Covered(p, u)
  <2> SUFFICES ASSUME NEW e \in Events, NEW i \in DOMAIN p, Dirties(u, p[i], e)
               PROVE  \E j \in DOMAIN p : i < j /\ Reprojects(u, p[j], e)
    BY DEF Covered
  <2>1. i + 1 \in DOMAIN s /\ Dirties(v, s[i + 1], e)
    BY <1>1, <1>2
  <2>2. PICK j \in DOMAIN s : i + 1 < j /\ Reprojects(v, s[j], e)
    BY <2>1 DEF SerialOf, Covered
  <2>3. j - 1 \in DOMAIN p /\ i < j - 1 /\ p[j - 1] = s[j]
    BY <1>1, <1>2, <2>2
  <2>4. Reprojects(u, p[j - 1], e)
    BY <2>2, <2>3
  <2> QED
    BY <2>3, <2>4
<1>5. Right(p, u)
  <2> SUFFICES ASSUME NEW e \in Events, NEW i \in DOMAIN p, Derived(p[i], e)
               PROVE  /\ Low(p[1]) >= 8
                      /\ p[i][1] = "delete" => u[Mp(e)].deleted
                      /\ p[i][1] # "delete" => ~u[Mp(e)].deleted
                      /\ p[i][1] = "put" => p[i][3] = EventRow(u, e)
    BY DEF Right
  <2>1. /\ Low(s[1]) >= 8
        /\ p[i][1] = "delete" => v[Mp(e)].deleted
        /\ p[i][1] # "delete" => ~v[Mp(e)].deleted
        /\ p[i][1] = "put" => p[i][3] = EventRow(v, e)
    BY <1>1, <1>2 DEF SerialOf, Right
  <2>2. Low(s[1]) \in 0 .. 9 /\ Top(s[1]) \in 0 .. 9 /\ Low(s[1]) <= Top(s[1])
    BY <1>2, RankFacts
  <2>3. ~Dirties(v, s[1], e)
    BY <1>2, <2>1, <2>2, DirtyLow
  <2>4. Kept(v, u, e)
    BY <2>3
  <2>5. Low(p[1]) >= 8
    <3>1. 1 \in DOMAIN p /\ p[1] = s[2] /\ 2 \in DOMAIN s /\ p[1] \in Stmts
      BY <1>1
    <3>2. Ordered(Top(s[1]), Low(s[2])) /\ Low(s[2]) \in 0 .. 9
      BY <1>2, <2>1, <3>1, RankFacts, AtTheStart DEF InOrder, Precedes
    <3> QED
      BY <2>1, <2>2, <3>1, <3>2 DEF Ordered
  <2> QED
    BY <2>1, <2>4, <2>5 DEF Kept
<1>6. ASSUME NEW e \in Events
      PROVE  Current(u, e) \/ \E i \in DOMAIN p : Refreshes(u, p[i], e)
  <2>1. ASSUME NEW j \in DOMAIN s, j > 1, Refreshes(v, s[j], e)
        PROVE  \E i \in DOMAIN p : Refreshes(u, p[i], e)
    <3>1. j - 1 \in DOMAIN p /\ p[j - 1] = s[j]
      BY <1>2, <2>1
    <3>2. Refreshes(u, s[j], e)
      BY <2>1 DEF Refreshes
    <3> QED
      BY <3>1, <3>2
  <2>2. CASE Dirties(v, s[1], e)
    <3>1. PICK j \in DOMAIN s : 1 < j /\ Reprojects(v, s[j], e)
      BY <1>2, <2>2 DEF SerialOf, Covered
    <3> QED
      BY <1>1, <2>1, <3>1 DEF Refreshes
  <2>3. CASE Kept(v, u, e) /\ u[SearchEvent(e)] = v[SearchEvent(e)] /\ ~Refreshes(v, s[1], e)
    <3>1. CASE Current(v, e)
      BY <2>3, <3>1, KeptCurrent
    <3>2. ASSUME NEW i \in DOMAIN s, Refreshes(v, s[i], e)
          PROVE  i > 1
      BY <1>1, <2>3, <3>2
    <3> QED
      BY <2>1, <3>1, <3>2 DEF SerialOf
  <2> QED
    BY <2>2, <2>3
<1> QED
  BY <1>3, <1>4, <1>5, <1>6 DEF SerialOf, p

\* The head of a program is replaced by what it expands to.
LEMMA ExpandSerial ==
  ASSUME NEW s \in Seq(Stmts), s # <<>>, InOrder(s), NEW v, SerialOf(s, v),
         NEW q \in Seq(Stmts), Within(q, s[1]),
         \A i \in DOMAIN q : ~Moves(q[i]) /\ ~Gathers(q[i]),
         \A e \in Events :
           /\ \A i \in DOMAIN q :
                /\ Dirties(v, q[i], e) => Dirties(v, s[1], e)
                /\ Derived(q[i], e) =>
                     /\ Low(s[1]) >= 8
                     /\ q[i][1] = "delete" => v[Mp(e)].deleted
                     /\ q[i][1] # "delete" => ~v[Mp(e)].deleted
                     /\ q[i][1] = "put" => q[i][3] = EventRow(v, e)
           /\ Refreshes(v, s[1], e) => \E i \in DOMAIN q : Refreshes(v, q[i], e)
  PROVE  SerialOf(q \o Tail(s), v)
<1> DEFINE p == q \o Tail(s)
<1>1. /\ p \in Seq(Stmts) /\ Len(p) = Len(q) + Len(s) - 1 /\ DOMAIN p = 1 .. Len(p)
      /\ \A i \in DOMAIN p : p[i] = IF i <= Len(q) THEN q[i] ELSE s[i - Len(q) + 1]
  OBVIOUS
<1>2. /\ Len(q) \in Nat /\ Len(s) \in Nat \ {0} /\ DOMAIN q = 1 .. Len(q)
      /\ DOMAIN s = 1 .. Len(s) /\ \A i \in DOMAIN s : s[i] \in Stmts
      /\ \A i \in DOMAIN q : q[i] \in Stmts
  OBVIOUS
<1> HIDE DEF p
<1>3. \A i \in DOMAIN q : i \in DOMAIN p /\ p[i] = q[i]
  BY <1>1, <1>2
<1>4. \A i \in DOMAIN s : i > 1 => i + Len(q) - 1 \in DOMAIN p /\ p[i + Len(q) - 1] = s[i]
  BY <1>1, <1>2
<1>5. \A i \in DOMAIN p : \/ i \in DOMAIN q /\ p[i] = q[i]
                          \/ /\ i > Len(q) /\ i - Len(q) + 1 \in DOMAIN s /\ i - Len(q) + 1 > 1
                             /\ p[i] = s[i - Len(q) + 1]
  BY <1>1, <1>2
<1>6. Single(p)
  <2> SUFFICES ASSUME NEW i \in DOMAIN p, NEW j \in DOMAIN p, Moves(p[i]), Gathers(p[j])
               PROVE  FALSE
    BY DEF Single
  <2> QED
    BY <1>5 DEF SerialOf, Single
<1>7. ASSUME NEW e \in Events, NEW m \in DOMAIN s, Dirties(v, s[m], e)
      PROVE  \E j \in DOMAIN p : m + Len(q) - 1 < j /\ Len(q) < j /\ Reprojects(v, p[j], e)
  <2>1. PICK l \in DOMAIN s : m < l /\ Reprojects(v, s[l], e)
    BY <1>7 DEF SerialOf, Covered
  <2>2. l > 1 /\ l + Len(q) - 1 \in DOMAIN p /\ p[l + Len(q) - 1] = s[l]
        /\ m + Len(q) - 1 < l + Len(q) - 1 /\ Len(q) < l + Len(q) - 1
    BY <1>2, <1>4, <2>1
  <2> QED
    BY <2>1, <2>2
<1>8. Covered(p, v)
  <2> SUFFICES ASSUME NEW e \in Events, NEW i \in DOMAIN p, Dirties(v, p[i], e)
               PROVE  \E j \in DOMAIN p : i < j /\ Reprojects(v, p[j], e)
    BY DEF Covered
  <2>1. CASE i \in DOMAIN q /\ p[i] = q[i]
    <3>1. Dirties(v, s[1], e) /\ 1 \in DOMAIN s
      BY <1>2, <2>1
    <3>2. PICK j \in DOMAIN p : Len(q) < j /\ Reprojects(v, p[j], e)
      BY <1>7, <3>1
    <3> QED
      BY <1>1, <1>2, <2>1, <3>2
  <2>2. CASE i > Len(q) /\ i - Len(q) + 1 \in DOMAIN s /\ p[i] = s[i - Len(q) + 1]
    <3>1. PICK j \in DOMAIN p : (i - Len(q) + 1) + Len(q) - 1 < j /\ Reprojects(v, p[j], e)
      BY <1>7, <2>2
    <3> QED
      BY <1>1, <1>2, <3>1
  <2> QED
    BY <1>5, <2>1, <2>2
<1>9. ASSUME Low(s[1]) >= 8, 1 \in DOMAIN p
      PROVE  Low(p[1]) >= 8
  <2>1. Low(s[1]) \in 0 .. 9 /\ Top(s[1]) \in 0 .. 9 /\ Low(s[1]) <= Top(s[1])
    BY <1>2, RankFacts
  <2>2. CASE 1 \in DOMAIN q
    <3>1. p[1] = q[1] /\ Low(s[1]) <= Low(q[1]) /\ Low(q[1]) \in 0 .. 9
      BY <1>2, <1>3, <2>2, RankFacts DEF Within
    <3> QED
      BY <1>9, <2>1, <3>1
  <2>3. CASE 1 \notin DOMAIN q
    <3>1. Len(q) = 0 /\ 2 \in DOMAIN s /\ p[1] = s[2]
      BY <1>1, <1>2, <1>9, <2>3
    <3>2. Ordered(Top(s[1]), Low(s[2])) /\ Low(s[2]) \in 0 .. 9
      BY <1>2, <1>9, <3>1, RankFacts, AtTheStart DEF InOrder, Precedes
    <3> QED
      BY <1>9, <2>1, <3>1, <3>2 DEF Ordered
  <2> QED
    BY <2>2, <2>3
<1>10. Right(p, v)
  <2> SUFFICES ASSUME NEW e \in Events, NEW i \in DOMAIN p, Derived(p[i], e)
               PROVE  /\ Low(p[1]) >= 8
                      /\ p[i][1] = "delete" => v[Mp(e)].deleted
                      /\ p[i][1] # "delete" => ~v[Mp(e)].deleted
                      /\ p[i][1] = "put" => p[i][3] = EventRow(v, e)
    BY DEF Right
  <2>1. /\ Low(s[1]) >= 8
        /\ p[i][1] = "delete" => v[Mp(e)].deleted
        /\ p[i][1] # "delete" => ~v[Mp(e)].deleted
        /\ p[i][1] = "put" => p[i][3] = EventRow(v, e)
    BY <1>5 DEF SerialOf, Right
  <2>2. 1 \in DOMAIN p
    BY <1>1, <1>2
  <2> QED
    BY <1>9, <2>1, <2>2
<1>11. ASSUME NEW e \in Events
       PROVE  Current(v, e) \/ \E i \in DOMAIN p : Refreshes(v, p[i], e)
  <2>1. ASSUME NEW j \in DOMAIN s, Refreshes(v, s[j], e)
        PROVE  \E i \in DOMAIN p : Refreshes(v, p[i], e)
    <3>1. CASE j = 1
      BY <1>3, <2>1, <3>1
    <3>2. CASE j > 1
      BY <1>4, <2>1, <3>2
    <3> QED
      BY <1>2, <3>1, <3>2
  <2> QED
    BY <2>1 DEF SerialOf
<1> QED
  BY <1>6, <1>8, <1>10, <1>11 DEF SerialOf, p

Overlay(v, k, row) == [l \in Rows |-> IF l = k THEN row ELSE v[l]]

\* Which writes leave what the row of e is computed from alone.
LEMMA KeptUnless ==
  ASSUME NEW v, DOMAIN v = Rows, RowsTyped(v), NEW k \in Rows, NEW row, NEW e \in Events,
         k \notin {Mp(e), Policy(e)} \cup PublicationsOf(e) \/ row = v[k],
         k[1] = "series" => row.title = v[k].title \/ e \notin Members(v, k[2])
  PROVE  Kept(v, Overlay(v, k, row), e)
<1> DEFINE u == Overlay(v, k, row)
           s == v[Mp(e)].series
<1>1. /\ Mp(e) \in Rows /\ Policy(e) \in Rows
      /\ \A c \in Channels : Publication(e, c) \in Rows
  BY RowFacts DEF Table
<1>2. /\ u[Mp(e)] = v[Mp(e)] /\ u[Policy(e)] = v[Policy(e)]
      /\ \A c \in Channels : u[Publication(e, c)] = v[Publication(e, c)]
  BY <1>1 DEF Overlay, PublicationsOf
<1>3. s # NoSeries => Series(s) \in Rows
  BY RowTypes, RowFacts DEF Table
<1>4. ASSUME ~v[Mp(e)].deleted, s # NoSeries
      PROVE  u[Series(s)].title = v[Series(s)].title
  <2>1. CASE k = Series(s)
    <3>1. k[1] = "series" /\ k[2] = s
      BY <2>1 DEF Series
    <3>2. e \in Members(v, k[2])
      BY <1>4, <3>1 DEF Members
    <3> QED
      BY <1>3, <1>4, <2>1, <3>1, <3>2 DEF Overlay
  <2>2. CASE k # Series(s)
    BY <1>3, <1>4, <2>2 DEF Overlay
  <2> QED
    BY <2>1, <2>2
<1> HIDE DEF u
<1>5. ~v[Mp(e)].deleted => EventRow(u, e) = EventRow(v, e)
  BY <1>2, <1>4, EventRowDepends
<1>6. Kept(v, u, e)
  BY <1>2, <1>5 DEF Kept
<1> QED
  BY <1>6 DEF u

LEMMA StableMembers ==
  ASSUME NEW v, NEW u, \A e \in Events : u[Mp(e)] = v[Mp(e)]
  PROVE  \A st, e : /\ Dirties(u, st, e) <=> Dirties(v, st, e)
                    /\ Reprojects(u, st, e) <=> Reprojects(v, st, e)
<1>1. \A t : Members(u, t) = Members(v, t)
  BY DEF Members
<1> QED
  BY <1>1 DEF Dirties, Reprojects

LEMMA StableSingle ==
  ASSUME NEW s, Single(s), 1 \in DOMAIN s, Moves(s[1]), NEW v, NEW u
  PROVE  \A e : \A i \in DOMAIN s : /\ Dirties(u, s[i], e) <=> Dirties(v, s[i], e)
                                    /\ Reprojects(u, s[i], e) <=> Reprojects(v, s[i], e)
<1>1. \A i \in DOMAIN s : ~Gathers(s[i])
  BY DEF Single
<1> QED
  BY <1>1 DEF Gathers, Dirties, Reprojects

LEMMA WriteSerial ==
  ASSUME LockInv, NEW x \in Sessions, SerialOf(todo[x], View(x)), NEW op, Next1(x, op),
         NEW k \in Rows, NEW row, Write(x, k, row), Continue(x, <<>>), UNCHANGED db,
         k[1] = "mediapackage" => Moves(Head(todo[x])) \/ row = View(x)[k],
         \A e \in Events :
           \/ Dirties(View(x), Head(todo[x]), e)
           \/ /\ Kept(View(x), Overlay(View(x), k, row), e)
              /\ \/ Current(Overlay(View(x), k, row), e)
                 \/ k # SearchEvent(e) /\ ~Refreshes(View(x), Head(todo[x]), e)
  PROVE  SerialOf(todo'[x], View(x)')
<1> DEFINE s == todo[x]
           v == View(x)
           u == Overlay(v, k, row)
<1>1. /\ s \in Seq(Stmts) /\ s # <<>> /\ Head(s) = s[1] /\ 1 \in DOMAIN s
      /\ <<>> \o Tail(s) = Tail(s)
  BY AtHead DEF LockInv
<1>2. InOrder(s)
  BY DEF LockInv, Locals, Local
<1>3. todo'[x] = Tail(s)
  BY <1>1, ContinueStep DEF LockInv
<1>4. View(x)' = u
  BY ViewWrite DEF Overlay
<1>5. \A e \in Events : SearchEvent(e) \in Rows /\ Mp(e) \in Rows
  BY RowFacts DEF Table
<1>6. \A e \in Events : k # SearchEvent(e) => u[SearchEvent(e)] = v[SearchEvent(e)]
  BY <1>5 DEF Overlay
<1> HIDE DEF s, v, u
<1>7. \A e \in Events : \A i \in DOMAIN s : /\ Dirties(u, s[i], e) <=> Dirties(v, s[i], e)
                                            /\ Reprojects(u, s[i], e) <=> Reprojects(v, s[i], e)
  <2>1. CASE Moves(s[1])
    <3>1. Single(s)
      BY DEF SerialOf, s
    <3> QED
      BY <1>1, <2>1, <3>1, StableSingle
  <2>2. CASE ~Moves(s[1])
    <3>1. \A e \in Events : k = Mp(e) => row = v[k]
      BY <1>1, <2>2 DEF Mp, s, v
    <3>2. \A e \in Events : u[Mp(e)] = v[Mp(e)]
      BY <1>5, <3>1 DEF u, Overlay
    <3> QED
      BY <3>2, StableMembers
  <2> QED
    BY <2>1, <2>2
<1>8. \A e \in Events :
        \/ Dirties(v, s[1], e)
        \/ /\ Kept(v, u, e)
           /\ \/ Current(u, e)
              \/ u[SearchEvent(e)] = v[SearchEvent(e)] /\ ~Refreshes(v, s[1], e)
  BY <1>1, <1>6 DEF s, v, u
<1>9. SerialOf(s, v)
  BY DEF s, v
<1>10. SerialOf(Tail(s), u)
  BY <1>1, <1>2, <1>7, <1>8, <1>9, ExecuteSerial
<1> QED
  BY <1>3, <1>4, <1>10

\* A statement that finds nothing to write.
LEMMA SkipSerial ==
  ASSUME LockInv, NEW x \in Sessions, SerialOf(todo[x], View(x)), NEW op, Next1(x, op),
         Continue(x, <<>>), UNCHANGED <<db, writes>>,
         \A e \in Events : Refreshes(View(x), Head(todo[x]), e) => Current(View(x), e)
  PROVE  SerialOf(todo'[x], View(x)')
<1> DEFINE s == todo[x]
           v == View(x)
<1>1. /\ s \in Seq(Stmts) /\ s # <<>> /\ Head(s) = s[1] /\ 1 \in DOMAIN s
      /\ <<>> \o Tail(s) = Tail(s)
  BY AtHead DEF LockInv
<1>2. InOrder(s)
  BY DEF LockInv, Locals, Local
<1>3. todo'[x] = Tail(s)
  BY <1>1, ContinueStep DEF LockInv
<1>4. View(x)' = v
  BY DEF View
<1> HIDE DEF s, v
<1>5. \A e \in Events : Kept(v, v, e)
  BY DEF Kept
<1>6. SerialOf(s, v)
  BY DEF s, v
<1>7. \A e \in Events : Refreshes(v, s[1], e) => Current(v, e)
  BY <1>1 DEF s, v
<1>8. SerialOf(Tail(s), v)
  BY <1>1, <1>2, <1>5, <1>6, <1>7, ExecuteSerial
<1> QED
  BY <1>3, <1>4, <1>8

\* Rows of different tables, or of different things, are different rows.
LEMMA RowsDiffer ==
  ASSUME NEW k \in Rows, NEW e \in Events
  PROVE  /\ k[1] # "mediapackage" => k # Mp(e)
         /\ k[1] # "publication" => k \notin PublicationsOf(e)
         /\ k[1] # "search_event" => k # SearchEvent(e)
         /\ k[1] # "acl" => k # Policy(e)
  BY DEF Mp, Publication, PublicationsOf, SearchEvent, Policy

\* What each operation refreshes.
LEMMA Refreshers ==
  ASSUME NEW st, NEW v, NEW e, Refreshes(v, st, e)
  PROVE  \/ st[1] \in {"projectEvent", "eventRow"} /\ st[2] = e
         \/ st[1] = "projectMembers" /\ e \in Members(v, st[2])
         \/ st[1] \in {"put", "delete"} /\ st[2] = SearchEvent(e)
  BY DEF Refreshes, Reprojects, Derived, ProjectEvent, Stmt

LEMMA PutSerial ==
  ASSUME LockInv, NEW x \in Sessions, SerialOf(todo[x], View(x)), Put(x), UNCHANGED db
  PROVE  SerialOf(todo'[x], View(x)')
<1> DEFINE k == Key(x)
           h == Head(todo[x])
           v == View(x)
           u == Overlay(v, k, Val(x))
<1>1. Next1(x, "put") /\ Write(x, k, Val(x)) /\ Continue(x, <<>>)
  BY DEF Put
<1>2. /\ h \in Puts /\ h[1] = "put" /\ h = todo[x][1] /\ 1 \in DOMAIN todo[x] /\ h[2] = k
      /\ h[3] = Val(x)
  BY <1>1, AtHead, StmtFacts DEF LockInv, Key, Val
<1>3. k \in Rows /\ k[1] \in {"acl", "search_event", "search_series", "mp_element"}
  BY <1>2 DEF Puts, Table
<1>4. DOMAIN v = Rows /\ RowsTyped(v)
  BY ViewTyped DEF LockInv
<1>5. ASSUME NEW e \in Events, ~Dirties(v, h, e)
      PROVE  Kept(v, u, e) /\ (Current(u, e) \/ (k # SearchEvent(e) /\ ~Refreshes(v, h, e)))
  <2>1. k # Policy(e)
    BY <1>2, <1>5 DEF Dirties
  <2>2. Kept(v, u, e)
    BY <1>3, <1>4, <2>1, RowsDiffer, KeptUnless
  <2>3. CASE k = SearchEvent(e)
    <3>1. ~v[Mp(e)].deleted /\ Val(x) = EventRow(v, e)
      BY <1>2, <2>3 DEF SerialOf, Right, Derived
    <3>2. u[SearchEvent(e)] = Val(x)
      BY <1>3, <2>3 DEF Overlay
    <3> QED
      BY <2>2, <3>1, <3>2 DEF Kept, Current
  <2>4. CASE k # SearchEvent(e)
    BY <1>2, <2>2, <2>4, Refreshers
  <2> QED
    BY <2>2, <2>3, <2>4
<1> HIDE DEF k, h, v, u
<1>6. k[1] = "mediapackage" => Moves(h) \/ Val(x) = v[k]
  BY <1>3
<1> QED
  BY <1>1, <1>3, <1>5, <1>6, WriteSerial DEF k, h, v, u

LEMMA DeleteSerial ==
  ASSUME LockInv, NEW x \in Sessions, SerialOf(todo[x], View(x)), Delete(x), UNCHANGED db
  PROVE  SerialOf(todo'[x], View(x)')
<1> DEFINE k == Key(x)
           h == Head(todo[x])
           v == View(x)
           u == Overlay(v, k, NoRow)
<1>1. Next1(x, "delete") /\ Continue(x, <<>>)
  BY DEF Delete
<1>2. /\ h \in Deletes /\ h[1] = "delete" /\ h = todo[x][1] /\ 1 \in DOMAIN todo[x] /\ h[2] = k
  BY <1>1, AtHead, StmtFacts DEF LockInv, Key
<1>3. /\ k \in Rows
      /\ k[1] \in {"publication", "mp_element", "mp_snapshot", "search_event", "search_series"}
  BY <1>2 DEF Deletes, Table
<1>4. DOMAIN v = Rows /\ RowsTyped(v)
  BY ViewTyped DEF LockInv
<1>5. \A e \in Events : k = SearchEvent(e) => v[Mp(e)].deleted
  BY <1>2 DEF SerialOf, Right, Derived
<1>6. CASE ~Exists(v, k) /\ UNCHANGED writes
  <2>1. \A e \in Events : Refreshes(v, h, e) => Current(v, e)
    BY <1>2, <1>5, <1>6, Refreshers DEF Current, Exists
  <2> QED
    BY <1>1, <1>6, <2>1, SkipSerial
<1>7. CASE Write(x, k, NoRow)
  <2>1. ASSUME NEW e \in Events, ~Dirties(v, h, e)
        PROVE  Kept(v, u, e) /\ (Current(u, e) \/ (k # SearchEvent(e) /\ ~Refreshes(v, h, e)))
    <3>1. k \notin PublicationsOf(e)
      BY <1>2, <2>1 DEF Dirties
    <3>2. Kept(v, u, e)
      BY <1>3, <1>4, <3>1, RowsDiffer, KeptUnless
    <3>3. CASE k = SearchEvent(e)
      <4>1. u[SearchEvent(e)] = NoRow
        BY <1>3, <3>3 DEF Overlay
      <4> QED
        BY <1>5, <3>2, <3>3, <4>1 DEF Kept, Current
    <3>4. CASE k # SearchEvent(e)
      BY <1>2, <3>2, <3>4, Refreshers
    <3> QED
      BY <3>2, <3>3, <3>4
  <2> HIDE DEF k, h, v, u
  <2>2. k[1] = "mediapackage" => Moves(h) \/ NoRow = v[k]
    BY <1>3
  <2> QED
    BY <1>1, <1>3, <1>7, <2>1, <2>2, WriteSerial DEF k, h, v, u
<1> QED
  BY <1>6, <1>7 DEF Delete

\* The rows a mediapackage or a series has after an update.
LEMMA UpdateSerial ==
  ASSUME LockInv, NEW x \in Sessions, SerialOf(todo[x], View(x)), UNCHANGED db,
         NEW op \in {"tombstone", "setSeries", "setTitle", "lock", "addVersion", "putPin"},
         Next1(x, op), NEW row, Write(x, Key(x), row), Continue(x, <<>>),
         op = "tombstone" /\ Key(x)[1] = "series" => row.title = View(x)[Key(x)].title,
         op = "lock" => row = View(x)[Key(x)]
  PROVE  SerialOf(todo'[x], View(x)')
<1> DEFINE k == Key(x)
           h == Head(todo[x])
           v == View(x)
           u == Overlay(v, k, row)
<1>1. h[1] = op /\ h[2] = k
  BY AtHead DEF LockInv, Key
<1>2. /\ k \in Rows
      /\ op \in {"setSeries", "lock"} => k[1] = "mediapackage"
      /\ op = "tombstone" => k[1] \in {"mediapackage", "series"}
      /\ op = "setTitle" => k[1] = "series"
      /\ op = "addVersion" => k[1] = "mp_snapshot"
      /\ op = "putPin" => k[1] = "publication"
  BY KeyFacts DEF LockInv, Table
<1>3. DOMAIN v = Rows /\ RowsTyped(v)
  BY ViewTyped DEF LockInv
<1>4. ASSUME NEW e \in Events, ~Dirties(v, h, e)
      PROVE  Kept(v, u, e) /\ k # SearchEvent(e) /\ ~Refreshes(v, h, e)
  <2>1. k \notin {Mp(e), Policy(e)} \cup PublicationsOf(e) \/ row = v[k]
    BY <1>1, <1>2, <1>4, RowsDiffer DEF Dirties
  <2>2. k[1] = "series" => row.title = v[k].title \/ e \notin Members(v, k[2])
    BY <1>1, <1>2, <1>4 DEF Dirties
  <2>3. Kept(v, u, e)
    BY <1>2, <1>3, <2>1, <2>2, KeptUnless
  <2>4. k # SearchEvent(e)
    BY <1>2, RowsDiffer
  <2>5. ~Refreshes(v, h, e)
    BY <1>1, Refreshers
  <2> QED
    BY <2>3, <2>4, <2>5
<1>5. k[1] = "mediapackage" => Moves(h) \/ row = v[k]
  BY <1>1, <1>2 DEF Moves
<1> HIDE DEF k, h, v, u
<1> QED
  BY <1>2, <1>4, <1>5, WriteSerial DEF k, h, v, u

\* An early end: the transaction has written nothing yet.
LEMMA AbandonSerial ==
  ASSUME LockInv, NEW x \in Sessions, \A e \in Events : Current(db, e),
         Next1(x, "tombstone"), todo' = [todo EXCEPT ![x] = <<>>], UNCHANGED <<db, writes>>
  PROVE  SerialOf(todo'[x], View(x)')
<1> DEFINE h == Head(todo[x])
<1>1. /\ h = todo[x][1] /\ 1 \in DOMAIN todo[x] /\ h[1] = "tombstone" /\ h[2] = Key(x)
      /\ h \in Stmts
  BY AtHead DEF LockInv, Key
<1>2. Low(h) = 0
  <2>1. Key(x)[1] \in {"mediapackage", "series"}
    BY KeyFacts DEF LockInv, Table
  <2> QED
    BY <1>1, <2>1 DEF Low, Keyed, Unranked, Rank
<1>3. DOMAIN writes[x] = {}
  <2> SUFFICES ASSUME NEW k \in DOMAIN writes[x]
               PROVE  FALSE
    OBVIOUS
  <2>1. Ordered(Rank(k), 0) /\ Rank(k) \in 0 .. 9
    BY <1>1, <1>2, RankType DEF LockInv, Locals, Local, Above, Below, Unranked
  <2> QED
    BY <2>1 DEF Ordered
<1>4. \A k \in Rows : View(x)'[k] = db[k]
  BY <1>3 DEF View
<1>5. \A e \in Events : Current(View(x)', e)
  BY <1>4, AgreeCurrent DEF LockInv, Typed
<1>6. todo'[x] = <<>>
  BY DEF LockInv, Typed
<1>7. Covered(<<>>, View(x)') /\ Right(<<>>, View(x)') /\ Single(<<>>)
  BY DEF Covered, Right, Single
<1> QED
  BY <1>5, <1>6, <1>7 DEF SerialOf

LEMMA UpdatesSerial ==
  ASSUME LockInv, NEW x \in Sessions, SerialOf(todo[x], View(x)),
         \A e \in Events : Current(db, e), UNCHANGED db,
         Tombstone(x) \/ SetSeries(x) \/ SetTitle(x) \/ LockRow(x) \/ AddVersion(x) \/ PutPin(x)
  PROVE  SerialOf(todo'[x], View(x)')
<1> DEFINE k == Key(x)
           row == View(x)[k]
<1>1. CASE Tombstone(x)
  <2>1. Next1(x, "tombstone")
    BY <1>1 DEF Tombstone
  <2>2. CASE todo' = [todo EXCEPT ![x] = <<>>] /\ UNCHANGED writes
    BY <2>1, <2>2, AbandonSerial
  <2>3. CASE Write(x, k, [row EXCEPT !.deleted = TRUE]) /\ Continue(x, <<>>)
    <3>1. k[1] = "series" => [row EXCEPT !.deleted = TRUE].title = row.title
      <4> SUFFICES ASSUME k[1] = "series"
                   PROVE  [row EXCEPT !.deleted = TRUE].title = row.title
        OBVIOUS
      <4>1. k \in Rows
        BY <2>1, KeyFacts DEF LockInv, Table
      <4>2. row \in RowOf("series")
        BY <4>1, ViewTyped DEF LockInv, RowsTyped
      <4>3. row \in [title : Titles, deleted : BOOLEAN]
        BY <4>2 DEF RowOf
      <4> QED
        BY <4>3
    <3> QED
      BY <2>1, <2>3, <3>1, UpdateSerial
  <2> QED
    BY <1>1, <2>2, <2>3 DEF Tombstone
<1>2. CASE SetSeries(x)
  <2>1. Next1(x, "setSeries") /\ Continue(x, <<>>)
    BY <1>2 DEF SetSeries
  <2>2. CASE UNCHANGED writes
    <3>1. \A e : ~Refreshes(View(x), Head(todo[x]), e)
      BY <2>1, Refreshers DEF Next1
    <3> QED
      BY <2>1, <2>2, <3>1, SkipSerial
  <2>3. CASE Write(x, k, [row EXCEPT !.series = Val(x)])
    BY <2>1, <2>3, UpdateSerial
  <2> QED
    BY <1>2, <2>2, <2>3 DEF SetSeries
<1>3. CASE SetTitle(x)
  BY <1>3, UpdateSerial DEF SetTitle
<1>4. CASE LockRow(x)
  BY <1>4, UpdateSerial DEF LockRow
<1>5. CASE AddVersion(x)
  BY <1>5, UpdateSerial DEF AddVersion
<1>6. CASE PutPin(x)
  BY <1>6, UpdateSerial DEF PutPin
<1> QED
  BY <1>1, <1>2, <1>3, <1>4, <1>5, <1>6

LEMMA ReferenceSerial ==
  ASSUME LockInv, NEW x \in Sessions, SerialOf(todo[x], View(x)), UNCHANGED db, Reference(x)
  PROVE  SerialOf(todo'[x], View(x)')
<1> DEFINE k == Key(x)
           h == Head(todo[x])
           v == View(x)
           row == [v[k] EXCEPT !.elements = Val(x)]
           u == Overlay(v, k, row)
<1>1. Next1(x, "reference") /\ Write(x, k, row) /\ Continue(x, <<>>)
  BY DEF Reference
<1>2. k \in Rows /\ k[1] = "publication"
  BY ReferenceStep DEF LockInv, Table
<1>3. h[1] = "reference" /\ h[2] = k
  BY <1>1 DEF Next1, Key
<1>4. DOMAIN v = Rows /\ RowsTyped(v)
  BY ViewTyped DEF LockInv
<1> HIDE DEF row
<1>5. ASSUME NEW e \in Events, ~Dirties(v, h, e)
      PROVE  Kept(v, u, e) /\ k # SearchEvent(e) /\ ~Refreshes(v, h, e)
  <2>1. k \notin PublicationsOf(e)
    BY <1>3, <1>5 DEF Dirties
  <2>2. Kept(v, u, e) /\ k # SearchEvent(e)
    BY <1>2, <1>4, <2>1, RowsDiffer, KeptUnless
  <2>3. ~Refreshes(v, h, e)
    BY <1>3, Refreshers
  <2> QED
    BY <2>2, <2>3
<1> HIDE DEF k, h, v, u
<1> QED
  BY <1>1, <1>2, <1>5, WriteSerial DEF k, h, v, u

\* An inspection writes nothing that the projection shows.
LEMMA InspectSerial ==
  ASSUME LockInv, NEW x \in Sessions, SerialOf(todo[x], View(x)), UNCHANGED db,
         UpdateTech(x) \/ UpdateDuration(x)
  PROVE  SerialOf(todo'[x], View(x)')
<1> DEFINE h == Head(todo[x])
           v == View(x)
<1>1. PICK op \in Unranked : /\ Next1(x, op) /\ Continue(x, <<>>)
                             /\ \/ UNCHANGED writes
                                \/ \E k \in OwnRows(Key(x)) : Write(x, k, v[k])
  <2>1. CASE UpdateTech(x)
    <3>1. Next1(x, "tech") /\ Continue(x, <<>>)
      BY <2>1 DEF UpdateTech
    <3>2. Val(x) \in Elements
      BY <3>1, KeyFacts DEF LockInv
    <3> QED
      BY <2>1, <3>1, <3>2 DEF UpdateTech, OwnRows, Unranked
  <2>2. CASE UpdateDuration(x)
    BY <2>2 DEF UpdateDuration, OwnRows, Unranked
  <2> QED
    BY <2>1, <2>2
<1>2. h[1] \in Unranked /\ Key(x) \in Events
  BY <1>1, KeyFacts DEF LockInv, Next1
<1>3. \A e : ~Refreshes(v, h, e)
  BY <1>2, Refreshers DEF Unranked
<1>4. CASE UNCHANGED writes
  BY <1>1, <1>3, <1>4, SkipSerial
<1>5. ASSUME NEW k \in OwnRows(Key(x)), Write(x, k, v[k])
      PROVE  SerialOf(todo'[x], View(x)')
  <2>1. k \in Rows /\ k[1] \in {"mediapackage", "mp_element"}
    <3>1. k \in Table("mediapackage") \cup Table("mp_element")
      BY <1>2, <1>5, RowFacts DEF OwnRows
    <3> QED
      BY <3>1 DEF Table
  <2>2. DOMAIN v = Rows /\ RowsTyped(v)
    BY ViewTyped DEF LockInv
  <2> DEFINE row == v[k]
  <2>3. ASSUME NEW e \in Events
        PROVE  Kept(v, Overlay(v, k, row), e) /\ k # SearchEvent(e)
    <3>1. k[1] # "series" /\ k[1] # "search_event"
      BY <2>1
    <3>2. Kept(v, Overlay(v, k, row), e)
      BY <2>1, <2>2, <3>1, KeptUnless
    <3> QED
      BY <2>1, <3>1, <3>2, RowsDiffer
  <2> HIDE DEF v, h
  <2> QED
    BY <1>1, <1>3, <1>5, <2>1, <2>3, WriteSerial DEF v, h
<1> QED
  BY <1>1, <1>4, <1>5

LEMMA ReadSerial ==
  ASSUME LockInv, NEW x \in Sessions, SerialOf(todo[x], View(x)), UNCHANGED <<db, writes>>,
         NEW op, Next1(x, op), NEW q \in Seq(Stmts), Continue(x, q),
         \A i \in DOMAIN q : /\ Low(Head(todo[x])) <= Low(q[i]) /\ Top(q[i]) <= Top(Head(todo[x]))
                             /\ ~Moves(q[i]) /\ ~Gathers(q[i]),
         \A e \in Events :
           /\ \A i \in DOMAIN q :
                /\ Dirties(View(x), q[i], e) => Dirties(View(x), Head(todo[x]), e)
                /\ Derived(q[i], e) =>
                     /\ Low(Head(todo[x])) >= 8
                     /\ q[i][1] = "delete" => View(x)[Mp(e)].deleted
                     /\ q[i][1] # "delete" => ~View(x)[Mp(e)].deleted
                     /\ q[i][1] = "put" => q[i][3] = EventRow(View(x), e)
           /\ Refreshes(View(x), Head(todo[x]), e) => \E i \in DOMAIN q : Refreshes(View(x), q[i], e)
  PROVE  SerialOf(todo'[x], View(x)')
<1> DEFINE s == todo[x]
           v == View(x)
<1>1. s \in Seq(Stmts) /\ s # <<>> /\ Head(s) = s[1]
  BY AtHead DEF LockInv
<1>2. InOrder(s)
  BY DEF LockInv, Locals, Local
<1>3. todo'[x] = q \o Tail(s)
  BY ContinueStep DEF LockInv
<1>4. View(x)' = v
  BY DEF View
<1>5. Within(q, s[1])
  BY <1>1 DEF Within
<1>6. SerialOf(s, v)
  OBVIOUS
<1>7. /\ \A i \in DOMAIN q : ~Moves(q[i]) /\ ~Gathers(q[i])
      /\ \A e \in Events :
           /\ \A i \in DOMAIN q :
                /\ Dirties(v, q[i], e) => Dirties(v, s[1], e)
                /\ Derived(q[i], e) =>
                     /\ Low(s[1]) >= 8
                     /\ q[i][1] = "delete" => v[Mp(e)].deleted
                     /\ q[i][1] # "delete" => ~v[Mp(e)].deleted
                     /\ q[i][1] = "put" => q[i][3] = EventRow(v, e)
           /\ Refreshes(v, s[1], e) => \E i \in DOMAIN q : Refreshes(v, q[i], e)
  BY <1>1
<1> HIDE DEF s, v
<1>8. SerialOf(q \o Tail(s), v)
  BY <1>1, <1>2, <1>5, <1>6, <1>7, ExpandSerial
<1> QED
  BY <1>3, <1>4, <1>8 DEF s

\* The case of one statement.
LEMMA ReadOneSerial ==
  ASSUME LockInv, NEW x \in Sessions, SerialOf(todo[x], View(x)), UNCHANGED <<db, writes>>,
         NEW op, Next1(x, op), NEW st, Continue(x, <<st>>),
         NEW low, NEW top, Ranked(st, low, top),
         Low(Head(todo[x])) <= low, top <= Top(Head(todo[x])), ~Moves(st), ~Gathers(st),
         \A e \in Events :
           /\ Dirties(View(x), st, e) => Dirties(View(x), Head(todo[x]), e)
           /\ Derived(st, e) =>
                /\ Low(Head(todo[x])) >= 8
                /\ st[1] = "delete" => View(x)[Mp(e)].deleted
                /\ st[1] # "delete" => ~View(x)[Mp(e)].deleted
                /\ st[1] = "put" => st[3] = EventRow(View(x), e)
           /\ Refreshes(View(x), Head(todo[x]), e) => Refreshes(View(x), st, e)
  PROVE  SerialOf(todo'[x], View(x)')
<1> DEFINE q == <<st>>
<1>1. q \in Seq(Stmts) /\ DOMAIN q = {1} /\ q[1] = st
  BY DEF Ranked
<1>2. Continue(x, q)
  OBVIOUS
<1> HIDE DEF q
<1>3. \A i \in DOMAIN q : /\ Low(Head(todo[x])) <= Low(q[i]) /\ Top(q[i]) <= Top(Head(todo[x]))
                          /\ ~Moves(q[i]) /\ ~Gathers(q[i])
  BY <1>1 DEF Ranked
<1> QED
  BY <1>1, <1>2, <1>3, ReadSerial

LEMMA PinSerial ==
  ASSUME LockInv, NEW x \in Sessions, SerialOf(todo[x], View(x)), UNCHANGED <<db, writes>>,
         ComputePin(x)
  PROVE  SerialOf(todo'[x], View(x)')
<1> DEFINE k == Key(x)
           h == Head(todo[x])
           st == Stmt("putPin", k, Pin(View(x), k[2][1]))
<1>1. Next1(x, "pin") /\ Continue(x, <<st>>)
  BY DEF ComputePin
<1>2. k \in Rows /\ k[1] = "publication" /\ Low(h) = Rank(k) /\ Top(h) = Rank(k)
  BY <1>1, KeyFacts DEF LockInv, Table, Keyed
<1>3. k[2][1] \in Events /\ k[2][2] \in Channels /\ k = Publication(k[2][1], k[2][2])
  BY <1>2, RowFacts
<1>4. Ranked(st, Rank(k), Rank(k))
  <2>1. Pin(View(x), k[2][1]) \in Pins
    BY <1>3, ViewTyped, DerivedTypes DEF LockInv
  <2> QED
    BY <1>3, <2>1, UpdateRanks
<1>5. Rank(k) \in 1 .. 2
  BY <1>3, UpdateRanks
<1>6. st[1] = "putPin" /\ st[2] = k /\ h[1] = "pin" /\ h[2] = k
  BY <1>1 DEF Stmt, Next1, Key
<1> HIDE DEF st, k, h
<1>7. ~Moves(st) /\ ~Gathers(st)
  BY <1>6 DEF Moves, Gathers
<1>8. \A e \in Events : /\ Dirties(View(x), st, e) => Dirties(View(x), h, e)
                        /\ ~Derived(st, e)
                        /\ ~Refreshes(View(x), h, e)
  BY <1>6, Refreshers DEF Dirties, Derived
<1> QED
  BY <1>1, <1>2, <1>4, <1>5, <1>7, <1>8, ReadOneSerial DEF h

LEMMA EventRowSerial ==
  ASSUME LockInv, NEW x \in Sessions, SerialOf(todo[x], View(x)), UNCHANGED <<db, writes>>,
         ComputeEventRow(x)
  PROVE  SerialOf(todo'[x], View(x)')
<1> DEFINE f == Key(x)
           h == Head(todo[x])
           st == Stmt("put", SearchEvent(f), EventRow(View(x), f))
<1>1. Next1(x, "eventRow") /\ Continue(x, <<st>>)
  BY DEF ComputeEventRow
<1>2. f \in Events /\ h[1] = "eventRow" /\ h[2] = f /\ h = todo[x][1] /\ 1 \in DOMAIN todo[x]
  BY <1>1, KeyFacts, AtHead DEF LockInv, Key
<1>3. Ranked(st, 8, 8)
  BY <1>2, ViewTyped, PutRanks, DerivedTypes DEF LockInv
<1>4. Low(h) = 8 /\ Top(h) = 8
  BY <1>2 DEF Low, Top, Keyed, Unranked
<1>5. ~View(x)[Mp(f)].deleted
  BY <1>2 DEF SerialOf, Right, Derived
<1>6. st[1] = "put" /\ st[2] = SearchEvent(f) /\ st[3] = EventRow(View(x), f)
  BY DEF Stmt
<1>7. \A e : (SearchEvent(f) = SearchEvent(e) <=> f = e) /\ SearchEvent(f) # Policy(e)
  BY DEF SearchEvent, Policy
<1> HIDE DEF st, f, h
<1>8. ~Moves(st) /\ ~Gathers(st)
  BY <1>6 DEF Moves, Gathers
<1>9. \A e \in Events : /\ ~Dirties(View(x), st, e)
                        /\ Derived(st, e) <=> f = e
                        /\ Refreshes(View(x), h, e) => f = e
  BY <1>2, <1>6, <1>7, Refreshers DEF Dirties, Derived
<1>10. \A e \in Events : Refreshes(View(x), h, e) => Refreshes(View(x), st, e)
  BY <1>9 DEF Refreshes
<1> QED
  BY <1>1, <1>3, <1>4, <1>5, <1>6, <1>8, <1>9, <1>10, ReadOneSerial DEF h

LEMMA SeriesSerial ==
  ASSUME LockInv, NEW x \in Sessions, SerialOf(todo[x], View(x)), UNCHANGED <<db, writes>>,
         ReadSeries(x) \/ ComputeSeriesRow(x)
  PROVE  SerialOf(todo'[x], View(x)')
<1> DEFINE t == Key(x)
           h == Head(todo[x])
<1>1. PICK op \in {"projectSeries", "seriesRow"} : Next1(x, op)
  BY DEF ReadSeries, ComputeSeriesRow
<1>2. t \in SeriesIds /\ h[1] = op
  BY <1>1, KeyFacts, AtHead DEF LockInv
<1>3. Low(h) = 9 /\ Top(h) = 9
  BY <1>1, <1>2 DEF Low, Top, Keyed, Unranked
<1>4. PICK st : /\ Continue(x, <<st>>)
                /\ \/ st = Stmt("delete", SearchSeries(t), NoRow)
                   \/ st = Stmt("seriesRow", t, NoRow)
                   \/ st = Stmt("put", SearchSeries(t), SeriesRow(View(x), t))
  BY DEF ReadSeries, ComputeSeriesRow
<1>5. Ranked(st, 9, 9)
  BY <1>2, <1>4, ViewTyped, DeleteRanks, ProjectionRanks, PutRanks, DerivedTypes DEF LockInv
<1>6. \/ st[1] \in {"put", "delete"} /\ st[2] = SearchSeries(t)
      \/ st[1] = "seriesRow"
  BY <1>4 DEF Stmt
<1>7. \A e : /\ SearchSeries(t) # SearchEvent(e) /\ SearchSeries(t) # Policy(e)
             /\ SearchSeries(t) \notin PublicationsOf(e)
  BY DEF SearchSeries, SearchEvent, Policy, Publication, PublicationsOf
<1> HIDE DEF t, h
<1>8. ~Moves(st) /\ ~Gathers(st)
  BY <1>6 DEF Moves, Gathers
<1>9. \A e \in Events : /\ ~Dirties(View(x), st, e) /\ ~Derived(st, e)
                        /\ ~Refreshes(View(x), h, e)
  BY <1>1, <1>2, <1>6, <1>7, Refreshers DEF Dirties, Derived
<1> QED
  BY <1>1, <1>3, <1>4, <1>5, <1>8, <1>9, ReadOneSerial DEF h

LEMMA EventSerial ==
  ASSUME LockInv, NEW x \in Sessions, SerialOf(todo[x], View(x)), UNCHANGED <<db, writes>>,
         ReadEvent(x)
  PROVE  SerialOf(todo'[x], View(x)')
<1> DEFINE f == Key(x)
           h == Head(todo[x])
           v == View(x)
           row == v[Mp(f)]
           st == IF row.deleted THEN Stmt("delete", SearchEvent(f), NoRow)
                 ELSE Stmt("eventRow", f, NoRow)
           rest == IF row.series = NoSeries THEN <<>>
                   ELSE <<Stmt("projectSeries", row.series, NoRow)>>
           q == <<st>> \o rest
<1>1. Next1(x, "projectEvent") /\ Continue(x, q)
  BY DEF ReadEvent
<1>2. f \in Events /\ h[1] = "projectEvent" /\ h[2] = f
  BY <1>1, KeyFacts, AtHead DEF LockInv, Key
<1>3. Low(h) = 8 /\ Top(h) = 9
  BY <1>2 DEF Low, Top, Keyed, Unranked
<1>4. Ranked(st, 8, 8)
  BY <1>2, DeleteRanks, ProjectionRanks
<1>5. /\ \/ row.deleted /\ st[1] = "delete" /\ st[2] = SearchEvent(f)
         \/ ~row.deleted /\ st[1] = "eventRow" /\ st[2] = f
  BY DEF Stmt
<1>6. \A e : /\ SearchEvent(f) = SearchEvent(e) <=> f = e
             /\ SearchEvent(f) \notin PublicationsOf(e)
  BY DEF SearchEvent, Publication, PublicationsOf
<1>7. /\ q \in Seq(Stmts) /\ 1 \in DOMAIN q /\ q[1] = st
      /\ \A i \in DOMAIN q : i # 1 => Ranked(q[i], 9, 9) /\ q[i][1] = "projectSeries"
  <2>1. CASE row.series = NoSeries
    <3>1. rest = <<>>
      BY <2>1
    <3> HIDE DEF rest, st
    <3> QED
      BY <1>4, <3>1 DEF Ranked
  <2>2. CASE row.series # NoSeries
    <3> DEFINE last == Stmt("projectSeries", row.series, NoRow)
    <3>1. row.series \in SeriesIds
      BY <1>2, <2>2, ViewTyped, RowTypes DEF LockInv
    <3>2. Ranked(last, 9, 9) /\ last[1] = "projectSeries"
      BY <3>1, ProjectionRanks DEF Stmt
    <3>3. rest = <<last>>
      BY <2>2
    <3> HIDE DEF rest, st, last
    <3>4. q \in Seq(Stmts) /\ DOMAIN q = 1 .. 2 /\ q[1] = st /\ q[2] = last
      BY <1>4, <3>2, <3>3 DEF Ranked
    <3> QED
      BY <3>2, <3>4
  <2> QED
    BY <2>1, <2>2
<1> HIDE DEF q, st, h, v
<1>8. \A i \in DOMAIN q : /\ 8 <= Low(q[i]) /\ Top(q[i]) <= 9
                          /\ ~Moves(q[i]) /\ ~Gathers(q[i])
  BY <1>4, <1>5, <1>7 DEF Ranked, Moves, Gathers
<1>9. ASSUME NEW e \in Events, NEW i \in DOMAIN q
      PROVE  /\ ~Dirties(v, q[i], e)
             /\ Derived(q[i], e) => f = e /\ i = 1
  BY <1>5, <1>6, <1>7 DEF Dirties, Derived
<1>10. \A e \in Events : Refreshes(v, h, e) => f = e
  BY <1>2, Refreshers
<1>11. Refreshes(v, q[1], f)
  BY <1>5, <1>7 DEF Refreshes, Derived
<1>12. \A e \in Events :
         /\ \A i \in DOMAIN q :
              /\ Dirties(v, q[i], e) => Dirties(v, h, e)
              /\ Derived(q[i], e) =>
                   /\ Low(h) >= 8
                   /\ q[i][1] = "delete" => v[Mp(e)].deleted
                   /\ q[i][1] # "delete" => ~v[Mp(e)].deleted
                   /\ q[i][1] = "put" => q[i][3] = EventRow(v, e)
         /\ Refreshes(v, h, e) => \E i \in DOMAIN q : Refreshes(v, q[i], e)
  BY <1>3, <1>5, <1>7, <1>9, <1>10, <1>11
<1> QED
  BY <1>1, <1>3, <1>7, <1>8, <1>12, ReadSerial DEF v, h

LEMMA MembersSerial ==
  ASSUME LockInv, NEW x \in Sessions, SerialOf(todo[x], View(x)), UNCHANGED <<db, writes>>,
         ReadMembers(x)
  PROVE  SerialOf(todo'[x], View(x)')
<1> DEFINE t == Key(x)
           h == Head(todo[x])
           v == View(x)
           S == Members(v, t)
<1>1. Next1(x, "projectMembers")
  BY DEF ReadMembers
<1>2. t \in SeriesIds /\ S \subseteq Events /\ h[1] = "projectMembers" /\ h[2] = t
  BY <1>1, KeyFacts, AtHead DEF LockInv, Members, Key
<1>3. PICK order \in SetToSeqs(S) :
        Continue(x, [i \in DOMAIN order |-> Stmt("eventRow", order[i], NoRow)]
                    \o <<Stmt("projectSeries", t, NoRow)>>)
  BY DEF ReadMembers
<1> DEFINE last == Stmt("projectSeries", t, NoRow)
           rows == [i \in DOMAIN order |-> Stmt("eventRow", order[i], NoRow)]
           q == rows \o <<last>>
<1>4. /\ Len(order) \in Nat /\ DOMAIN order = 1 .. Len(order)
      /\ \A i \in DOMAIN order : order[i] \in S
      /\ \A e \in S : \E i \in DOMAIN order : order[i] = e
  BY <1>2, OrderFacts
<1>5. \A i \in DOMAIN order : /\ Ranked(rows[i], 8, 8) /\ rows[i][1] = "eventRow"
                              /\ rows[i][2] = order[i]
  BY <1>2, <1>4, ProjectionRanks DEF Stmt
<1>6. Ranked(last, 9, 9) /\ last[1] = "projectSeries"
  BY <1>2, ProjectionRanks DEF Stmt
<1>7. rows \in Seq(Stmts) /\ Len(rows) = Len(order)
  <2>1. rows \in [1 .. Len(order) -> Stmts]
    BY <1>4, <1>5 DEF Ranked
  <2> HIDE DEF rows
  <2> QED
    BY <1>4, <2>1
<1>8. Continue(x, q)
  BY <1>3
<1> HIDE DEF last, rows
<1>9. /\ q \in Seq(Stmts) /\ DOMAIN q = 1 .. (Len(order) + 1)
      /\ \A i \in 1 .. Len(order) : q[i] = rows[i]
      /\ q[Len(order) + 1] = last
  BY <1>4, <1>6, <1>7 DEF Ranked
<1> HIDE DEF q
<1>10. \A i \in DOMAIN q :
         \/ i \in DOMAIN order /\ Ranked(q[i], 8, 8) /\ q[i][1] = "eventRow" /\ q[i][2] = order[i]
         \/ Ranked(q[i], 9, 9) /\ q[i][1] = "projectSeries"
  BY <1>4, <1>5, <1>6, <1>9
<1>11. Low(h) = 8 /\ Top(h) = 9
  BY <1>2 DEF Low, Top, Keyed, Unranked
<1>12. \A i \in DOMAIN q : 8 <= Low(q[i]) /\ Top(q[i]) <= 9 /\ ~Moves(q[i]) /\ ~Gathers(q[i])
  BY <1>10 DEF Ranked, Moves, Gathers
<1>13. \A e \in S : ~v[Mp(e)].deleted
  BY DEF Members
<1> HIDE DEF S, v, h
<1>14. ASSUME NEW e \in Events, NEW i \in DOMAIN q
       PROVE  /\ ~Dirties(v, q[i], e)
              /\ Derived(q[i], e) => q[i][1] = "eventRow" /\ ~v[Mp(e)].deleted
  BY <1>4, <1>10, <1>13 DEF Dirties, Derived
<1>15. ASSUME NEW e \in Events, Refreshes(v, h, e)
       PROVE  \E i \in DOMAIN q : Refreshes(v, q[i], e)
  <2>1. e \in S
    BY <1>2, <1>15, Refreshers DEF S
  <2>2. PICK i \in DOMAIN order : order[i] = e
    BY <1>4, <2>1
  <2>3. i \in DOMAIN q /\ q[i][1] = "eventRow" /\ q[i][2] = e
    BY <1>4, <1>5, <1>9, <2>2
  <2> QED
    BY <2>3 DEF Refreshes, Derived
<1> QED
  BY <1>1, <1>8, <1>9, <1>11, <1>12, <1>14, <1>15, ReadSerial DEF v, h

LEMMA OverrideSerial ==
  ASSUME LockInv, NEW x \in Sessions, SerialOf(todo[x], View(x)), UNCHANGED <<db, writes>>,
         Override(x)
  PROVE  SerialOf(todo'[x], View(x)')
<1> DEFINE t == Key(x)
           h == Head(todo[x])
           v == View(x)
           S == Members(v, t)
<1>1. Next1(x, "override")
  BY DEF Override
<1>2. /\ t \in SeriesIds /\ S \subseteq Events /\ Val(x) \in Entry
      /\ h[1] = "override" /\ h[2] = t
  BY <1>1, KeyFacts, AtHead DEF LockInv, Members, Key
<1>3. PICK order \in SetToSeqs(S) :
        Continue(x, [i \in DOMAIN order |-> SetTx(order[i], Val(x))])
  BY DEF Override
<1> DEFINE q == [i \in DOMAIN order |-> SetTx(order[i], Val(x))]
<1>4. /\ Len(order) \in Nat /\ DOMAIN order = 1 .. Len(order)
      /\ \A i \in DOMAIN order : order[i] \in S
  BY <1>2, OrderFacts
<1>5. \A i \in DOMAIN order : /\ Ranked(q[i], 7, 7) /\ q[i][1] = "put"
                              /\ q[i][2] = Policy(order[i])
  BY <1>2, <1>4, PutRanks DEF Stmt, SetTx
<1>6. q \in Seq(Stmts) /\ DOMAIN q = DOMAIN order
  <2>1. q \in [1 .. Len(order) -> Stmts]
    BY <1>4, <1>5 DEF Ranked
  <2> HIDE DEF q
  <2> QED
    BY <1>4, <2>1
<1>7. Continue(x, q)
  BY <1>3
<1>8. Low(h) = 7 /\ Top(h) = 7
  BY <1>2 DEF Low, Top, Keyed, Unranked
<1>9. \A e, f : /\ Policy(f) = Policy(e) => f = e
                /\ Policy(f) # SearchEvent(e)
  BY DEF Policy, SearchEvent
<1> HIDE DEF q, h, v
<1>10. \A i \in DOMAIN q : 7 <= Low(q[i]) /\ Top(q[i]) <= 7 /\ ~Moves(q[i]) /\ ~Gathers(q[i])
  BY <1>5, <1>6 DEF Ranked, Moves, Gathers
<1>11. ASSUME NEW e \in Events, NEW i \in DOMAIN q
       PROVE  /\ ~Derived(q[i], e)
              /\ Dirties(v, q[i], e) => Dirties(v, h, e)
  BY <1>2, <1>4, <1>5, <1>6, <1>9 DEF Derived, Dirties
<1>12. \A e \in Events : ~Refreshes(v, h, e)
  BY <1>2, Refreshers
<1> QED
  BY <1>1, <1>6, <1>7, <1>8, <1>10, <1>11, <1>12, ReadSerial DEF v, h

LEMMA StatementSerial ==
  ASSUME LockInv, NEW x \in Sessions, SerialOf(todo[x], View(x)),
         \A e \in Events : Current(db, e), UNCHANGED db, Statement(x)
  PROVE  SerialOf(todo'[x], View(x)')
<1>1. \/ ComputePin(x) \/ ReadEvent(x) \/ ComputeEventRow(x) \/ ReadSeries(x)
      \/ ComputeSeriesRow(x) \/ ReadMembers(x) \/ Override(x)
      => UNCHANGED writes
  BY DEF ComputePin, ReadEvent, ComputeEventRow, ReadSeries, ComputeSeriesRow, ReadMembers,
         Override
<1> QED
  BY <1>1, PutSerial, DeleteSerial, UpdatesSerial, ReferenceSerial, InspectSerial, PinSerial,
     EventRowSerial, SeriesSerial, EventSerial, MembersSerial, OverrideSerial DEF Statement

\* The programs refresh what they change, and nothing is derived beforehand.
Refreshing(p) == \A v : Covered(p, v) /\ Right(p, v) /\ Single(p)

\* A program of underived statements whose last one refreshes what the ones
\* before it change.
Ends(p, n) ==
  /\ DOMAIN p = 1 .. n
  /\ (\A i \in 1 .. n : ~Moves(p[i])) \/ (\A i \in 1 .. n : ~Gathers(p[i]))
  /\ \A f \in Events : \A i \in 1 .. n : ~Derived(p[i], f)
  /\ \A v : \A f \in Events : /\ ~Dirties(v, p[n], f)
                              /\ \A i \in 1 .. n :
                                   Dirties(v, p[i], f) => Reprojects(v, p[n], f)

LEMMA EndsRefreshing ==
  ASSUME NEW p, NEW n \in Nat \ {0}, Ends(p, n)
  PROVE  Refreshing(p)
<1> SUFFICES ASSUME NEW v
             PROVE  Covered(p, v) /\ Right(p, v) /\ Single(p)
  BY DEF Refreshing
<1>1. ASSUME NEW f \in Events, NEW i \in 1 .. n, Dirties(v, p[i], f)
      PROVE  i < n /\ n \in 1 .. n /\ Reprojects(v, p[n], f)
  BY <1>1 DEF Ends
<1>2. Covered(p, v)
  BY <1>1 DEF Covered, Ends
<1> QED
  BY <1>2 DEF Right, Single, Ends

LEMMA EventStatements ==
  ASSUME NEW e \in Events
  PROVE  LET st == ProjectEvent(e)
         IN  /\ ~Moves(st) /\ ~Gathers(st)
             /\ \A f \in Events : ~Derived(st, f) /\ \A v : ~Dirties(v, st, f)
             /\ \A v : Reprojects(v, st, e)
  BY DEF ProjectEvent, Stmt, Moves, Gathers, Derived, Dirties, Reprojects

LEMMA SeriesStatements ==
  ASSUME NEW s \in SeriesIds
  PROVE  LET st == ProjectSeries(s)
         IN  /\ ~Moves(st)
             /\ \A f \in Events : ~Derived(st, f) /\ \A v : ~Dirties(v, st, f)
             /\ \A v : \A f \in Members(v, s) : Reprojects(v, st, f)
  BY DEF ProjectSeries, Stmt, Moves, Derived, Dirties, Reprojects

LEMMA SharedKeys ==
  \A e, f : /\ Policy(e) = Policy(f) => e = f
            /\ Mp(e) = Mp(f) => e = f
            /\ Policy(e) # SearchEvent(f) /\ Mp(e) # SearchEvent(f)
            /\ Snapshots(e) # SearchEvent(f) /\ Snapshots(e) \notin PublicationsOf(f)
            /\ \A el : /\ Element(e, el) # SearchEvent(f) /\ Element(e, el) # Policy(f)
                      /\ Element(e, el) \notin PublicationsOf(f)
            /\ \A c : /\ Publication(e, c) # SearchEvent(f)
                     /\ Publication(e, c) \in PublicationsOf(f) => e = f
            /\ \A s : Series(s) # Mp(f)
  BY DEF Policy, Mp, SearchEvent, Snapshots, Element, Publication, PublicationsOf, Series

LEMMA ChangeStatements ==
  /\ \A id, p : LET st == SetTx(id, p) IN
       /\ ~Moves(st) /\ ~Gathers(st)
       /\ \A f \in Events : ~Derived(st, f) /\ \A v : Dirties(v, st, f) => f = id
  /\ \A e, s : LET st == Stmt("setSeries", Mp(e), s) IN
       /\ ~Gathers(st)
       /\ \A f \in Events : ~Derived(st, f) /\ \A v : Dirties(v, st, f) => f = e
  /\ \A e : LET st == Stmt("tombstone", Mp(e), NoRow) IN
       /\ ~Gathers(st)
       /\ \A f \in Events : ~Derived(st, f) /\ \A v : Dirties(v, st, f) => f = e
  /\ \A e, c, val : \A op \in {"delete", "pin", "reference"} :
       LET st == Stmt(op, Publication(e, c), val) IN
       /\ ~Moves(st) /\ ~Gathers(st)
       /\ \A f \in Events : ~Derived(st, f) /\ \A v : Dirties(v, st, f) => f = e
  /\ \A s, t : LET st == Stmt("setTitle", Series(s), t) IN
       /\ ~Moves(st)
       /\ \A f \in Events : ~Derived(st, f) /\ \A v : Dirties(v, st, f) => f \in Members(v, s)
  /\ \A s, p : LET st == Stmt("override", s, p) IN
       /\ ~Moves(st)
       /\ \A f \in Events : ~Derived(st, f) /\ \A v : Dirties(v, st, f) => f \in Members(v, s)
<1>1. /\ \A id, p : LET st == SetTx(id, p) IN
           /\ ~Moves(st) /\ ~Gathers(st)
           /\ \A f \in Events : ~Derived(st, f) /\ \A v : Dirties(v, st, f) => f = id
      /\ \A e, s : LET st == Stmt("setSeries", Mp(e), s) IN
           /\ ~Gathers(st)
           /\ \A f \in Events : ~Derived(st, f) /\ \A v : Dirties(v, st, f) => f = e
      /\ \A e : LET st == Stmt("tombstone", Mp(e), NoRow) IN
           /\ ~Gathers(st)
           /\ \A f \in Events : ~Derived(st, f) /\ \A v : Dirties(v, st, f) => f = e
  BY DEF SetTx, Stmt, Moves, Gathers, Derived, Dirties, Policy, Mp, SearchEvent
<1>2. \A e, c, val : \A op \in {"delete", "pin", "reference"} :
        LET st == Stmt(op, Publication(e, c), val) IN
        /\ ~Moves(st) /\ ~Gathers(st)
        /\ \A f \in Events : ~Derived(st, f) /\ \A v : Dirties(v, st, f) => f = e
  BY DEF Stmt, Moves, Gathers, Derived, Dirties, Policy, Mp, SearchEvent, Publication,
         PublicationsOf
<1>3. \A s : Series(s)[2] = s
  BY DEF Series
<1>4. \A s, t : LET st == Stmt("setTitle", Series(s), t) IN
        /\ ~Moves(st)
        /\ \A f \in Events : ~Derived(st, f) /\ \A v : Dirties(v, st, f) => f \in Members(v, s)
  BY <1>3 DEF Stmt, Moves, Derived, Dirties
<1>5. \A s, p : LET st == Stmt("override", s, p) IN
        /\ ~Moves(st)
        /\ \A f \in Events : ~Derived(st, f) /\ \A v : Dirties(v, st, f) => f \in Members(v, s)
  BY DEF Stmt, Moves, Derived, Dirties
<1> QED
  BY <1>1, <1>2, <1>4, <1>5

\* Statements that change nothing an event's row is computed from.
Harmless(st) ==
  /\ ~Moves(st) /\ ~Gathers(st)
  /\ \A f \in Events : ~Derived(st, f) /\ \A v : ~Dirties(v, st, f)

LEMMA HarmlessStatements ==
  /\ \A e, el : Harmless(Stmt("delete", Element(e, el), NoRow))
  /\ \A e : /\ Harmless(Stmt("delete", Snapshots(e), NoRow))
            /\ Harmless(Stmt("lock", Mp(e), NoRow))
            /\ Harmless(Stmt("addVersion", Snapshots(e), NoRow))
  /\ \A e, el : Harmless(Stmt("put", Element(e, el), "row"))
  /\ \A s : Harmless(Stmt("tombstone", Series(s), NoRow))
  /\ \A s \in SeriesIds : \A p : Harmless(SetTx(s, p))
  /\ \A e, el : Harmless(Stmt("tech", e, el)) /\ Harmless(Stmt("duration", e, el))
  BY SeriesAssumption DEF Harmless, SetTx, Stmt, Moves, Gathers, Derived, Dirties, Policy, Mp,
         SearchEvent, Publication, PublicationsOf, Series, Element, Snapshots

LEMMA AllRefreshing ==
  ASSUME NEW p, OneOfThem(p)
  PROVE  Refreshing(p)
<1>1. ASSUME NEW e \in Events, NEW policy \in Policies
      PROVE  Refreshing(SetACL(e, policy))
  <2> DEFINE a == SetTx(e, policy)
             c == ProjectEvent(e)
             q == <<a, c>>
  <2>1. DOMAIN q = 1 .. 2 /\ q[1] = a /\ q[2] = c
    OBVIOUS
  <2>2. /\ \A i \in 1 .. 2 : ~Moves(q[i])
        /\ \A f \in Events : \A i \in 1 .. 2 : ~Derived(q[i], f)
    BY <2>1, ChangeStatements, EventStatements
  <2>3. \A v : \A f \in Events : /\ ~Dirties(v, q[2], f)
                                 /\ \A i \in 1 .. 2 :
                                      Dirties(v, q[i], f) => Reprojects(v, q[2], f)
    BY <2>1, ChangeStatements, EventStatements
  <2> HIDE DEF q
  <2>4. Refreshing(q)
    <3>1. Ends(q, 2)
      BY <2>1, <2>2, <2>3 DEF Ends
    <3> QED
      BY <3>1, EndsRefreshing
  <2> QED
    BY <2>4 DEF SetACL, q
<1>2. ASSUME NEW e \in Events, NEW s
      PROVE  Refreshing(SetEventDC(e, s))
  <2> DEFINE a == Stmt("setSeries", Mp(e), s)
             c == ProjectEvent(e)
             q == <<a, c>>
  <2>1. DOMAIN q = 1 .. 2 /\ q[1] = a /\ q[2] = c
    OBVIOUS
  <2>2. /\ \A i \in 1 .. 2 : ~Gathers(q[i])
        /\ \A f \in Events : \A i \in 1 .. 2 : ~Derived(q[i], f)
    BY <2>1, ChangeStatements, EventStatements
  <2>3. \A v : \A f \in Events : /\ ~Dirties(v, q[2], f)
                                 /\ \A i \in 1 .. 2 :
                                      Dirties(v, q[i], f) => Reprojects(v, q[2], f)
    BY <2>1, ChangeStatements, EventStatements
  <2> HIDE DEF q
  <2>4. Refreshing(q)
    <3>1. Ends(q, 2)
      BY <2>1, <2>2, <2>3 DEF Ends
    <3> QED
      BY <3>1, EndsRefreshing
  <2> QED
    BY <2>4 DEF SetEventDC, q
<1>3. ASSUME NEW e \in Events, NEW c0, NEW els
      PROVE  Refreshing(Publish(e, c0, els))
  <2> DEFINE a == Stmt("pin", Publication(e, c0), NoRow)
             b == Stmt("reference", Publication(e, c0), els)
             c == ProjectEvent(e)
             q == <<a, b, c>>
  <2>1. DOMAIN q = 1 .. 3 /\ q[1] = a /\ q[2] = b /\ q[3] = c
    OBVIOUS
  <2>2. /\ \A i \in 1 .. 3 : ~Gathers(q[i])
        /\ \A f \in Events : \A i \in 1 .. 3 : ~Derived(q[i], f)
    BY <2>1, ChangeStatements, EventStatements
  <2>3. \A v : \A f \in Events : /\ ~Dirties(v, q[3], f)
                                 /\ \A i \in 1 .. 3 :
                                      Dirties(v, q[i], f) => Reprojects(v, q[3], f)
    BY <2>1, ChangeStatements, EventStatements
  <2> HIDE DEF q
  <2>4. Refreshing(q)
    <3>1. Ends(q, 3)
      BY <2>1, <2>2, <2>3 DEF Ends
    <3> QED
      BY <3>1, EndsRefreshing
  <2> QED
    BY <2>4 DEF Publish, q
<1>4. ASSUME NEW e \in Events
      PROVE  Refreshing(TombstoneEvent(e))
  <2> DEFINE a1 == Stmt("tombstone", Mp(e), NoRow)
             a2 == Stmt("delete", Publication(e, EngagePlayer), NoRow)
             a3 == Stmt("delete", Publication(e, OtherChannel), NoRow)
             a4 == Stmt("delete", Element(e, Source), NoRow)
             a5 == Stmt("delete", Element(e, Encoded), NoRow)
             a6 == Stmt("delete", Snapshots(e), NoRow)
             a7 == ProjectEvent(e)
             q == <<a1, a2, a3, a4, a5, a6, a7>>
  <2>1. /\ DOMAIN q = 1 .. 7
        /\ q[1] = a1 /\ q[2] = a2 /\ q[3] = a3 /\ q[4] = a4 /\ q[5] = a5 /\ q[6] = a6
        /\ q[7] = a7
    OBVIOUS
  <2>2. Harmless(a4) /\ Harmless(a5) /\ Harmless(a6)
    BY HarmlessStatements
  <2>3. \A i \in 1 .. 7 :
          /\ ~Gathers(q[i])
          /\ \A f \in Events : /\ ~Derived(q[i], f)
                               /\ \A v : Dirties(v, q[i], f) => f = e
    <3>1. \A st \in {a1, a2, a3, a7} :
            /\ ~Gathers(st)
            /\ \A f \in Events : ~Derived(st, f) /\ \A v : Dirties(v, st, f) => f = e
      BY ChangeStatements, EventStatements
    <3>2. \A st \in {a4, a5, a6} :
            /\ ~Gathers(st)
            /\ \A f \in Events : ~Derived(st, f) /\ \A v : Dirties(v, st, f) => f = e
      BY <2>2 DEF Harmless
    <3>3. \A i \in 1 .. 7 : q[i] \in {a1, a2, a3, a7} \cup {a4, a5, a6}
      <4> HIDE DEF a1, a2, a3, a4, a5, a6, a7
      <4> QED
        BY <2>1
    <3> HIDE DEF a1, a2, a3, a4, a5, a6, a7, q
    <3> QED
      BY <3>1, <3>2, <3>3
  <2>4. \A v : \A f \in Events : ~Dirties(v, q[7], f) /\ Reprojects(v, q[7], e)
    BY <2>1, EventStatements
  <2> HIDE DEF q
  <2>5. Refreshing(q)
    <3>1. Ends(q, 7)
      BY <2>1, <2>3, <2>4 DEF Ends
    <3> QED
      BY <3>1, EndsRefreshing
  <2> QED
    BY <2>5 DEF TombstoneEvent, q
<1>5. ASSUME NEW a, NEW b, Harmless(a), Harmless(b)
      PROVE  Refreshing(<<a, b>>)
  <2> DEFINE q == <<a, b>>
  <2>1. DOMAIN q = 1 .. 2 /\ q[1] = a /\ q[2] = b
    OBVIOUS
  <2> HIDE DEF q
  <2>2. Refreshing(q)
    <3>1. Ends(q, 2)
      BY <1>5, <2>1 DEF Ends, Harmless
    <3> QED
      BY <3>1, EndsRefreshing
  <2> QED
    BY <2>2 DEF q
<1>6. ASSUME NEW a, ~Moves(a), \A f \in Events : ~Derived(a, f) /\ \A v : ~Dirties(v, a, f)
      PROVE  Refreshing(<<a>>)
  <2> DEFINE q == <<a>>
  <2>1. DOMAIN q = 1 .. 1 /\ q[1] = a
    OBVIOUS
  <2> HIDE DEF q
  <2>2. Refreshing(q)
    <3>1. Ends(q, 1)
      BY <1>6, <2>1 DEF Ends
    <3> QED
      BY <3>1, EndsRefreshing
  <2> QED
    BY <2>2 DEF q
<1>7. ASSUME NEW e \in Events
      PROVE  Refreshing(Snapshot(e)) /\ Refreshing(InsertElement(e)) /\ Refreshing(Materialise(e))
  <2>1. Refreshing(Snapshot(e))
    BY <1>5, HarmlessStatements DEF Snapshot
  <2>2. Refreshing(InsertElement(e))
    BY <1>6, HarmlessStatements DEF InsertElement, Harmless
  <2>3. Refreshing(Materialise(e))
    BY <1>6, EventStatements DEF Materialise
  <2> QED
    BY <2>1, <2>2, <2>3
<1>11. ASSUME NEW e \in Events, NEW tracks \in Seq(Elements)
       PROVE  Refreshing(Inspect(e, tracks))
  <2> DEFINE q == Inspect(e, tracks)
             n == Len(tracks)
             own == [i \in DOMAIN tracks |-> Stmt("tech", e, tracks[i])]
             a == Stmt("duration", e, NoRow)
             b == ProjectEvent(e)
  <2>1. n \in Nat /\ DOMAIN tracks = 1 .. n
    OBVIOUS
  <2>2. Harmless(a) /\ \A i \in 1 .. n : Harmless(own[i])
    BY <2>1, HarmlessStatements
  <2>3. /\ ~Moves(b) /\ ~Gathers(b)
        /\ \A f \in Events : ~Derived(b, f) /\ \A v : ~Dirties(v, b, f)
    BY EventStatements
  <2>4. DOMAIN own = 1 .. n /\ q = own \o <<a, b>>
    BY <2>1 DEF Inspect
  <2> DEFINE S == {own[i] : i \in 1 .. n} \cup {a, b}
  <2>5. a \in S /\ b \in S /\ own \in Seq(S) /\ Len(own) = n
    <3>1. own \in [1 .. n -> S]
      BY <2>1, <2>4
    <3> HIDE DEF own, S
    <3>2. own \in Seq(S) /\ Len(own) = n
      BY <2>1, <3>1
    <3> QED
      BY <3>2 DEF S
  <2> HIDE DEF own, a, b, S, q
  <2>6. LET w == own \o <<a, b>>
        IN  /\ w \in Seq(S) /\ DOMAIN w = 1 .. (Len(own) + 2)
            /\ w[Len(own) + 1] = a /\ w[Len(own) + 2] = b
            /\ \A i \in 1 .. Len(own) : w[i] = own[i]
    BY <2>5, ThenTwo
  <2>7. /\ DOMAIN q = 1 .. (n + 2) /\ q[n + 1] = a /\ q[n + 2] = b
        /\ \A i \in 1 .. n : q[i] = own[i]
    BY <2>4, <2>5, <2>6
  <2>8. \A i \in 1 .. (n + 2) :
          /\ ~Moves(q[i]) /\ ~Gathers(q[i])
          /\ \A f \in Events : ~Derived(q[i], f) /\ \A v : ~Dirties(v, q[i], f)
    <3> TAKE i \in 1 .. (n + 2)
    <3>1. i \in 1 .. n \/ i = n + 1 \/ i = n + 2
      BY <2>1
    <3> QED
      BY <2>2, <2>3, <2>7, <3>1 DEF Harmless
  <2>9. Ends(q, n + 2) /\ n + 2 \in Nat \ {0}
    BY <2>1, <2>7, <2>8 DEF Ends
  <2> QED
    BY <2>9, EndsRefreshing DEF q
<1>8. ASSUME NEW s \in SeriesIds, NEW a, ~Moves(a), \A f \in Events : ~Derived(a, f),
             \A v : \A f \in Events : Dirties(v, a, f) => f \in Members(v, s)
      PROVE  Refreshing(<<a, ProjectSeries(s)>>)
  <2> DEFINE c == ProjectSeries(s)
             q == <<a, c>>
  <2>1. DOMAIN q = 1 .. 2 /\ q[1] = a /\ q[2] = c
    OBVIOUS
  <2>2. /\ \A i \in 1 .. 2 : ~Moves(q[i])
        /\ \A f \in Events : \A i \in 1 .. 2 : ~Derived(q[i], f)
    BY <1>8, <2>1, SeriesStatements
  <2>3. \A v : \A f \in Events : /\ ~Dirties(v, q[2], f)
                                 /\ \A i \in 1 .. 2 :
                                      Dirties(v, q[i], f) => Reprojects(v, q[2], f)
    BY <1>8, <2>1, SeriesStatements
  <2> HIDE DEF q
  <2>4. Refreshing(q)
    <3>1. Ends(q, 2)
      BY <2>1, <2>2, <2>3 DEF Ends
    <3> QED
      BY <3>1, EndsRefreshing
  <2> QED
    BY <2>4 DEF q
<1>9. ASSUME NEW s \in SeriesIds
      PROVE  /\ \A t : Refreshing(PutSeries(s, t))
             /\ Refreshing(TombstoneSeries(s))
  <2>1. Harmless(Stmt("tombstone", Series(s), NoRow))
    BY HarmlessStatements
  <2>2. Refreshing(TombstoneSeries(s))
    BY <1>8, <2>1 DEF TombstoneSeries, Harmless
  <2>3. ASSUME NEW t
        PROVE  Refreshing(PutSeries(s, t))
    <3>1. LET st == Stmt("setTitle", Series(s), t)
          IN  /\ ~Moves(st)
              /\ \A f \in Events : /\ ~Derived(st, f)
                                   /\ \A v : Dirties(v, st, f) => f \in Members(v, s)
      BY ChangeStatements
    <3> QED
      BY <1>8, <3>1 DEF PutSeries
  <2> QED
    BY <2>2, <2>3
<1>10. ASSUME NEW s \in SeriesIds, NEW policy, NEW override \in BOOLEAN
       PROVE  Refreshing(SetSeriesACL(s, policy, override))
  <2> DEFINE a == SetTx(s, policy)
             b == Stmt("override", s, policy)
             c == ProjectSeries(s)
             q == <<a, b, c>>
  <2>1. DOMAIN q = 1 .. 3 /\ q[1] = a /\ q[2] = b /\ q[3] = c
    OBVIOUS
  <2>2. /\ Harmless(a) /\ ~Moves(b) /\ \A f \in Events : ~Derived(b, f)
        /\ \A v : \A f \in Events : Dirties(v, b, f) => f \in Members(v, s)
    BY HarmlessStatements, ChangeStatements
  <2>3. /\ (<<a>> \o <<>>) \o <<c>> = <<a, c>>
        /\ (<<a>> \o <<b>>) \o <<c>> = <<a, b, c>>
    <3> DEFINE S == {a, b, c}
    <3>1. a \in S /\ b \in S /\ c \in S
      OBVIOUS
    <3> HIDE DEF S, a, b, c
    <3> QED
      BY <3>1, Singletons
  <2> HIDE DEF a, b
  <2>4. Refreshing(<<a, c>>)
    BY <1>8, <2>2 DEF Harmless
  <2>5. /\ \A i \in 1 .. 3 : ~Moves(q[i])
        /\ \A f \in Events : \A i \in 1 .. 3 : ~Derived(q[i], f)
    BY <2>1, <2>2, SeriesStatements DEF Harmless
  <2>6. \A v : \A f \in Events : /\ ~Dirties(v, q[3], f)
                                 /\ \A i \in 1 .. 3 :
                                      Dirties(v, q[i], f) => Reprojects(v, q[3], f)
    BY <2>1, <2>2, SeriesStatements DEF Harmless
  <2> HIDE DEF q
  <2>7. Refreshing(q)
    <3>1. Ends(q, 3)
      BY <2>1, <2>5, <2>6 DEF Ends
    <3> QED
      BY <3>1, EndsRefreshing
  <2> QED
    BY <2>3, <2>4, <2>7 DEF SetSeriesACL, a, b, q
<1> QED
  BY <1>1, <1>2, <1>3, <1>4, <1>7, <1>9, <1>10, <1>11 DEF OneOfThem

LEMMA InitSerial ==
  ASSUME Init
  PROVE  \A e \in Events : Current(db, e)
<1> SUFFICES ASSUME NEW e \in Events
             PROVE  Current(db, e)
  OBVIOUS
<1>1. /\ Mp(e) \in Rows /\ Policy(e) \in Rows /\ SearchEvent(e) \in Rows
      /\ \A c \in Channels : Publication(e, c) \in Rows
      /\ \A s \in SeriesIds : Series(s) \in Rows
  BY RowFacts DEF Table
<1>2. \A k \in Rows : k[1] \notin {"search_event", "search_series"} => db[k] = Stored0[k]
  BY DEF Init
<1>3. Stored0[Mp(e)] = [series |-> InitialSeries, deleted |-> FALSE]
  BY <1>1 DEF Stored0, Mp
<1>4. /\ db[Mp(e)] = Stored0[Mp(e)] /\ db[Policy(e)] = Stored0[Policy(e)]
      /\ \A c \in Channels : db[Publication(e, c)] = Stored0[Publication(e, c)]
  BY <1>1, <1>2 DEF Mp, Policy, Publication
<1>5. InitialSeries # NoSeries => db[Series(InitialSeries)] = Stored0[Series(InitialSeries)]
  BY <1>1, <1>2, InitialSeriesAssumption DEF Series
<1>6. EventRow(db, e) = EventRow(Stored0, e)
  BY <1>3, <1>4, <1>5, EventRowDepends
<1>7. db[SearchEvent(e)] = EventRow(Stored0, e)
  BY <1>1 DEF Init, SearchEvent
<1> QED
  BY <1>3, <1>4, <1>6, <1>7 DEF Current

LEMMA BeginSerial ==
  ASSUME LockInv, Serial, NEW x \in Sessions, NEW p, Refreshing(p), Begin(x, p)
  PROVE  Serial'
<1> SUFFICES ASSUME ~overlapped'
             PROVE  /\ \A y, z \in open' : y = z
                    /\ \A e \in Events : Current(db, e)'
                    /\ \A y \in open' : SerialOf(todo[y], View(y))'
  BY DEF Serial
<1>1. /\ ~overlapped /\ open = {} /\ open' = {x} /\ UNCHANGED <<db, writes>> /\ todo'[x] = p
  BY DEF Begin, LockInv, Typed
<1>2. \A e \in Events : Current(db, e)
  BY <1>1 DEF Serial
<1>3. writes[x] = Empty /\ DOMAIN Empty = {}
  BY <1>1 DEF LockInv, Typed, Empty
<1>4. \A k \in Rows : View(x)'[k] = db[k]
  BY <1>1, <1>3 DEF View
<1>5. \A e \in Events : Current(View(x)', e)
  BY <1>2, <1>4, AgreeCurrent DEF LockInv, Typed
<1>6. SerialOf(p, View(x)')
  BY <1>5 DEF SerialOf, Refreshing
<1> QED
  BY <1>1, <1>2, <1>6 DEF Current, EventRow

LEMMA CommitSerial ==
  ASSUME LockInv, Serial, NEW x \in Sessions, Commit(x)
  PROVE  Serial'
<1> SUFFICES ASSUME ~overlapped'
             PROVE  /\ \A y, z \in open' : y = z
                    /\ \A e \in Events : Current(db', e)
                    /\ \A y \in open' : SerialOf(todo'[y], View(y)')
  BY DEF Serial
<1>1. /\ ~overlapped /\ open = {x} /\ open' = {} /\ db' = View(x) /\ todo[x] = <<>>
  BY DEF Commit, Close, Serial
<1>2. SerialOf(<<>>, View(x))
  BY <1>1 DEF Serial
<1>3. \A e \in Events : Current(View(x), e)
  BY <1>2 DEF SerialOf
<1> QED
  BY <1>1, <1>3

LEMMA RollbackSerial ==
  ASSUME Serial, NEW x \in Sessions, Rollback(x)
  PROVE  Serial'
<1> SUFFICES ASSUME ~overlapped'
             PROVE  /\ \A y, z \in open' : y = z
                    /\ \A e \in Events : Current(db', e)
                    /\ \A y \in open' : SerialOf(todo'[y], View(y)')
  BY DEF Serial
<1>1. ~overlapped /\ open = {x} /\ open' = {} /\ db' = db
  BY DEF Rollback, Close, Serial
<1> QED
  BY <1>1 DEF Serial

LEMMA SerialStep ==
  ASSUME LockInv, Serial, [Next]_vars
  PROVE  Serial'
<1>1. CASE UNCHANGED vars
  <2>1. UNCHANGED <<db, open, todo, writes, overlapped>>
    BY <1>1 DEF vars, session
  <2>2. \A y : View(y)' = View(y)
    BY <2>1 DEF View
  <2> QED
    BY <2>1, <2>2 DEF Serial
<1>2. ASSUME NEW x \in Sessions, Request(x)
      PROVE  Serial'
  BY <1>2, RequestBegins, AllRefreshing, BeginSerial DEF LockInv
<1>3. ASSUME NEW x \in Sessions, Statement(x), UNCHANGED <<db, open, begun, overlapped>>
      PROVE  Serial'
  <2> SUFFICES ASSUME ~overlapped
               PROVE  \A y \in open : SerialOf(todo'[y], View(y)')
    BY <1>3 DEF Serial
  <2>1. x \in open
    BY <1>3, StatementEffect DEF Effect, LockInv
  <2>2. (\A e \in Events : Current(db, e)) /\ SerialOf(todo[x], View(x))
    BY <2>1 DEF Serial
  <2>3. SerialOf(todo'[x], View(x)')
    BY <1>3, <2>2, StatementSerial
  <2> QED
    BY <2>1, <2>3 DEF Serial
<1>4. ASSUME NEW x \in Sessions, Commit(x) \/ Rollback(x)
      PROVE  Serial'
  BY <1>4, CommitSerial, RollbackSerial
<1> QED
  BY <1>1, <1>2, <1>3, <1>4 DEF Next

\* As long as transactions do not overlap, the row of every event is what a
\* rebuild would write, whenever none is open.
THEOREM ProjectionIsRebuilt == Spec => []SerialProjection
<1>1. Init => Serial
  BY InitSerial DEF Serial, Init
<1>2. Serial => SerialProjection
  BY DEF Serial, SerialProjection, Current, Rebuilt
<1> QED
  BY <1>1, <1>2, SerialStep, LocksInOrder, PTL DEF Spec

-----------------------------------------------------------------------------
(* What is published has elements, and nothing is left of what is deleted *)

Refers(st, k) == st[1] = "reference" /\ st[2] = k
Pinning(st, k) == st[1] \in {"pin", "putPin"} /\ st[2] = k
Drops(st, k) == st[1] = "delete" /\ st[2] = k
Kills(st, e) == st[1] = "tombstone" /\ st[2] = Mp(e)

\* Who pins a publication refers to elements afterwards.
Followed(p) ==
  \A k \in Table("publication") : \A i \in DOMAIN p : Pinning(p[i], k) =>
    \E j \in DOMAIN p : i < j /\ Refers(p[j], k)

\* A publication has elements, or gets them from a statement to come.
Hollow(v, k) == Exists(v, k) /\ v[k].elements = {}
Filled(p, v) ==
  /\ Followed(p)
  /\ \A k \in Table("publication") : Hollow(v, k) => \E i \in DOMAIN p : Refers(p[i], k)

NonEmpty(v) == \A k \in Table("publication") : ~Hollow(v, k)

FilledInv == NonEmpty(db) /\ \A x \in Sessions : Filled(todo[x], View(x))

\* The rows that go with an event, and the statements that bring one.
Parts(e) == PublicationsOf(e) \cup {Element(e, el) : el \in Elements}
Adds(st, e) ==
  \/ \E k \in PublicationsOf(e) : Pinning(st, k) \/ Refers(st, k)
  \/ st[1] = "put" /\ \E el \in Elements : st[2] = Element(e, el)

Cleared(v) ==
  \A e \in Events : v[Mp(e)].deleted => \A k \in Parts(e) : v[k] = NoRow

\* A transaction that deletes an event brings nothing of it.
Removing(p) ==
  \A e \in Events : \A i \in DOMAIN p : Kills(p[i], e) =>
    /\ \A k \in Parts(e) : \E j \in DOMAIN p : i < j /\ Drops(p[j], k)
    /\ \A j \in DOMAIN p : ~Adds(p[j], e)

GoneOf(p, v) ==
  /\ Removing(p)
  /\ (\E i \in DOMAIN p : p[i][1] = "tombstone") => Cleared(v)
  /\ \A e \in Events : v[Mp(e)].deleted =>
       /\ \A k \in Parts(e) : v[k] = NoRow \/ \E j \in DOMAIN p : Drops(p[j], k)
       /\ \A j \in DOMAIN p : ~Adds(p[j], e)

Gone == ~overlapped => Cleared(db) /\ \A x \in open : GoneOf(todo[x], View(x))

\* Ranks of the rows concerned.
LEMMA PartRanks ==
  ASSUME NEW e \in Events
  PROVE  /\ Rank(Mp(e)) = 0 /\ Mp(e) \in Rows
         /\ PublicationsOf(e) \subseteq Parts(e) /\ PublicationsOf(e) \subseteq Table("publication")
         /\ \A k \in Parts(e) : k \in Rows /\ Rank(k) \in 1 .. 4
         /\ \A f \in Events : \A k \in Parts(f) : k # Mp(e)
         /\ \A el \in Elements : Element(e, el) \in Parts(e)
<1>1. \A k \in Parts(e) : k \in Rows /\ k[1] \in {"publication", "mp_element"}
  <2>1. \A k \in Parts(e) : k \in Table("publication") \cup Table("mp_element")
    BY RowFacts DEF Parts, PublicationsOf
  <2> QED
    BY <2>1 DEF Table
<1>2. \A k \in Parts(e) : Rank(k) \in 1 .. 4
  BY <1>1 DEF Rank
<1>3. \A f \in Events : \A k \in Parts(f) : k # Mp(e)
  BY DEF Parts, PublicationsOf, Mp, Publication, Element
<1>4. Mp(e) \in Rows /\ Rank(Mp(e)) = 0
  BY RowFacts, RowRanks DEF Table
<1>5. PublicationsOf(e) \subseteq Table("publication")
  BY RowFacts DEF PublicationsOf
<1> QED
  BY <1>1, <1>2, <1>3, <1>4, <1>5 DEF Parts

LEMMA TombstoneLow ==
  ASSUME NEW st \in Stmts, st[1] = "tombstone"
  PROVE  Low(st) = 0 /\ st[1] \notin Unranked
<1>1. st[2] \in Table("mediapackage") \cup Table("series")
  BY StmtFacts
<1>2. Rank(st[2]) = 0
  BY <1>1 DEF Rank, Table
<1> QED
  BY <1>2 DEF Low, Keyed, Unranked

\* Only early statements add, delete or refer.
LEMMA EarlyStatements ==
  ASSUME NEW st \in Stmts, Low(st) >= 5
  PROVE  /\ \A k \in Table("publication") : ~Refers(st, k) /\ ~Pinning(st, k)
         /\ \A e \in Events : /\ ~Adds(st, e) /\ ~Kills(st, e)
                              /\ \A k \in Parts(e) : ~Drops(st, k)
<1>1. \A k : ~Refers(st, k)
  BY DEF Refers, Low, Keyed, Unranked
<1>2. \A k \in Table("publication") : ~Pinning(st, k)
  <2>1. \A k \in Table("publication") : Rank(k) \in 1 .. 2
    BY DEF Rank, Table
  <2> QED
    BY <2>1 DEF Pinning, Low, Keyed
<1>3. ASSUME NEW e \in Events
      PROVE  \A k \in Parts(e) : ~(st[1] \in {"delete", "put"} /\ st[2] = k)
  BY PartRanks DEF Low, Keyed, Unranked
<1>4. \A e : ~Kills(st, e)
  BY TombstoneLow DEF Kills
<1>5. \A e \in Events : ~Adds(st, e) /\ \A k \in Parts(e) : ~Drops(st, k)
  BY <1>1, <1>2, <1>3, PartRanks DEF Adds, Drops
<1> QED
  BY <1>1, <1>2, <1>4, <1>5

\* What a statement does to these rows.
Executes(h, v, u) ==
  /\ \A e \in Events :
       /\ u[Mp(e)].deleted => v[Mp(e)].deleted \/ Kills(h, e)
       /\ \A k \in Parts(e) : /\ Drops(h, k) => u[k] = NoRow
                              /\ v[k] = NoRow /\ ~Adds(h, e) => u[k] = NoRow
  /\ \A k \in Table("publication") :
       Hollow(u, k) => Pinning(h, k) \/ (Hollow(v, k) /\ ~Refers(h, k))

LEMMA TailFacts ==
  ASSUME NEW s \in Seq(Stmts), s # <<>>
  PROVE  /\ 1 \in DOMAIN s /\ s[1] = Head(s)
         /\ \A i \in DOMAIN Tail(s) : /\ i \in Nat \ {0} /\ i + 1 \in DOMAIN s
                                      /\ Tail(s)[i] = s[i + 1]
         /\ \A i \in DOMAIN s : i > 1 => /\ i \in Nat /\ i - 1 \in DOMAIN Tail(s)
                                         /\ Tail(s)[i - 1] = s[i]
         /\ \A i \in DOMAIN s : i = 1 \/ i > 1
<1> DEFINE t == Tail(s)
<1>1. /\ Len(s) \in Nat \ {0} /\ DOMAIN s = 1 .. Len(s) /\ s[1] = Head(s)
      /\ t \in Seq(Stmts) /\ Len(t) = Len(s) - 1 /\ DOMAIN t = 1 .. Len(t)
      /\ \A i \in 1 .. Len(t) : t[i] = s[i + 1]
  OBVIOUS
<1> HIDE DEF t
<1>2. \A i \in DOMAIN t : i \in Nat \ {0} /\ i + 1 \in DOMAIN s /\ t[i] = s[i + 1]
  BY <1>1
<1>3. ASSUME NEW i \in DOMAIN s, i > 1
      PROVE  i \in Nat /\ i - 1 \in DOMAIN t /\ t[i - 1] = s[i]
  <2>1. i \in Nat /\ i - 1 \in 1 .. Len(t)
    BY <1>1, <1>3
  <2>2. t[i - 1] = s[(i - 1) + 1] /\ (i - 1) + 1 = i
    BY <1>1, <2>1
  <2> QED
    BY <1>1, <2>1, <2>2
<1>4. 1 \in DOMAIN s /\ \A i \in DOMAIN s : i = 1 \/ i > 1
  BY <1>1
<1> QED
  BY <1>1, <1>2, <1>3, <1>4 DEF t

LEMMA ExecuteFilled ==
  ASSUME NEW s \in Seq(Stmts), s # <<>>, NEW v, NEW u, Filled(s, v), Executes(Head(s), v, u)
  PROVE  Filled(Tail(s), u)
<1> DEFINE t == Tail(s)
<1>1. ASSUME NEW k \in Table("publication"), NEW j \in DOMAIN s, j > 1, Refers(s[j], k)
      PROVE  j - 1 \in DOMAIN t /\ Refers(t[j - 1], k)
  BY <1>1, TailFacts
<1>2. Followed(t)
  <2> SUFFICES ASSUME NEW k \in Table("publication"), NEW i \in DOMAIN t, Pinning(t[i], k)
               PROVE  \E j \in DOMAIN t : i < j /\ Refers(t[j], k)
    BY DEF Followed
  <2>1. i \in Nat \ {0} /\ i + 1 \in DOMAIN s /\ Pinning(s[i + 1], k)
    BY TailFacts
  <2>2. PICK j \in DOMAIN s : i + 1 < j /\ Refers(s[j], k)
    BY <2>1 DEF Filled, Followed
  <2>3. j \in Nat
    OBVIOUS
  <2>4. j > 1 /\ i < j - 1
    BY <2>1, <2>2, <2>3
  <2> QED
    BY <1>1, <2>2, <2>4
<1>3. ASSUME NEW k \in Table("publication"), Hollow(u, k)
      PROVE  \E i \in DOMAIN t : Refers(t[i], k)
  <2>1. \E j \in DOMAIN s : j > 1 /\ Refers(s[j], k)
    <3>1. CASE Pinning(Head(s), k)
      <4>1. PICK j \in DOMAIN s : 1 < j /\ Refers(s[j], k)
        BY <3>1, TailFacts DEF Filled, Followed
      <4>2. j \in Nat
        OBVIOUS
      <4> QED
        BY <4>1, <4>2
    <3>2. CASE Hollow(v, k) /\ ~Refers(Head(s), k)
      <4>1. PICK j \in DOMAIN s : Refers(s[j], k)
        BY <3>2 DEF Filled
      <4>2. j # 1
        BY <3>2, <4>1, TailFacts
      <4> QED
        BY <4>1, <4>2, TailFacts
    <3> QED
      BY <1>3, <3>1, <3>2 DEF Executes
  <2> QED
    BY <1>1, <2>1
<1> QED
  BY <1>2, <1>3 DEF Filled

LEMMA ExecuteGone ==
  ASSUME NEW s \in Seq(Stmts), s # <<>>, InOrder(s), NEW v, NEW u, GoneOf(s, v),
         Executes(Head(s), v, u)
  PROVE  GoneOf(Tail(s), u)
<1> DEFINE t == Tail(s)
<1>1. ASSUME NEW i \in DOMAIN t
      PROVE  t[i][1] # "tombstone"
  <2> SUFFICES ASSUME t[i][1] = "tombstone"
               PROVE  FALSE
    OBVIOUS
  <2>1. i + 1 \in DOMAIN s /\ 1 < i + 1 /\ t[i] = s[i + 1] /\ 1 \in DOMAIN s
    <3>1. i \in Nat \ {0} /\ i + 1 \in DOMAIN s /\ t[i] = s[i + 1] /\ 1 \in DOMAIN s
      BY TailFacts
    <3> QED
      BY <3>1
  <2>2. s[1] \in Stmts /\ s[i + 1] \in Stmts
    BY <2>1
  <2>3. Low(s[i + 1]) = 0 /\ s[i + 1][1] \notin Unranked
    BY <2>1, <2>2, TombstoneLow
  <2>4. Ordered(Top(s[1]), 0) /\ Top(s[1]) \in 0 .. 9
    BY <2>1, <2>2, <2>3, RankFacts DEF InOrder, Precedes
  <2> QED
    BY <2>4 DEF Ordered
<1>2. ASSUME NEW e \in Events, NEW k \in Parts(e), NEW j \in DOMAIN s, Drops(s[j], k)
      PROVE  u[k] = NoRow \/ \E i \in DOMAIN t : Drops(t[i], k)
  <2>1. CASE j = 1
    BY <1>2, <2>1, TailFacts DEF Executes
  <2>2. CASE j > 1
    BY <1>2, <2>2, TailFacts
  <2> QED
    BY <2>1, <2>2, TailFacts
<1>3. ASSUME NEW e \in Events, u[Mp(e)].deleted
      PROVE  /\ \A k \in Parts(e) : u[k] = NoRow \/ \E j \in DOMAIN t : Drops(t[j], k)
             /\ \A j \in DOMAIN t : ~Adds(t[j], e)
  <2>1. v[Mp(e)].deleted \/ Kills(s[1], e)
    BY <1>3, TailFacts DEF Executes
  <2>2. \A j \in DOMAIN s : ~Adds(s[j], e)
    BY <2>1, TailFacts DEF GoneOf, Removing
  <2>3. ASSUME NEW k \in Parts(e)
        PROVE  v[k] = NoRow \/ \E j \in DOMAIN s : Drops(s[j], k)
    BY <2>1, TailFacts DEF GoneOf, Removing
  <2>4. \A k \in Parts(e) : v[k] = NoRow => u[k] = NoRow
    BY <2>2, TailFacts DEF Executes
  <2>5. \A j \in DOMAIN t : ~Adds(t[j], e)
    BY <2>2, TailFacts
  <2> QED
    BY <1>2, <2>3, <2>4, <2>5
<1>4. Removing(t)
  BY <1>1 DEF Removing, Kills
<1> QED
  BY <1>1, <1>3, <1>4 DEF GoneOf

\* A program that starts with a pin, and what it is after the pin is computed.
LEMMA PinnedProgram ==
  ASSUME NEW s \in Seq(Stmts), s # <<>>, NEW st \in Stmts, Head(s)[1] = "pin",
         st[1] = "putPin", st[2] = Head(s)[2], NEW v
  PROVE  /\ Filled(s, v) => Filled(<<st>> \o Tail(s), v)
         /\ GoneOf(s, v) => GoneOf(<<st>> \o Tail(s), v)
<1> DEFINE q == <<st>> \o Tail(s)
<1>1. /\ DOMAIN q = DOMAIN s /\ q[1] = st /\ Head(s) = s[1]
      /\ \A i \in DOMAIN s : i # 1 => q[i] = s[i]
  OBVIOUS
<1>2. /\ \A e : /\ Adds(st, e) <=> Adds(s[1], e)
                /\ Kills(st, e) <=> Kills(s[1], e)
      /\ \A k : /\ Pinning(st, k) <=> Pinning(s[1], k)
                /\ Refers(st, k) <=> Refers(s[1], k)
                /\ Drops(st, k) <=> Drops(s[1], k)
  BY <1>1 DEF Pinning, Refers, Adds, Kills, Drops
<1> HIDE DEF q
<1>3. \A i \in DOMAIN s :
        /\ \A e : /\ Adds(q[i], e) <=> Adds(s[i], e)
                  /\ Kills(q[i], e) <=> Kills(s[i], e)
        /\ \A k : /\ Pinning(q[i], k) <=> Pinning(s[i], k)
                  /\ Refers(q[i], k) <=> Refers(s[i], k)
                  /\ Drops(q[i], k) <=> Drops(s[i], k)
        /\ q[i][1] = "tombstone" <=> s[i][1] = "tombstone"
  BY <1>1, <1>2
<1>4. Filled(s, v) => Filled(q, v)
  BY <1>1, <1>3 DEF Filled, Followed
<1>5. Removing(s) => Removing(q)
  BY <1>1, <1>3 DEF Removing
<1>6. GoneOf(s, v) => GoneOf(q, v)
  BY <1>1, <1>3, <1>5 DEF GoneOf
<1> QED
  BY <1>4, <1>6 DEF q

\* A program that is past the early statements.
LateProgram(p) == p \in Seq(Stmts) /\ \A i \in DOMAIN p : Low(p[i]) >= 5

LEMMA LateFacts ==
  ASSUME NEW p, LateProgram(p)
  PROVE  \A i \in DOMAIN p :
           /\ p[i][1] # "tombstone"
           /\ \A k \in Table("publication") : ~Refers(p[i], k) /\ ~Pinning(p[i], k)
           /\ \A e \in Events :
                /\ ~Adds(p[i], e) /\ ~Kills(p[i], e)
                /\ \A k \in Parts(e) : ~Drops(p[i], k)
<1>1. \A i \in DOMAIN p : p[i] \in Stmts /\ Low(p[i]) >= 5
  BY DEF LateProgram
<1>2. \A i \in DOMAIN p : p[i][1] # "tombstone"
  BY <1>1, TombstoneLow
<1> QED
  BY <1>1, <1>2, EarlyStatements

LEMMA LateGood ==
  ASSUME NEW s, s # <<>>, LateProgram(s), NEW p, LateProgram(p), NEW v, NEW u,
         Executes(Head(s), v, u)
  PROVE  /\ Filled(s, v) => Filled(p, u)
         /\ GoneOf(s, v) => GoneOf(p, u)
<1>1. /\ s \in Seq(Stmts) /\ 1 \in DOMAIN s /\ s[1] = Head(s)
  BY TailFacts DEF LateProgram
<1>2. \A i \in DOMAIN p : p[i][1] # "tombstone"
  BY LateFacts
<1>3. Followed(p)
  BY LateFacts DEF Followed
<1>4. Filled(s, v) => \A k \in Table("publication") : ~Hollow(u, k)
  BY <1>1, LateFacts DEF Filled, Executes
<1>5. Removing(p)
  BY LateFacts DEF Removing
<1>6. ASSUME GoneOf(s, v), NEW e \in Events, u[Mp(e)].deleted
      PROVE  /\ \A k \in Parts(e) : u[k] = NoRow
             /\ \A j \in DOMAIN p : ~Adds(p[j], e)
  <2>1. v[Mp(e)].deleted /\ ~Adds(Head(s), e)
    BY <1>1, <1>6, LateFacts DEF Executes
  <2>2. \A k \in Parts(e) : v[k] = NoRow
    BY <1>6, <2>1, LateFacts DEF GoneOf
  <2> QED
    BY <2>1, <2>2, LateFacts DEF Executes
<1> QED
  BY <1>2, <1>3, <1>4, <1>5, <1>6 DEF Filled, GoneOf

\* A write of one row.
OneRow(h, v, k, row) ==
  /\ \A e \in Events :
       /\ k = Mp(e) => (row.deleted => v[k].deleted \/ Kills(h, e))
       /\ k \in Parts(e) => row \in {NoRow, v[k]} \/ Adds(h, e)
       /\ \A l \in Parts(e) : Drops(h, l) => k = l /\ row = NoRow
  /\ k[1] = "publication" => row = NoRow \/ row.elements # {} \/ Pinning(h, k)
  /\ \A l \in Table("publication") : Refers(h, l) => k = l /\ row.elements # {}

LEMMA OverlayExecutes ==
  ASSUME NEW v, NEW k \in Rows, NEW row, NEW h, OneRow(h, v, k, row)
  PROVE  Executes(h, v, Overlay(v, k, row))
<1> DEFINE u == Overlay(v, k, row)
<1>1. \A l \in Rows : u[l] = IF l = k THEN row ELSE v[l]
  BY DEF Overlay
<1> HIDE DEF u
<1>2. ASSUME NEW e \in Events
      PROVE  /\ u[Mp(e)].deleted => v[Mp(e)].deleted \/ Kills(h, e)
             /\ \A l \in Parts(e) : /\ Drops(h, l) => u[l] = NoRow
                                    /\ v[l] = NoRow /\ ~Adds(h, e) => u[l] = NoRow
  <2>1. Mp(e) \in Rows /\ \A l \in Parts(e) : l \in Rows
    BY PartRanks
  <2> QED
    BY <1>1, <2>1 DEF OneRow
<1>3. ASSUME NEW l \in Table("publication"), Hollow(u, l)
      PROVE  Pinning(h, l) \/ (Hollow(v, l) /\ ~Refers(h, l))
  <2>1. l \in Rows /\ l[1] = "publication"
    BY DEF Table
  <2>2. CASE l = k
    BY <1>1, <1>3, <2>1, <2>2 DEF Hollow, Exists, OneRow
  <2>3. CASE l # k
    <3>1. u[l] = v[l]
      BY <1>1, <2>1, <2>3
    <3> QED
      BY <1>3, <2>3, <3>1 DEF Hollow, Exists, OneRow
  <2> QED
    BY <2>2, <2>3
<1> QED
  BY <1>2, <1>3 DEF Executes, u

LEMMA SameExecutes ==
  ASSUME NEW v, NEW h,
         \A e \in Events : \A l \in Parts(e) : Drops(h, l) => v[l] = NoRow,
         \A k \in Table("publication") : ~Refers(h, k)
  PROVE  Executes(h, v, v)
  BY DEF Executes

\* What a session's statement does to its program and its view, taken together.
Good(p, v, q, u) ==
  /\ Filled(p, v) => Filled(q, u)
  /\ GoneOf(p, v) => GoneOf(q, u)

LEMMA ContinueGood ==
  ASSUME LockInv, NEW x \in Sessions, NEW op, Next1(x, op), Continue(x, <<>>),
         Executes(Head(todo[x]), View(x), View(x)')
  PROVE  Good(todo[x], View(x), todo'[x], View(x)')
<1>1. todo[x] \in Seq(Stmts) /\ todo[x] # <<>> /\ <<>> \o Tail(todo[x]) = Tail(todo[x])
  BY AtHead DEF LockInv
<1>2. InOrder(todo[x])
  BY DEF LockInv, Locals, Local
<1>3. todo'[x] = Tail(todo[x])
  BY <1>1, ContinueStep DEF LockInv
<1> QED
  BY <1>1, <1>2, <1>3, ExecuteFilled, ExecuteGone DEF Good

LEMMA WriteGood ==
  ASSUME LockInv, NEW x \in Sessions, NEW op, Next1(x, op), Continue(x, <<>>), UNCHANGED db,
         NEW k \in Rows, NEW row, Write(x, k, row), OneRow(Head(todo[x]), View(x), k, row)
  PROVE  Good(todo[x], View(x), todo'[x], View(x)')
<1> DEFINE h == Head(todo[x])
           v == View(x)
<1>1. View(x)' = Overlay(v, k, row)
  BY ViewWrite DEF Overlay
<1> HIDE DEF h, v
<1>2. Executes(h, v, View(x)')
  BY <1>1, OverlayExecutes DEF h, v
<1> QED
  BY <1>2, ContinueGood DEF h, v

LEMMA SkipGood ==
  ASSUME LockInv, NEW x \in Sessions, NEW op, Next1(x, op), Continue(x, <<>>),
         UNCHANGED <<db, writes>>, op # "reference",
         op = "delete" => ~Exists(View(x), Key(x))
  PROVE  Good(todo[x], View(x), todo'[x], View(x)')
<1>1. View(x)' = View(x)
  BY DEF View
<1>2. Head(todo[x])[1] = op /\ Head(todo[x])[2] = Key(x)
  BY DEF Next1, Key
<1>3. Executes(Head(todo[x]), View(x), View(x))
  BY <1>2, SameExecutes DEF Refers, Drops, Exists
<1> QED
  BY <1>1, <1>3, ContinueGood

\* Rows that are not of these tables are none of these rows.
LEMMA OtherTables ==
  ASSUME NEW k, NEW e
  PROVE  /\ k[1] # "mediapackage" => k # Mp(e)
         /\ k[1] \notin {"publication", "mp_element"} => k \notin Parts(e)
         /\ k \in Parts(e) /\ k[1] # "publication" => \E el \in Elements : k = Element(e, el)
         /\ k \in Parts(e) /\ k[1] # "mp_element" => k \in PublicationsOf(e)
  BY DEF Mp, Publication, PublicationsOf, Element, Parts

LEMMA PutGood ==
  ASSUME LockInv, NEW x \in Sessions, Put(x) \/ Delete(x), UNCHANGED db
  PROVE  Good(todo[x], View(x), todo'[x], View(x)')
<1> DEFINE k == Key(x)
           h == Head(todo[x])
<1>1. CASE Put(x)
  <2>1. Next1(x, "put") /\ Write(x, k, Val(x)) /\ Continue(x, <<>>)
    BY <1>1 DEF Put
  <2>2. h \in Puts /\ h[1] = "put" /\ h[2] = k
    BY <2>1, AtHead, StmtFacts DEF LockInv, Key
  <2>3. k \in Rows /\ k[1] \in {"acl", "search_event", "search_series", "mp_element"}
    BY <2>2 DEF Puts, Table
  <2> HIDE DEF k, h
  <2>4. /\ \A e \in Events : k # Mp(e) /\ (k \in Parts(e) => Adds(h, e))
        /\ \A l : ~Drops(h, l) /\ ~Refers(h, l)
    BY <2>2, <2>3, OtherTables DEF Adds, Refers, Drops
  <2>5. OneRow(h, View(x), k, Val(x))
    BY <2>3, <2>4 DEF OneRow
  <2> QED
    BY <2>1, <2>3, <2>5, WriteGood DEF k, h
<1>2. CASE Delete(x)
  <2>1. Next1(x, "delete") /\ Continue(x, <<>>)
    BY <1>2 DEF Delete
  <2>2. h \in Deletes /\ h[1] = "delete" /\ h[2] = k
    BY <2>1, AtHead, StmtFacts DEF LockInv, Key
  <2>3. k \in Rows /\ k[1] # "mediapackage"
    BY <2>2 DEF Deletes, Table
  <2>4. CASE ~Exists(View(x), k) /\ UNCHANGED writes
    BY <2>1, <2>4, SkipGood
  <2>5. CASE Write(x, k, NoRow)
    <3> HIDE DEF k, h
    <3>1. OneRow(h, View(x), k, NoRow)
      BY <2>2, <2>3, OtherTables DEF Refers, Drops, OneRow
    <3> QED
      BY <2>1, <2>3, <2>5, <3>1, WriteGood DEF k, h
  <2> QED
    BY <1>2, <2>4, <2>5 DEF Delete
<1> QED
  BY <1>1, <1>2

\* The updates that leave publications and elements alone.
LEMMA UpdateGood ==
  ASSUME LockInv, NEW x \in Sessions, UNCHANGED db,
         NEW op \in {"tombstone", "setSeries", "setTitle", "lock", "addVersion"},
         Next1(x, op), NEW row, Write(x, Key(x), row), Continue(x, <<>>),
         op \in {"setSeries", "lock"} => row.deleted = View(x)[Key(x)].deleted
  PROVE  Good(todo[x], View(x), todo'[x], View(x)')
<1> DEFINE k == Key(x)
           h == Head(todo[x])
<1>1. h[1] = op /\ h[2] = k
  BY DEF Next1, Key
<1>2. /\ k \in Rows /\ k[1] \in {"mediapackage", "series", "mp_snapshot"}
      /\ op \in {"setTitle", "addVersion"} => k[1] # "mediapackage"
  BY KeyFacts DEF LockInv, Table
<1>3. op \in {"setSeries", "lock"} => row.deleted = View(x)[k].deleted
  OBVIOUS
<1>4. Write(x, k, row)
  OBVIOUS
<1> HIDE DEF k, h
<1>5. \A e : /\ k \notin Parts(e)
             /\ k = Mp(e) => (row.deleted => View(x)[k].deleted \/ Kills(h, e))
  BY <1>1, <1>2, <1>3, OtherTables DEF Kills
<1>6. \A l : ~Refers(h, l) /\ ~Drops(h, l)
  BY <1>1 DEF Refers, Drops
<1>7. OneRow(h, View(x), k, row)
  BY <1>2, <1>5, <1>6 DEF OneRow
<1> QED
  BY <1>2, <1>4, <1>7, WriteGood DEF k, h

\* A deletion of what is deleted: the transaction has written nothing yet.
LEMMA AbandonGood ==
  ASSUME LockInv, NonEmpty(db), NEW x \in Sessions, Next1(x, "tombstone"),
         todo' = [todo EXCEPT ![x] = <<>>], UNCHANGED <<db, writes>>
  PROVE  Good(todo[x], View(x), todo'[x], View(x)')
<1> DEFINE h == Head(todo[x])
           v == View(x)
<1>1. h = todo[x][1] /\ 1 \in DOMAIN todo[x] /\ h[1] = "tombstone" /\ h \in Stmts
  BY AtHead DEF LockInv
<1>2. Low(h) = 0 /\ h[1] \notin Unranked
  BY <1>1, TombstoneLow
<1>3. DOMAIN writes[x] = {}
  <2> SUFFICES ASSUME NEW k \in DOMAIN writes[x]
               PROVE  FALSE
    OBVIOUS
  <2>1. Ordered(Rank(k), 0) /\ Rank(k) \in 0 .. 9
    BY <1>1, <1>2, RankType DEF LockInv, Locals, Local, Above, Below
  <2> QED
    BY <2>1 DEF Ordered
<1>4. \A k \in Rows : v[k] = db[k]
  BY <1>3 DEF View
<1>5. todo'[x] = <<>> /\ View(x)' = v
  BY DEF LockInv, Typed, View
<1>6. \A k \in Table("publication") : k \in Rows
  BY DEF Table
<1> HIDE DEF v, h
<1>7. NonEmpty(v)
  BY <1>4, <1>6 DEF NonEmpty, Hollow, Exists
<1>8. Filled(<<>>, v)
  BY <1>7 DEF Filled, Followed, NonEmpty
<1>9. GoneOf(todo[x], v) => Cleared(v)
  BY <1>1 DEF GoneOf
<1>10. Cleared(v) => GoneOf(<<>>, v)
  BY DEF GoneOf, Removing, Cleared
<1> QED
  BY <1>5, <1>8, <1>9, <1>10 DEF Good, v

LEMMA UpdatesGood ==
  ASSUME LockInv, NonEmpty(db), NEW x \in Sessions, UNCHANGED db,
         Tombstone(x) \/ SetSeries(x) \/ SetTitle(x) \/ LockRow(x) \/ AddVersion(x)
  PROVE  Good(todo[x], View(x), todo'[x], View(x)')
<1> DEFINE k == Key(x)
           row == View(x)[k]
<1>1. CASE Tombstone(x)
  <2>1. Next1(x, "tombstone")
    BY <1>1 DEF Tombstone
  <2>2. CASE todo' = [todo EXCEPT ![x] = <<>>] /\ UNCHANGED writes
    BY <2>1, <2>2, AbandonGood
  <2>3. CASE Write(x, k, [row EXCEPT !.deleted = TRUE]) /\ Continue(x, <<>>)
    BY <2>1, <2>3, UpdateGood
  <2> QED
    BY <1>1, <2>2, <2>3 DEF Tombstone
<1>2. CASE SetSeries(x)
  <2>1. Next1(x, "setSeries") /\ Continue(x, <<>>)
    BY <1>2 DEF SetSeries
  <2>2. CASE UNCHANGED writes
    BY <2>1, <2>2, SkipGood
  <2>3. CASE Write(x, k, [row EXCEPT !.series = Val(x)])
    <3>1. k \in Rows /\ k[1] = "mediapackage"
      BY <2>1, KeyFacts DEF LockInv, Table
    <3>2. row \in RowOf("mediapackage")
      BY <3>1, ViewTyped DEF LockInv, RowsTyped
    <3>3. row \in [series : SeriesIds \cup {NoSeries}, deleted : BOOLEAN]
      BY <3>2 DEF RowOf
    <3>4. [row EXCEPT !.series = Val(x)].deleted = row.deleted
      BY <3>3
    <3> QED
      BY <2>1, <2>3, <3>4, UpdateGood
  <2> QED
    BY <1>2, <2>2, <2>3 DEF SetSeries
<1>3. CASE SetTitle(x)
  BY <1>3, UpdateGood DEF SetTitle
<1>4. CASE LockRow(x)
  BY <1>4, UpdateGood DEF LockRow
<1>5. CASE AddVersion(x)
  BY <1>5, UpdateGood DEF AddVersion
<1> QED
  BY <1>1, <1>2, <1>3, <1>4, <1>5

LEMMA PublishGood ==
  ASSUME LockInv, NEW x \in Sessions, UNCHANGED db, PutPin(x) \/ Reference(x)
  PROVE  Good(todo[x], View(x), todo'[x], View(x)')
<1> DEFINE h == Head(todo[x])
           v == View(x)
           k == Key(x)
<1>1. ASSUME NEW op \in {"putPin", "reference"}, Next1(x, op), Continue(x, <<>>),
             k \in Rows, k[1] = "publication", NEW row, Write(x, k, row),
             op = "reference" => row.elements # {}
      PROVE  Good(todo[x], View(x), todo'[x], View(x)')
  <2>1. h[1] = op /\ h[2] = k
    BY <1>1 DEF Next1, Key
  <2> HIDE DEF k, h, v
  <2>2. \A l : /\ ~Drops(h, l)
               /\ Refers(h, l) <=> op = "reference" /\ l = k
               /\ Pinning(h, l) <=> op = "putPin" /\ l = k
    BY <2>1 DEF Refers, Drops, Pinning
  <2>3. \A e \in Events : k # Mp(e) /\ (k \in Parts(e) => Adds(h, e))
    BY <1>1, <2>2, OtherTables DEF Adds
  <2>4. OneRow(h, v, k, row)
    BY <1>1, <2>2, <2>3 DEF OneRow
  <2> QED
    BY <1>1, <2>4, WriteGood DEF h, v, k
<1>2. CASE PutPin(x)
  <2> DEFINE old == IF Exists(v, k) THEN v[k].elements ELSE {}
             row == [state |-> Val(x).state, read |-> Val(x).read, elements |-> old]
  <2>1. Next1(x, "putPin") /\ Write(x, k, row) /\ Continue(x, <<>>)
    BY <1>2 DEF PutPin
  <2>2. k \in Rows /\ k[1] = "publication"
    BY <2>1, KeyFacts DEF LockInv, Table
  <2> HIDE DEF row, k
  <2> QED
    BY <1>1, <2>1, <2>2
<1>3. CASE Reference(x)
  <2> DEFINE row == [v[k] EXCEPT !.elements = Val(x)]
  <2>1. Next1(x, "reference") /\ Write(x, k, row) /\ Continue(x, <<>>)
    BY <1>3 DEF Reference
  <2>2. k \in Rows /\ v[k] \in Publications /\ Val(x) # {} /\ k[1] = "publication"
    BY <1>3, ReferenceStep DEF LockInv, Table
  <2>3. row.elements # {}
    BY <2>2 DEF Publications
  <2> HIDE DEF row, k
  <2> QED
    BY <1>1, <2>1, <2>2, <2>3
<1> QED
  BY <1>2, <1>3

\* An inspection writes back what it sees.
LEMMA InspectGood ==
  ASSUME LockInv, NEW x \in Sessions, UNCHANGED db, UpdateTech(x) \/ UpdateDuration(x)
  PROVE  Good(todo[x], View(x), todo'[x], View(x)')
<1> DEFINE h == Head(todo[x])
           v == View(x)
<1>1. PICK op \in Unranked : Next1(x, op) /\ Continue(x, <<>>)
  BY DEF UpdateTech, UpdateDuration, Unranked
<1>2. /\ h[1] \in Unranked /\ op \notin {"reference", "delete"} /\ Key(x) \in Events
      /\ op = "tech" => Val(x) \in Elements
  BY <1>1, KeyFacts DEF LockInv, Next1, Unranked
<1>3. \A l : ~Refers(h, l) /\ ~Drops(h, l)
  BY <1>2 DEF Refers, Drops, Unranked
<1>4. CASE UNCHANGED writes
  BY <1>1, <1>2, <1>4, SkipGood
<1>5. ASSUME NEW k \in Table("mediapackage") \cup Table("mp_element"), Write(x, k, v[k])
      PROVE  Good(todo[x], View(x), todo'[x], View(x)')
  <2> DEFINE row == v[k]
  <2>1. k \in Rows /\ k[1] # "publication"
    BY DEF Table
  <2>2. Write(x, k, row) /\ row = v[k]
    BY <1>5
  <2> HIDE DEF row, v, h
  <2>3. OneRow(h, v, k, row)
    BY <1>3, <2>1, <2>2 DEF OneRow
  <2> QED
    BY <1>1, <2>1, <2>2, <2>3, WriteGood DEF v, h
<1>6. CASE UpdateTech(x)
  <2>1. Next1(x, "tech")
    BY <1>6 DEF UpdateTech
  <2>2. Val(x) \in Elements
    BY <2>1, KeyFacts DEF LockInv
  <2>3. Element(Key(x), Val(x)) \in Table("mp_element")
    BY <1>2, <2>2, RowFacts
  <2> QED
    BY <1>4, <1>5, <1>6, <2>3 DEF UpdateTech
<1>7. CASE UpdateDuration(x)
  <2>1. Mp(Key(x)) \in Table("mediapackage")
    BY <1>2, RowFacts
  <2> QED
    BY <1>4, <1>5, <1>7, <2>1 DEF UpdateDuration
<1> QED
  BY <1>6, <1>7

\* The pin is computed.
LEMMA PinGood ==
  ASSUME LockInv, NEW x \in Sessions, UNCHANGED db, ComputePin(x)
  PROVE  Good(todo[x], View(x), todo'[x], View(x)')
<1> DEFINE k == Key(x)
           st == Stmt("putPin", k, Pin(View(x), k[2][1]))
<1>1. Next1(x, "pin") /\ Continue(x, <<st>>) /\ UNCHANGED writes
  BY DEF ComputePin
<1>2. /\ todo[x] \in Seq(Stmts) /\ todo[x] # <<>> /\ Head(todo[x])[1] = "pin"
      /\ Head(todo[x])[2] = k
  BY <1>1, AtHead DEF LockInv, Key
<1>3. k[2][1] \in Events /\ k[2][2] \in Channels /\ k = Publication(k[2][1], k[2][2])
  BY <1>1, KeyFacts, RowFacts DEF LockInv, Table
<1>4. st \in Stmts /\ st[1] = "putPin" /\ st[2] = k
  <2>1. Pin(View(x), k[2][1]) \in Pins
    BY <1>3, ViewTyped, DerivedTypes DEF LockInv
  <2>2. Ranked(st, Rank(k), Rank(k))
    BY <1>3, <2>1, UpdateRanks
  <2> QED
    BY <2>2 DEF Ranked, Stmt
<1>5. todo'[x] = <<st>> \o Tail(todo[x]) /\ View(x)' = View(x)
  BY <1>1, ContinueStep DEF LockInv, View
<1> HIDE DEF st, k
<1> QED
  BY <1>2, <1>4, <1>5, PinnedProgram DEF Good

\* What reads the rows to project, and what it runs, leave these rows alone.
LEMMA LateReads ==
  ASSUME LockInv, NEW x \in Sessions, UNCHANGED <<db, writes>>, Effect(x),
         NEW op \in {"projectEvent", "eventRow", "projectSeries", "seriesRow",
                     "projectMembers", "override"}, Next1(x, op)
  PROVE  Good(todo[x], View(x), todo'[x], View(x)')
<1> DEFINE s == todo[x]
           q == todo'[x]
<1>1. s \in Seq(Stmts) /\ s # <<>> /\ Head(s)[1] = op /\ Head(s) = s[1] /\ Head(s) \in Stmts
  BY AtHead DEF LockInv
<1>2. InOrder(s)
  BY DEF LockInv, Locals, Local
<1>3. q \in Seq(Stmts) /\ Rises(Head(s), q)
  BY DEF Effect, Local
<1>4. View(x)' = View(x)
  BY DEF View
<1> HIDE DEF s, q
<1>5. Low(Head(s)) \in 7 .. 9
  BY <1>1 DEF Low, Keyed, Unranked
<1>6. LateProgram(q)
  <2> SUFFICES ASSUME NEW i \in DOMAIN q
               PROVE  Low(q[i]) >= 5
    BY <1>3 DEF LateProgram
  <2>1. Low(Head(s)) <= Low(q[i]) /\ Low(q[i]) \in 0 .. 9
    BY <1>3, RankFacts DEF Rises
  <2> QED
    BY <1>5, <2>1
<1>7. LateProgram(s)
  <2> SUFFICES ASSUME NEW i \in DOMAIN s
               PROVE  Low(s[i]) >= 5
    BY <1>1 DEF LateProgram
  <2>1. CASE i = 1
    BY <1>1, <1>5, <2>1
  <2>2. CASE i > 1
    <3>1. i - 1 \in DOMAIN Tail(s) /\ Tail(s)[i - 1] = s[i]
      BY <1>1, <2>2, TailFacts
    <3>2. Low(Head(s)) <= Low(s[i]) /\ Low(s[i]) \in 0 .. 9
      BY <1>1, <1>2, <3>1, TailRises, RankFacts DEF Rises
    <3> QED
      BY <1>5, <3>2
  <2> QED
    BY <1>1, <2>1, <2>2, TailFacts
<1>8. Executes(Head(s), View(x), View(x))
  <2>1. \A l : ~Refers(Head(s), l) /\ ~Drops(Head(s), l)
    BY <1>1 DEF Refers, Drops
  <2> QED
    BY <2>1, SameExecutes
<1> QED
  BY <1>1, <1>4, <1>6, <1>7, <1>8, LateGood DEF Good, s, q

LEMMA StatementGood ==
  ASSUME LockInv, NonEmpty(db), NEW x \in Sessions, UNCHANGED db, Statement(x)
  PROVE  Good(todo[x], View(x), todo'[x], View(x)')
<1>1. Effect(x)
  BY StatementEffect DEF LockInv
<1>2. CASE \/ ReadEvent(x) \/ ComputeEventRow(x) \/ ReadSeries(x) \/ ComputeSeriesRow(x)
           \/ ReadMembers(x) \/ Override(x)
  <2>1. UNCHANGED writes
    BY <1>2 DEF ReadEvent, ComputeEventRow, ReadSeries, ComputeSeriesRow, ReadMembers, Override
  <2>2. \E op \in {"projectEvent", "eventRow", "projectSeries", "seriesRow", "projectMembers",
                   "override"} : Next1(x, op)
    BY <1>2 DEF ReadEvent, ComputeEventRow, ReadSeries, ComputeSeriesRow, ReadMembers, Override
  <2> QED
    BY <1>1, <2>1, <2>2, LateReads
<1> QED
  BY <1>2, PutGood, UpdatesGood, PublishGood, InspectGood, PinGood DEF Statement

-----------------------------------------------------------------------------
(* The programs refer to what they pin, and bring only what is stored *)

Quiet(st) == \A e \in Events : ~Adds(st, e) /\ ~Kills(st, e)
Fits(p) ==
  /\ Followed(p) /\ Removing(p)
  /\ \A e \in Events : (\E i \in DOMAIN p : Adds(p[i], e)) => Stored(e) # {}

LEMMA QuietFits ==
  ASSUME NEW p, \A i \in DOMAIN p : Quiet(p[i])
  PROVE  Fits(p)
<1>1. ASSUME NEW k \in Table("publication"), NEW i \in DOMAIN p
      PROVE  ~Pinning(p[i], k)
  <2>1. k[2][1] \in Events /\ k \in PublicationsOf(k[2][1])
    BY RowFacts DEF Table, PublicationsOf
  <2> QED
    BY <2>1 DEF Quiet, Adds
<1> QED
  BY <1>1 DEF Fits, Quiet, Followed, Removing

LEMMA QuietStatements ==
  /\ \A id, val : Quiet(SetTx(id, val))
  /\ \A e : /\ Quiet(ProjectEvent(e)) /\ Quiet(Stmt("lock", Mp(e), NoRow))
            /\ Quiet(Stmt("addVersion", Snapshots(e), NoRow))
            /\ \A s : Quiet(Stmt("setSeries", Mp(e), s))
  /\ \A k : Quiet(Stmt("delete", k, NoRow))
  /\ \A e, el : Quiet(Stmt("tech", e, el)) /\ Quiet(Stmt("duration", e, el))
  /\ \A s : /\ Quiet(ProjectSeries(s)) /\ Quiet(Stmt("tombstone", Series(s), NoRow))
            /\ \A val : /\ Quiet(Stmt("override", s, val))
                        /\ Quiet(Stmt("setTitle", Series(s), val))
  BY DEF Quiet, Adds, Kills, Pinning, Refers, SetTx, Stmt, ProjectEvent, ProjectSeries, Policy,
         Element, Mp, Series

LEMMA TwoFits ==
  ASSUME NEW a, NEW b, Quiet(a), Quiet(b)
  PROVE  Fits(<<a, b>>)
<1> DEFINE p == <<a, b>>
<1>1. DOMAIN p = 1 .. 2 /\ p[1] = a /\ p[2] = b
  OBVIOUS
<1> HIDE DEF p
<1>2. \A i \in DOMAIN p : Quiet(p[i])
  BY <1>1
<1>3. Fits(p)
  BY <1>2, QuietFits
<1> QED
  BY <1>3 DEF p

LEMMA TombstoneFits ==
  ASSUME NEW e \in Events
  PROVE  Fits(TombstoneEvent(e))
<1> DEFINE p == TombstoneEvent(e)
<1>1. /\ DOMAIN p = 1 .. 7
      /\ p[1] = Stmt("tombstone", Mp(e), NoRow)
      /\ p[2] = Stmt("delete", Publication(e, EngagePlayer), NoRow)
      /\ p[3] = Stmt("delete", Publication(e, OtherChannel), NoRow)
      /\ p[4] = Stmt("delete", Element(e, Source), NoRow)
      /\ p[5] = Stmt("delete", Element(e, Encoded), NoRow)
      /\ p[6] = Stmt("delete", Snapshots(e), NoRow)
      /\ p[7] = ProjectEvent(e)
  BY DEF TombstoneEvent
<1> HIDE DEF p
<1>2. \A i \in 2 .. 7 : Quiet(p[i])
  <2>1. Quiet(p[2]) /\ Quiet(p[3]) /\ Quiet(p[4])
    BY <1>1, QuietStatements
  <2>2. Quiet(p[5]) /\ Quiet(p[6]) /\ Quiet(p[7])
    BY <1>1, QuietStatements
  <2> QED
    BY <2>1, <2>2
<1>3. /\ \A k : ~Pinning(p[1], k)
      /\ \A f \in Events : ~Adds(p[1], f) /\ (Kills(p[1], f) => f = e)
  BY <1>1, SharedKeys DEF Adds, Pinning, Refers, Kills, Stmt
<1>4. \A i \in DOMAIN p : i = 1 \/ i \in 2 .. 7
  BY <1>1
<1>5. \A i \in DOMAIN p : \A f \in Events : ~Adds(p[i], f)
  BY <1>2, <1>3, <1>4 DEF Quiet
<1>6. \A k \in Parts(e) : \E j \in DOMAIN p : 1 < j /\ Drops(p[j], k)
  <2>1. /\ Drops(p[2], Publication(e, EngagePlayer)) /\ Drops(p[3], Publication(e, OtherChannel))
        /\ Drops(p[4], Element(e, Source)) /\ Drops(p[5], Element(e, Encoded))
    BY <1>1 DEF Drops, Stmt
  <2>2. {2, 3, 4, 5} \subseteq DOMAIN p /\ 1 < 2 /\ 1 < 3 /\ 1 < 4 /\ 1 < 5
    BY <1>1
  <2>3. ASSUME NEW k \in Parts(e)
        PROVE  k \in {Publication(e, EngagePlayer), Publication(e, OtherChannel),
                      Element(e, Source), Element(e, Encoded)}
    BY DEF Parts, PublicationsOf, Channels, Elements
  <2> QED
    BY <2>1, <2>2, <2>3
<1>7. Removing(p)
  BY <1>2, <1>3, <1>4, <1>5, <1>6 DEF Removing, Quiet
<1>8. ASSUME NEW k \in Table("publication"), NEW i \in DOMAIN p
      PROVE  ~Pinning(p[i], k)
  <2>1. k[2][1] \in Events /\ k \in PublicationsOf(k[2][1])
    BY RowFacts DEF Table, PublicationsOf
  <2> QED
    BY <1>5, <2>1 DEF Adds
<1>9. Fits(p)
  BY <1>5, <1>7, <1>8 DEF Fits, Followed
<1> QED
  BY <1>9 DEF p

LEMMA PublishFits ==
  ASSUME NEW e \in Events, NEW c \in Channels, NEW els, Stored(e) # {}
  PROVE  Fits(Publish(e, c, els)) /\ Fits(InsertElement(e))
<1>1. Fits(Publish(e, c, els))
  <2> DEFINE p == Publish(e, c, els)
             key == Publication(e, c)
  <2>1. /\ DOMAIN p = 1 .. 3
        /\ p[1] = Stmt("pin", key, NoRow)
        /\ p[2] = Stmt("reference", key, els)
        /\ p[3] = ProjectEvent(e)
    BY DEF Publish
  <2>2. \A f : key \in PublicationsOf(f) => f = e
    BY KeysDiffer DEF PublicationsOf
  <2> HIDE DEF p, key
  <2>3. /\ \A k : /\ ~Pinning(p[2], k) /\ ~Pinning(p[3], k)
                  /\ Pinning(p[1], k) => k = key
                  /\ Refers(p[2], k) <=> k = key
                  /\ ~Refers(p[1], k) /\ ~Refers(p[3], k)
        /\ \A i \in 1 .. 3 : \A f : ~Kills(p[i], f)
    BY <2>1 DEF Pinning, Refers, Kills, Stmt, ProjectEvent
  <2>4. \A i \in 1 .. 3 : \A f \in Events : Adds(p[i], f) => f = e
    <3>1. p[1][1] # "put" /\ p[2][1] # "put" /\ p[3][1] # "put"
      BY <2>1 DEF Stmt, ProjectEvent
    <3> QED
      BY <2>2, <2>3, <3>1 DEF Adds
  <2>5. Followed(p)
    BY <2>1, <2>3 DEF Followed
  <2>6. Removing(p)
    BY <2>1, <2>3 DEF Removing
  <2>7. Fits(p)
    BY <2>1, <2>4, <2>5, <2>6 DEF Fits
  <2> QED
    BY <2>7 DEF p
<1>2. Fits(InsertElement(e))
  <2> DEFINE p == InsertElement(e)
  <2>1. DOMAIN p = {1} /\ p[1] = Stmt("put", Element(e, Encoded), "row")
    BY DEF InsertElement
  <2> HIDE DEF p
  <2>2. /\ \A f \in Events : (Adds(p[1], f) => f = e) /\ ~Kills(p[1], f)
        /\ \A k : ~Pinning(p[1], k)
    BY <2>1, KeysDiffer DEF Adds, Pinning, Refers, Kills, Stmt
  <2>3. Fits(p)
    BY <2>1, <2>2 DEF Fits, Followed, Removing
  <2> QED
    BY <2>3 DEF p
<1> QED
  BY <1>1, <1>2

LEMMA InspectFits ==
  ASSUME NEW e, NEW tracks \in Seq(Elements)
  PROVE  Fits(Inspect(e, tracks))
<1> DEFINE q == Inspect(e, tracks)
           n == Len(tracks)
           own == [i \in DOMAIN tracks |-> Stmt("tech", e, tracks[i])]
           a == Stmt("duration", e, NoRow)
           b == ProjectEvent(e)
           S == {own[i] : i \in 1 .. n} \cup {a, b}
<1>1. n \in Nat /\ DOMAIN tracks = 1 .. n
  OBVIOUS
<1>2. Quiet(a) /\ Quiet(b) /\ \A i \in 1 .. n : Quiet(own[i])
  BY <1>1, QuietStatements
<1>3. DOMAIN own = 1 .. n /\ q = own \o <<a, b>>
  BY <1>1 DEF Inspect
<1>4. a \in S /\ b \in S /\ own \in Seq(S) /\ Len(own) = n
  <2>1. own \in [1 .. n -> S]
    BY <1>1, <1>3
  <2> HIDE DEF own, S
  <2>2. own \in Seq(S) /\ Len(own) = n
    BY <1>1, <2>1
  <2> QED
    BY <2>2 DEF S
<1>5. \A st \in S : Quiet(st)
  BY <1>2
<1> HIDE DEF own, a, b, S, q
<1>6. own \o <<a, b>> \in Seq(S)
  BY <1>4, ThenTwo
<1>7. \A i \in DOMAIN q : Quiet(q[i])
  <2>1. q \in Seq(S)
    BY <1>3, <1>6
  <2>2. \A i \in DOMAIN q : q[i] \in S
    BY <2>1
  <2> QED
    BY <1>5, <2>2
<1>8. Fits(q)
  BY <1>7, QuietFits
<1> QED
  BY <1>8 DEF q

LEMMA SeriesFits ==
  ASSUME NEW s, NEW policy, NEW override \in BOOLEAN
  PROVE  Fits(SetSeriesACL(s, policy, override))
<1> DEFINE a == SetTx(s, policy)
           b == Stmt("override", s, policy)
           c == ProjectSeries(s)
<1>1. Quiet(a) /\ Quiet(b) /\ Quiet(c)
  BY QuietStatements
<1>2. Fits(<<a, c>>)
  BY <1>1, TwoFits
<1>3. Fits(<<a, b, c>>)
  <2> DEFINE p == <<a, b, c>>
  <2>1. DOMAIN p = 1 .. 3 /\ p[1] = a /\ p[2] = b /\ p[3] = c
    OBVIOUS
  <2> HIDE DEF p, a, b, c
  <2>2. \A i \in DOMAIN p : Quiet(p[i])
    BY <1>1, <2>1
  <2> QED
    BY <2>2, QuietFits DEF p
<1>4. (<<a>> \o <<>>) \o <<c>> = <<a, c>> /\ (<<a>> \o <<b>>) \o <<c>> = <<a, b, c>>
  <2> HIDE DEF a, b, c
  <2>1. a \in {a, b, c} /\ b \in {a, b, c} /\ c \in {a, b, c}
    OBVIOUS
  <2> QED
    BY <2>1, Singletons
<1>5. SetSeriesACL(s, policy, override)
      = (<<a>> \o (IF override THEN <<b>> ELSE <<>>)) \o <<c>>
  BY DEF SetSeriesACL
<1> QED
  BY <1>2, <1>3, <1>4, <1>5

LEMMA RequestFits ==
  ASSUME NEW x \in Sessions, Request(x)
  PROVE  \E p : Fits(p) /\ Begin(x, p)
<1>1. \A e, policy : Fits(SetACL(e, policy))
  BY QuietStatements, TwoFits DEF SetACL
<1>2. \A e, s : Fits(SetEventDC(e, s))
  BY QuietStatements, TwoFits DEF SetEventDC
<1>3. \A e : Fits(Snapshot(e))
  BY QuietStatements, TwoFits DEF Snapshot
<1>4. \A s, t : Fits(PutSeries(s, t)) /\ Fits(TombstoneSeries(s))
  BY QuietStatements, TwoFits DEF PutSeries, TombstoneSeries
<1>5. \A e : Fits(Materialise(e))
  <2> SUFFICES ASSUME NEW e
               PROVE  Fits(Materialise(e))
    OBVIOUS
  <2> DEFINE p == Materialise(e)
  <2>1. DOMAIN p = {1} /\ p[1] = ProjectEvent(e)
    BY DEF Materialise
  <2> HIDE DEF p
  <2>2. Fits(p)
    BY <2>1, QuietStatements, QuietFits
  <2> QED
    BY <2>2 DEF p
<1>6. ASSUME NEW e \in Events, EncodeBody(x, e)
      PROVE  \E p : Fits(p) /\ Begin(x, p)
  <2>1. EngagePlayer \in Channels /\ Stored(e) # {}
    BY <1>6 DEF Channels, EncodeBody
  <2>2. Fits(InsertElement(e))
    BY <2>1, PublishFits
  <2> QED
    BY <1>6, <2>2 DEF EncodeBody
<1>7. ASSUME NEW e \in Events, PublishBody(x, e)
      PROVE  \E p : Fits(p) /\ Begin(x, p)
  BY <1>7, PublishFits DEF PublishBody
<1>8. ASSUME NEW e \in Events,
             \/ EventAccessWrite(x, e) \/ EventDelete(x, e) \/ EventMetadataEdit(x, e)
             \/ SnapshotBody(x, e) \/ Ingest(x, e)
      PROVE  \E p : Fits(p) /\ Begin(x, p)
  BY <1>1, <1>2, <1>3, <1>5, <1>8, TombstoneFits
     DEF EventAccessWrite, EventDelete, EventMetadataEdit, SnapshotBody, Ingest
<1>9. ASSUME NEW s \in SeriesIds,
             SeriesAccessWrite(x, s) \/ SeriesMetadataEdit(x, s) \/ SeriesDelete(x, s)
      PROVE  \E p : Fits(p) /\ Begin(x, p)
  BY <1>4, <1>9, SeriesFits DEF SeriesAccessWrite, SeriesMetadataEdit, SeriesDelete
<1>10. ASSUME NEW e \in Events, InspectBody(x, e)
       PROVE  \E p : Fits(p) /\ Begin(x, p)
  <2>1. PICK tracks \in SetToSeqs(Stored(e)) : Begin(x, Inspect(e, tracks))
    BY <1>10 DEF InspectBody
  <2>2. tracks \in Seq(Elements)
    BY TracksOfStored
  <2> QED
    BY <2>1, <2>2, InspectFits
<1> QED
  BY <1>6, <1>7, <1>8, <1>9, <1>10 DEF Request

-----------------------------------------------------------------------------
(* Both hold in every reachable state *)

LEMMA AgreeParts ==
  ASSUME NEW v, NEW u, \A k \in Rows : u[k] = v[k], NEW e \in Events
  PROVE  /\ u[Mp(e)] = v[Mp(e)] /\ \A k \in Parts(e) : u[k] = v[k]
<1>1. Mp(e) \in Rows /\ \A k \in Parts(e) : k \in Rows
  BY PartRanks
<1> QED
  BY <1>1

LEMMA AgreeHollow ==
  ASSUME NEW v, NEW u, \A k \in Rows : u[k] = v[k], NEW k \in Table("publication")
  PROVE  Hollow(u, k) <=> Hollow(v, k)
  BY DEF Table, Hollow, Exists

\* A session that has written nothing sees the database.
LEMMA FreshView ==
  ASSUME NEW x, writes[x] = Empty
  PROVE  \A k \in Rows : View(x)[k] = db[k]
  BY DEF View, Empty

LEMMA InitGood ==
  ASSUME Init
  PROVE  FilledInv /\ Gone
<1>1. /\ \A e \in Events : /\ db[Mp(e)] = Stored0[Mp(e)]
                            /\ Stored0[Mp(e)] = [series |-> InitialSeries, deleted |-> FALSE]
      /\ \A k \in Table("publication") : db[k] = NoRow
  BY PartRanks DEF Init, Stored0, Mp, Table
<1>2. NonEmpty(db) /\ Cleared(db)
  BY <1>1 DEF NonEmpty, Hollow, Exists, Cleared
<1>3. ASSUME NEW x \in Sessions
      PROVE  Filled(todo[x], View(x))
  <2>1. todo[x] = <<>> /\ writes[x] = Empty
    BY DEF Init
  <2>2. \A k \in Rows : View(x)[k] = db[k]
    BY <2>1, FreshView
  <2>3. \A k \in Table("publication") : ~Hollow(View(x), k)
    BY <1>2, <2>2, AgreeHollow DEF NonEmpty
  <2> QED
    BY <2>1, <2>3 DEF Filled, Followed
<1> QED
  BY <1>2, <1>3 DEF FilledInv, Gone, Init

LEMMA BeginGood ==
  ASSUME LockInv, FilledInv, Gone, NEW x \in Sessions, NEW p, Fits(p), Begin(x, p)
  PROVE  FilledInv' /\ Gone'
<1>1. /\ UNCHANGED <<db, writes>> /\ todo'[x] = p /\ open' = open \cup {x}
      /\ \A y \in Sessions \ {x} : todo'[y] = todo[y]
      /\ writes[x] = Empty
      /\ ~overlapped' => ~overlapped /\ open = {}
  BY DEF Begin, LockInv, Typed
<1>2. \A y : View(y)' = View(y)
  BY <1>1 DEF View
<1>3. \A k \in Rows : View(x)[k] = db[k]
  BY <1>1, FreshView
<1>4. FilledInv'
  <2>1. \A k \in Table("publication") : ~Hollow(View(x), k)
    BY <1>3, AgreeHollow DEF FilledInv, NonEmpty
  <2>2. Filled(p, View(x))
    BY <2>1 DEF Fits, Filled
  <2> QED
    BY <1>1, <1>2, <2>2 DEF FilledInv, NonEmpty, Hollow, Exists
<1>5. ASSUME ~overlapped'
      PROVE  Cleared(db) /\ GoneOf(p, View(x)) /\ open' = {x}
  <2>1. Cleared(db) /\ open' = {x}
    BY <1>1, <1>5 DEF Gone
  <2>2. Cleared(View(x))
    BY <1>3, <2>1, AgreeParts DEF Cleared
  <2>3. ASSUME NEW e \in Events, View(x)[Mp(e)].deleted, NEW j \in DOMAIN p, Adds(p[j], e)
        PROVE  FALSE
    <3>1. PICK el \in Elements : Exists(db, Element(e, el))
      BY <2>3 DEF Fits, Stored
    <3>2. Element(e, el) \in Parts(e)
      BY PartRanks
    <3>3. db[Element(e, el)] = NoRow
      BY <1>3, <2>1, <2>3, <3>2, AgreeParts DEF Cleared
    <3> QED
      BY <3>1, <3>3 DEF Exists
  <2> QED
    BY <2>1, <2>2, <2>3 DEF GoneOf, Fits, Cleared
<1>6. Gone'
  BY <1>1, <1>2, <1>5 DEF Gone, Cleared
<1> QED
  BY <1>4, <1>6

LEMMA StatementKeepsGood ==
  ASSUME LockInv, FilledInv, Gone, NEW x \in Sessions, Statement(x),
         UNCHANGED <<db, open, begun, overlapped>>
  PROVE  FilledInv' /\ Gone'
<1>1. /\ \A y \in Sessions \ {x} : todo'[y] = todo[y] /\ writes'[y] = writes[y]
      /\ x \in open
  BY StatementEffect DEF Effect, LockInv
<1>2. \A y \in Sessions \ {x} : View(y)' = View(y)
  BY <1>1 DEF View
<1>3. Good(todo[x], View(x), todo'[x], View(x)')
  BY StatementGood DEF FilledInv
<1>4. FilledInv'
  BY <1>1, <1>2, <1>3 DEF FilledInv, Good, NonEmpty, Hollow, Exists
<1>5. open \subseteq Sessions
  BY DEF LockInv, Typed
<1>6. Gone'
  BY <1>1, <1>2, <1>3, <1>5 DEF Gone, Good, Cleared
<1> QED
  BY <1>4, <1>6

LEMMA CloseGood ==
  ASSUME LockInv, Serial, FilledInv, Gone, NEW x \in Sessions, Commit(x) \/ Rollback(x)
  PROVE  FilledInv' /\ Gone'
<1>1. /\ x \in open /\ open' = open \ {x} /\ UNCHANGED overlapped
      /\ DOMAIN todo' = Sessions /\ todo'[x] = <<>> /\ writes'[x] = Empty
      /\ \A y \in Sessions \ {x} : todo'[y] = todo[y] /\ writes'[y] = writes[y]
  BY DEF Commit, Rollback, Close, LockInv, Typed
<1>2. db' = db \/ (db' = View(x) /\ todo[x] = <<>>)
  BY DEF Commit, Rollback
<1>3. NonEmpty(db')
  BY <1>2 DEF FilledInv, Filled, NonEmpty
<1>4. ASSUME NEW y \in Sessions
      PROVE  Filled(todo'[y], View(y)')
  <2>1. CASE y = x
    <3>1. \A k \in Rows : View(x)'[k] = db'[k]
      BY <1>1 DEF View, Empty
    <3>2. \A k \in Table("publication") : ~Hollow(View(x)', k)
      BY <1>3, <3>1, AgreeHollow DEF NonEmpty
    <3> QED
      BY <1>1, <2>1, <3>2 DEF Filled, Followed
  <2>2. CASE y # x
    <3>1. todo'[y] = todo[y] /\ writes'[y] = writes[y]
      BY <1>1, <2>2
    <3>2. ASSUME NEW k \in Table("publication"), Hollow(View(y)', k)
          PROVE  Hollow(View(y), k)
      <4>1. k \in Rows
        BY DEF Table
      <4>2. CASE k \in DOMAIN writes[y]
        BY <3>1, <3>2, <4>1, <4>2 DEF View, Hollow, Exists
      <4>3. CASE k \notin DOMAIN writes[y]
        <5>1. View(y)'[k] = db'[k]
          BY <3>1, <4>1, <4>3 DEF View
        <5> QED
          BY <1>3, <3>2, <5>1 DEF NonEmpty, Hollow, Exists
      <4> QED
        BY <4>2, <4>3
    <3> QED
      BY <3>1, <3>2 DEF FilledInv, Filled
  <2> QED
    BY <2>1, <2>2
<1>5. Gone'
  <2> SUFFICES ASSUME ~overlapped'
               PROVE  Cleared(db') /\ open' = {}
    BY DEF Gone
  <2>1. ~overlapped /\ open = {x} /\ open' = {}
    BY <1>1 DEF Serial
  <2>2. Cleared(db) /\ GoneOf(todo[x], View(x))
    BY <2>1 DEF Gone
  <2>3. CASE db' = View(x) /\ todo[x] = <<>>
    BY <2>1, <2>2, <2>3 DEF GoneOf, Cleared
  <2> QED
    BY <1>2, <2>1, <2>2, <2>3
<1> QED
  BY <1>3, <1>4, <1>5 DEF FilledInv

LEMMA FilledAndGone == Spec => [](Serial /\ FilledInv /\ Gone)
<1>1. Init => Serial /\ FilledInv /\ Gone
  BY InitSerial, InitGood DEF Serial, Init
<1>2. ASSUME LockInv, Serial, FilledInv, Gone, [Next]_vars
      PROVE  FilledInv' /\ Gone'
  <2>1. CASE UNCHANGED vars
    <3>1. UNCHANGED <<db, open, todo, writes, overlapped>>
      BY <2>1 DEF vars, session
    <3>2. \A y : View(y)' = View(y)
      BY <3>1 DEF View
    <3> QED
      BY <1>2, <3>1, <3>2 DEF FilledInv, NonEmpty, Hollow, Exists, Gone, Cleared
  <2>2. ASSUME NEW x \in Sessions, Request(x)
        PROVE  FilledInv' /\ Gone'
    BY <1>2, <2>2, RequestFits, BeginGood
  <2>3. ASSUME NEW x \in Sessions, Statement(x), UNCHANGED <<db, open, begun, overlapped>>
        PROVE  FilledInv' /\ Gone'
    BY <1>2, <2>3, StatementKeepsGood
  <2>4. ASSUME NEW x \in Sessions, Commit(x) \/ Rollback(x)
        PROVE  FilledInv' /\ Gone'
    BY <1>2, <2>4, CloseGood
  <2> QED
    BY <1>2, <2>1, <2>2, <2>3, <2>4 DEF Next
<1> QED
  BY <1>1, <1>2, SerialStep, LocksInOrder, PTL DEF Spec

\* However transactions interleave, a committed publication has elements: no
\* pin is committed without the references that follow it.
THEOREM PublicationsHaveElements == Spec => []NonEmpty(db)
<1>1. FilledInv => NonEmpty(db)
  BY DEF FilledInv
<1> QED
  BY <1>1, FilledAndGone, PTL

-----------------------------------------------------------------------------
(* Who sees an event and who gets its bytes *)

\* What a settled database shows of an event, whether it is deleted or not.
LEMMA SettledRows ==
  ASSUME LockInv, Serial, Settled, NEW e \in Events
  PROVE  /\ db[Mp(e)].deleted => ~Exists(db, SearchEvent(e))
         /\ ~db[Mp(e)].deleted =>
              Exists(db, SearchEvent(e)) /\ db[SearchEvent(e)] = EventRow(db, e)
<1>1. Current(db, e)
  BY DEF Serial, Settled
<1>2. EventRow(db, e) \in EventRows
  BY DerivedTypes DEF LockInv, Typed
<1> QED
  BY <1>1, <1>2, NoRowAssumption DEF Current, Exists

\* Who is promised a channel may have what it publishes.
LEMMA PromisedChannels ==
  ASSUME LockInv, Serial, Settled, NEW p \in Principals, NEW e \in Events,
         ListedOnEngage(db, p, e)
  PROVE  /\ Promised(db, p, e) # {} /\ Promised(db, p, e) \subseteq OnChannels(db, e)
         /\ \A c \in Promised(db, p, e) : Authorized(db, p, e, c)
<1>1. db[SearchEvent(e)] = EventRow(db, e) /\ db[SearchEvent(e)].published
  BY SettledRows DEF ListedOnEngage
<1>2. OnChannels(db, e) # {}
  <2> SUFFICES ASSUME OnChannels(db, e) = {}
               PROVE  FALSE
    OBVIOUS
  <2>1. EventRow(db, e).published = FALSE
    BY DEF EventRow
  <2> QED
    BY <1>1, <2>1
<1>3. CASE p.admin \/ e \in p.epRead
  <2>1. Promised(db, p, e) = OnChannels(db, e)
    BY <1>3 DEF Promised
  <2> QED
    BY <1>2, <1>3, <2>1 DEF Authorized
<1>4. CASE ~(p.admin \/ e \in p.epRead)
  <2>1. db[SearchEvent(e)].pubRead \cap Pruned(db, p) # {}
    BY <1>4 DEF ListedOnEngage
  <2>2. db[SearchEvent(e)].pubRead
        = IF EngagePlayer \in OnChannels(db, e)
          THEN db[Publication(e, EngagePlayer)].read ELSE {}
    BY <1>1 DEF EventRow
  <2>3. EngagePlayer \in OnChannels(db, e)
    BY <2>1, <2>2
  <2>4. db[Publication(e, EngagePlayer)].read \cap p.roles # {}
    BY <2>1, <2>2, <2>3 DEF Pruned
  <2>5. Promised(db, p, e) = {EngagePlayer}
    BY <1>4 DEF Promised
  <2> QED
    BY <2>3, <2>4, <2>5 DEF Authorized
<1> QED
  BY <1>3, <1>4

LEMMA ListedDelivered ==
  ASSUME LockInv, Serial, FilledInv, PublishedElementsExist
  PROVE  ListedIsDelivered
<1> SUFFICES ASSUME Settled, NEW p \in Principals, NEW e \in Events, ListedOnEngage(db, p, e)
             PROVE  /\ Promised(db, p, e) # {}
                    /\ \A c \in Promised(db, p, e) :
                         /\ PinnedElements(db, e, c) # {}
                         /\ Enumerated(db, p, e, c) = PinnedElements(db, e, c)
                         /\ InManifest(db, p, e, c) = PinnedElements(db, e, c)
                         /\ \A el \in PinnedElements(db, e, c) : Delivered(db, p, e, el)
  BY DEF ListedIsDelivered
<1>1. /\ Promised(db, p, e) # {} /\ Promised(db, p, e) \subseteq OnChannels(db, e)
      /\ \A c \in Promised(db, p, e) : Authorized(db, p, e, c)
  BY PromisedChannels
<1>2. ASSUME NEW c \in Promised(db, p, e)
      PROVE  /\ PinnedElements(db, e, c) # {}
             /\ Enumerated(db, p, e, c) = PinnedElements(db, e, c)
             /\ InManifest(db, p, e, c) = PinnedElements(db, e, c)
             /\ \A el \in PinnedElements(db, e, c) : Delivered(db, p, e, el)
  <2>1. /\ c \in OnChannels(db, e) /\ c \in Channels /\ Authorized(db, p, e, c)
        /\ Exists(db, Publication(e, c))
    BY <1>1 DEF OnChannels
  <2>2. PinnedElements(db, e, c) = db[Publication(e, c)].elements
    BY <2>1 DEF PinnedElements
  <2>3. PinnedElements(db, e, c) # {}
    <3>1. ~Hollow(db, Publication(e, c))
      BY <2>1, RowFacts DEF FilledInv, NonEmpty
    <3> QED
      BY <2>1, <2>2, <3>1 DEF Hollow
  <2>4. \A el \in PinnedElements(db, e, c) : Exists(db, Element(e, el))
    BY <2>1, <2>2 DEF PublishedElementsExist
  <2>5. Enumerated(db, p, e, c) = PinnedElements(db, e, c)
    BY <2>1 DEF Enumerated
  <2>6. InManifest(db, p, e, c) = PinnedElements(db, e, c)
    BY <2>1, <2>4 DEF InManifest
  <2>7. \A el \in PinnedElements(db, e, c) : Delivered(db, p, e, el)
    BY <2>1, <2>4 DEF Delivered
  <2> QED
    BY <2>3, <2>5, <2>6, <2>7
<1> QED
  BY <1>1, <1>2

\* A settled database delivers what it lists: of an event that the portal
\* lists to a principal - by a role, or because it is an admin's or granted
\* directly - every element that the portal's channel (or, listed by name, any
\* channel) publishes is enumerated, in the manifest and served, and there is
\* one (searchapi/authz.go:6-8).
THEOREM WhatIsListedIsDelivered == Spec => []ListedIsDelivered
  BY ListedDelivered, LocksInOrder, FilledAndGone, PublicationsAreComplete, PTL

\* A role that a policy lets act, and that nothing denies it, is among the
\* projected roles and in the vocabulary.
LEMMA EvaluatedRoles ==
  ASSUME NEW v, NEW p \in Principals, NEW e \in Events, NEW action \in {"read", "write"},
         Evaluate(v, e, p.roles, action)
  PROVE  Allowed(v, e, action) \cap Pruned(v, p) # {}
<1>1. PICK r \in p.roles : <<r, action, TRUE>> \in Entries(v, e)
  BY DEF Evaluate
<1>2. r \in Roles
  BY DEF Principals
<1>3. r \in Allowed(v, e, action)
  BY <1>1, <1>2 DEF Evaluate, Allowed
<1>4. e \in Policied
  <2>1. Policy(e) \in Rows /\ Policy(e)[1] = "acl" /\ Policy(e)[2] = e
    BY RowFacts DEF Table, Policy
  <2> QED
    BY <2>1 DEF Policied
<1>5. <<r, action, TRUE>>[1] = r
  OBVIOUS
<1>6. r \in Pruned(v, p)
  BY <1>1, <1>4, <1>5 DEF Pruned
<1> QED
  BY <1>3, <1>6

LEMMA GrantedListed ==
  ASSUME LockInv, Serial
  PROVE  GrantedIsListed
<1> SUFFICES ASSUME Settled, NEW p \in Principals, NEW e \in Events, ~db[Mp(e)].deleted,
                    p.admin \/ e \in p.epRead \/ Evaluate(db, e, p.roles, "read")
             PROVE  /\ ListedOnAPI(db, p, e)
                    /\ CanWriteEvent(db, p, e) => ListedOnAdmin(db, p, e)
  BY DEF GrantedIsListed
<1>1. Exists(db, SearchEvent(e)) /\ db[SearchEvent(e)] = EventRow(db, e)
  BY SettledRows
<1>2. /\ db[SearchEvent(e)].read = Allowed(db, e, "read")
      /\ db[SearchEvent(e)].write = Allowed(db, e, "write")
  BY <1>1 DEF EventRow, ReadRoles, WriteRoles
<1>3. ListedOnAPI(db, p, e)
  <2>1. CASE p.admin \/ e \in p.epRead
    BY <1>1, <2>1 DEF ListedOnAPI
  <2>2. CASE Evaluate(db, e, p.roles, "read")
    BY <1>1, <1>2, <2>2, EvaluatedRoles DEF ListedOnAPI
  <2> QED
    BY <2>1, <2>2
<1>4. ASSUME CanWriteEvent(db, p, e)
      PROVE  ListedOnAdmin(db, p, e)
  <2>1. CASE p.admin \/ e \in p.epWrite
    BY <1>3, <2>1 DEF ListedOnAdmin
  <2>2. CASE Evaluate(db, e, p.roles, "write")
    BY <1>2, <1>3, <2>2, EvaluatedRoles DEF ListedOnAdmin
  <2> QED
    BY <1>4, <2>1, <2>2 DEF CanWriteEvent
<1> QED
  BY <1>3, <1>4

\* A settled database lists what its policies grant: whoever may read an event
\* finds it, and whoever may write it as well finds it on the admin surface,
\* though the listings read only the projected roles (search/query.go:79-82).
THEOREM WhatIsGrantedIsListed == Spec => []GrantedIsListed
  BY GrantedListed, LocksInOrder, FilledAndGone, PTL

LEMMA DeletedGone ==
  ASSUME LockInv, Serial, Gone
  PROVE  DeletedIsGone
<1> SUFFICES ASSUME Settled, NEW p \in Principals, NEW e \in Events, db[Mp(e)].deleted
             PROVE  /\ ~ListedOnAPI(db, p, e) /\ ~ListedOnEngage(db, p, e)
                    /\ \A c \in Channels :
                         Enumerated(db, p, e, c) = {} /\ InManifest(db, p, e, c) = {}
                    /\ \A el \in Elements : ~Delivered(db, p, e, el)
  BY DEF DeletedIsGone
<1>1. ~Exists(db, SearchEvent(e))
  BY SettledRows
<1>2. \A k \in Parts(e) : db[k] = NoRow
  BY DEF Gone, Settled, Cleared
<1>3. /\ \A c \in Channels : ~Exists(db, Publication(e, c))
      /\ \A el \in Elements : ~Exists(db, Element(e, el))
  BY <1>2, PartRanks DEF Exists, PublicationsOf
<1>4. \A c : PinnedElements(db, e, c) = {}
  BY <1>3 DEF PinnedElements, OnChannels
<1> QED
  BY <1>1, <1>3, <1>4 DEF ListedOnAPI, ListedOnEngage, Enumerated, InManifest, Delivered

\* In a settled database nothing is left of a deleted event for anybody: no
\* row in a listing, nothing in a manifest, not a byte
\* (mediapackage/write.go:125-134).
THEOREM WhatIsDeletedIsGone == Spec => []DeletedIsGone
  BY DeletedGone, LocksInOrder, FilledAndGone, PTL
=============================================================================

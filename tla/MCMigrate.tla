----------------------------- MODULE MCMigrate -----------------------------
(***************************************************************************)
(* Instances of Migrate for TLC: exports with an event that has every kind *)
(* of policy, version and publication, an event after it, one of another   *)
(* organisation, and an export that follows.                               *)
(***************************************************************************)
EXTENDS Migrate, TLC

Elem(id, url, kind, md5) == [id |-> id, url |-> url, kind |-> kind, md5 |-> md5]

Source == Elem("source", "urn:source", "media", "bytes1")
Cut == Elem("cut", "urn:cut", "media", "bytes2")
Slides == Elem("slides", "urn:slides", "media", "bytes2")
Preview(md5) == Elem("preview", "static/preview", "media", md5)
Episode == Elem("xacml", "urn:xacml", "episode", NoSum)
Episode3 == Elem("xacml", "urn:xacml3", "episode", NoSum)
EpisodeCopy == Elem("xacmlcopy", "static/xacml", "episode", NoSum)
SeriesCopy == Elem("xacmlseries", "urn:xacmlseries", "series", NoSum)
Distributed == Elem("distributed", "static/distributed", "media", NoSum)

ArchivalUrls == {"urn:source", "urn:cut", "urn:slides", "urn:xacml", "urn:xacml3", "urn:xacmlseries"}
AllowA == {<<"roleA", "read", TRUE>>}
DenyA == {<<"roleA", "read", FALSE>>, <<"roleB", "write", TRUE>>}
XACML == ("policyA" :> AllowA) @@ ("policyDeny" :> DenyA)

Version(els, nested, online) ==
  [elements |-> els \o [i \in DOMAIN nested |-> [nested[i] EXCEPT !.kind = "nested"]],
   online |-> online, series |-> NoRow]

\* The bytes at the urls; a distribution may be overwritten in place.
Files(policy, copy, preview) ==
  "urn:source" :> "bytes1" @@ "urn:cut" :> "bytes2" @@ "urn:slides" :> "bytes2" @@ "static/preview" :> preview
  @@ "static/distributed" :> "bytes4" @@ "urn:xacml" :> policy @@ "static/xacml" :> copy
  @@ "urn:xacmlseries" :> "policyDeny" @@ "urn:xacml3" :> "policyDeny"

Published(policy, deleted) ==
  <<[id |-> "e1", org |-> "ours", deleted |-> deleted, policy |-> policy,
     elements |-> <<Distributed, Preview(NoSum)>>]>>

AnEvent(org, id, versions, eav) == [id |-> id, org |-> org, versions |-> versions, eav |-> eav]

One(versions, eav, files, published) ==
  [mergeMode |-> "override", files |-> files, series |-> <<>>,
   events |-> <<AnEvent("ours", "e1", versions, eav),
                AnEvent("other", "e2", <<Version(<<Source>>, <<>>, TRUE)>>, {}),
                AnEvent("ours", "e3", <<Version(<<Slides>>, <<>>, TRUE)>>, {})>>,
   published |-> published]

Good(els) == <<Version(<<Source>>, <<Preview(NoSum)>>, TRUE), Version(els, <<>>, TRUE)>>
Agreeing == Files("policyA", "policyA", "bytes3")

Regular == One(Good(<<Cut, Episode, EpisodeCopy>>), AllowA, Agreeing, Published(AllowA, FALSE))

\* What can be wrong with the policy, a version, the published record.
Policies ==
  {One(Good(<<Cut, SeriesCopy>>), DenyA, Agreeing, <<>>),
   One(Good(<<Cut>>), {}, Agreeing, Published(NoRow, FALSE)),
   One(Good(<<Cut>>), AllowA, Agreeing, <<>>),
   One(Good(<<Cut, EpisodeCopy>>), AllowA, Agreeing, <<>>),
   One(Good(<<Cut, Episode, EpisodeCopy>>), AllowA, Files("policyA", "policyDeny", "bytes3"), <<>>),
   One(Good(<<Cut, Episode>>), AllowA, Files("garbage", "policyA", "bytes3"), <<>>),
   [Regular EXCEPT !.mergeMode = "roles"]}
Versions ==
  {One(<<Version(<<Source>>, <<>>, FALSE), Version(<<Cut, Episode>>, <<>>, TRUE)>>,
       AllowA, Agreeing, <<>>),
   One(Good(<<Cut, Preview("other")>>), {}, Agreeing, <<>>)}
Records ==
  {[Regular EXCEPT !.published = Published(p, d)] :
     p \in {NoRow, {}, DenyA}, d \in BOOLEAN}

\* Later: a third version, the preview overwritten, the policy changed.
Later(e) ==
  [e EXCEPT !.files = Files("policyA", "policyA", "bytes5"),
            !.events[1].eav = DenyA,
            !.events[1].versions =
               Append(@, Version(<<Source, Preview(NoSum), Episode3>>, <<>>, TRUE))]

SomeHistories ==
  {<<x>> : x \in Policies \cup Versions \cup Records} \cup {<<Regular, Later(Regular)>>}

\* A series that was deleted softly, with and without a member.
DeletedSeries(e, member) ==
  [e EXCEPT !.series = <<[id |-> "s1", org |-> "ours", deleted |-> TRUE, policy |-> NoRow]>>,
            !.events[1].versions =
               [n \in DOMAIN @ |-> [@[n] EXCEPT !.series = member]]]
LiveSeries(e, policy) ==
  [DeletedSeries(e, "s1") EXCEPT
     !.series[1] = [id |-> "s1", org |-> "ours", deleted |-> FALSE, policy |-> policy]]

AllHistories ==
  SomeHistories \cup {<<LiveSeries(Regular, p)>> : p \in {NoRow, AllowA}}
                \cup {<<DeletedSeries(Regular, NoRow)>>}
HeldSeries == {<<DeletedSeries(Regular, "s1")>>}
=============================================================================

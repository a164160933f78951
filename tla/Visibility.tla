----------------------------- MODULE Visibility -----------------------------
(***************************************************************************)
(* Who sees an event and who gets its bytes: the readers of Content's rows *)
(* - the listings (search/query.go), the delivery (serve), the manifest of *)
(* the player (searchapi/eventmanifest.go) and the decision on a policy    *)
(* (acl.Evaluate, adminapi/write.go).  They are functions of the rows a    *)
(* statement sees and of the principal; no reader changes a row.           *)
(*                                                                         *)
(* The listings read the projection and the vocabulary of the policies,    *)
(* the delivery reads the publications: what they show has to agree.       *)
(* An event has a publication per channel, each with a pin of its own.     *)
(***************************************************************************)
EXTENDS Content

\* Principal.split: the plain roles, and the episodes granted directly
\* (ROLE_EPISODE_<id>_READ and ROLE_EPISODE_<id>_WRITE).
Principals == [admin : BOOLEAN, roles : SUBSET Roles,
               epRead : SUBSET Events, epWrite : SUBSET Events]

Policied == {k[2] : k \in {r \in Rows : r[1] = "acl"}}

-----------------------------------------------------------------------------
(* The listings *)

PrunedOfSeries(v, p) ==                                                 \* mutant
  {r \in p.roles : \E s \in SeriesIds : \E entry \in Entries(v, s) : entry[1] = r}

\* Prune: the roles that some entry of some policy names, whatever it says.
Pruned(v, p) ==
  {r \in p.roles : \E id \in Policied : \E entry \in Entries(v, id) : entry[1] = r}

\* Events, on the surface APIEvents: the archive's readers.
ListedOnAPI(v, p, e) ==
  /\ Exists(v, SearchEvent(e))
  /\ \/ p.admin
     \/ v[SearchEvent(e)].read \cap Pruned(v, p) # {}
     \/ e \in p.epRead

\* Events, on the surface AdminEvents: the archive's readers who may write.
ListedOnAdmin(v, p, e) ==
  /\ ListedOnAPI(v, p, e)
  /\ \/ p.admin
     \/ v[SearchEvent(e)].write \cap Pruned(v, p) # {}
     \/ e \in p.epWrite

\* Events, on the surface EngageEpisode: the readers of the portal's pin.
ListedOnEngage(v, p, e) ==
  /\ Exists(v, SearchEvent(e))
  /\ v[SearchEvent(e)].published
  /\ \/ p.admin
     \/ v[SearchEvent(e)].pubRead \cap Pruned(v, p) # {}
     \/ e \in p.epRead

-----------------------------------------------------------------------------
(* The delivery *)

\* Authorized, of one pin; a principal may have an element if one of the
\* publications that contain it says so.
Authorized(v, p, e, c) ==
  \/ p.admin
  \/ e \in p.epRead
  \/ p.roles \cap v[Publication(e, c)].read # {}

\* What a channel of the event refers to.
PinnedElements(v, e, c) ==
  IF c \in OnChannels(v, e) THEN v[Publication(e, c)].elements ELSE {}

\* pinsForElement, then serveElement.
Delivered(v, p, e, el) ==
  /\ Exists(v, Element(e, el))
  /\ \/ p.admin
     \/ \E c \in Channels : el \in PinnedElements(v, e, c) /\ Authorized(v, p, e, c)

\* servePublications: the elements of a channel, if the principal may have
\* them, whether their rows exist or not.
Enumerated(v, p, e, c) == {el \in PinnedElements(v, e, c) : Authorized(v, p, e, c)}

\* The manifest: visibleForManifest, then publicationsFor.
InManifest(v, p, e, c) ==
  {el \in PinnedElements(v, e, c) :
     /\ ListedOnAPI(v, p, e) \/ ListedOnEngage(v, p, e)
     /\ Exists(v, Element(e, el))
     /\ Authorized(v, p, e, c)}

-----------------------------------------------------------------------------
(* The decision on a policy *)

\* Evaluate: some held role is allowed the action, and none is denied it.
Evaluate(v, id, roles, action) ==
  /\ AclState(v, id) = "POPULATED"
  /\ \E r \in roles : <<r, action, TRUE>> \in Entries(v, id)
  /\ \A r \in roles : <<r, action, FALSE>> \notin Entries(v, id)

\* canWriteEvent, past requireEventWrite: the direct grant too is vetoed.
CanWriteEvent(v, p, e) ==
  /\ ~v[Mp(e)].deleted
  /\ \/ p.admin
     \/ Evaluate(v, e, p.roles, "write")
     \/ /\ e \in p.epWrite
        /\ \A r \in p.roles : <<r, "write", FALSE>> \notin Entries(v, e)

-----------------------------------------------------------------------------
(* Properties, of a state that no transaction is about to change and that  *)
(* transactions reached one after the other                                *)

Settled == ~overlapped /\ open = {}

\* The channels whose elements a listing on the portal promises: who is listed
\* by a role, the portal's; who is listed by name, all.
Promised(v, p, e) ==
  IF p.admin \/ e \in p.epRead THEN OnChannels(v, e) ELSE {EngagePlayer}

\* "Can see it" is never more than "can fetch it" (authz.go:6-8): of an event
\* that the portal lists to a principal, a channel is published to it, and
\* every element of the channels it is promised is enumerated, in the manifest
\* and delivered.  An element that another channel alone publishes, with a pin
\* of its own, may be refused to who is listed by a role (project.go:67-69).
ListedIsDelivered ==
  Settled => \A p \in Principals, e \in Events : ListedOnEngage(db, p, e) =>
    /\ Promised(db, p, e) # {}
    /\ \A c \in Promised(db, p, e) :
         /\ PinnedElements(db, e, c) # {}
         /\ Enumerated(db, p, e, c) = PinnedElements(db, e, c)
         /\ InManifest(db, p, e, c) = PinnedElements(db, e, c)
         /\ \A el \in PinnedElements(db, e, c) : Delivered(db, p, e, el)

\* The listings lose nothing of what a policy grants, though they know only
\* the projected arrays and the pruned roles ("correctness is guaranteed by
\* construction", query.go:79-82): who the policy or a direct grant lets read
\* an event is shown it by the API, and who may write it as well, by the admin
\* surface.  (Who may only write it may act on it and is shown it nowhere.)
GrantedIsListed ==
  Settled => \A p \in Principals, e \in Events :
    LET mayRead == /\ ~db[Mp(e)].deleted
                   /\ p.admin \/ e \in p.epRead \/ Evaluate(db, e, p.roles, "read")
    IN
    /\ mayRead => ListedOnAPI(db, p, e)
    /\ mayRead /\ CanWriteEvent(db, p, e) => ListedOnAdmin(db, p, e)

\* Nothing is left of a deleted event for anybody, an admin included: not in a
\* listing, not in a manifest, and not a byte (mediapackage/
\* write.go:125-134: the row stays, every reference goes).
DeletedIsGone ==
  Settled => \A p \in Principals, e \in Events : db[Mp(e)].deleted =>
    /\ ~ListedOnAPI(db, p, e) /\ ~ListedOnEngage(db, p, e)
    /\ \A c \in Channels :
         Enumerated(db, p, e, c) = {} /\ InManifest(db, p, e, c) = {}
    /\ \A el \in Elements : ~Delivered(db, p, e, el)
=============================================================================

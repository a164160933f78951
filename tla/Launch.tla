------------------------------- MODULE Launch -------------------------------
(***************************************************************************)
(* How a request of ocng becomes a principal: the LTI login and launch     *)
(* (src/internal/lti), the bearer of the operated issuer (oidcauth), the   *)
(* key cache both rest on (jose/fetch.go), and the session a launch mints  *)
(* (authn/session.go).                                                     *)
(*                                                                         *)
(* State and nonce are rows of lti_flow, shared by the replicas; key sets  *)
(* are cached in each replica's memory, read and written under a mutex     *)
(* with the fetch outside it.  An action is one SQL statement, one access  *)
(* of the cache or one exchange with an issuer.  Signatures are modelled   *)
(* by the kid they name, and of a token's claims only the times: the other *)
(* checks (issuer, audience, deployment, message, roles) pass or do not.   *)
(* A definition marked "mutant" is the one below it with a bug in it; no   *)
(* action uses it.                                                         *)
(***************************************************************************)
EXTENDS Integers, FiniteSets

CONSTANTS
  Logins,         \* login initiations; a login's state and nonce are fresh
  Issuers,        \* LTI platforms and the operated issuer
  Idp,            \* the operated issuer, whose tokens are bearers
  Registrations,  \* the registry: pairs <<issuer, client>>
  From,           \* From[f] = <<issuer, client>>: who directs the browser here
  Kids,
  SignerOf,       \* SignerOf[k]: the issuer that publishes the key k
  InitialKeys,
  Replicas,
  Requests,       \* requests that may be in flight at the same time
  FlowTTL, TokenTTL, JwksTTL, SessionTTL, Skew,
  MaxFetch,       \* bound: how long a request takes from its look at the cache to its end
  MaxTime, MaxPosts, MaxFaults,   \* bounds
  MaxRotations,   \* bound: keys published or withdrawn
  None

ASSUME IssuerAssumption ==
  /\ Idp \in Issuers
  /\ Registrations \subseteq (Issuers \ {Idp}) \X {r[2] : r \in Registrations}
  /\ From \in [Logins -> Registrations]
ASSUME KeyAssumption == SignerOf \in [Kids -> Issuers] /\ InitialKeys \subseteq Kids
ASSUME TimeAssumption ==
  /\ {FlowTTL, TokenTTL, JwksTTL, SessionTTL} \subseteq Nat \ {0}
  /\ {Skew, MaxFetch, MaxTime, MaxPosts, MaxFaults, MaxRotations} \subseteq Nat
ASSUME NoneAssumption == None \notin Logins \cup Kids \cup Replicas \cup Nat

Kinds == {"state", "nonce"}

VARIABLES
  now,
  flow,        \* lti_flow: expires_at of the login's value of a kind, or None
  minted,      \* when the login minted its values, or None
  cookie,      \* the login whose state the browser's cookie holds, or None
  token,       \* the id_token the platform answered a login with, or None
  published,   \* the keys the issuers publish
  withdrawn,   \* when a key was withdrawn, or None
  cache,       \* Fetcher.cache of a replica: key set and fetch time per URL
  discovered,  \* replicas whose Validator has found the operated issuer's JWKS URL
  requests,    \* "steady": the key it names, if published ever since it arrived
  launches,    \* history: launches accepted for a login
  granted,     \* history: what was granted, on which key and until when
  posts, faults

flows == <<flow, minted, cookie, token>>
keys == <<published, withdrawn>>
memory == <<cache, discovered>>
history == <<launches, granted>>
vars == <<now, flows, keys, memory, requests, history, posts, faults>>

Idle == [pc |-> "idle", at |-> None, login |-> None, kid |-> None,
         set |-> None, keys |-> {}, begun |-> None, steady |-> {}, stale |-> FALSE]

Issuer(q) == SignerOf[requests[q].kid]

Init ==
  /\ now = 0
  /\ flow = [kind \in Kinds |-> [f \in Logins |-> None]]
  /\ minted = [f \in Logins |-> None]
  /\ cookie = None
  /\ token = [f \in Logins |-> None]
  /\ published = InitialKeys
  /\ withdrawn = [k \in Kids |-> None]
  /\ cache = [r \in Replicas |-> [i \in Issuers |-> None]]
  /\ discovered = {}
  /\ requests = [q \in Requests |-> Idle]
  /\ launches = [f \in Logins |-> 0]
  /\ granted = {}
  /\ posts = 0
  /\ faults = 0

-----------------------------------------------------------------------------
(* The world: time and the issuers' keys *)

\* The bound on requests: one that looked at the cache MaxFetch ago is over.
Tick ==
  /\ now < MaxTime
  /\ \A q \in Requests : requests[q].begun # None => now < requests[q].begun + MaxFetch
  /\ now' = now + 1
  /\ UNCHANGED <<flows, keys, memory, requests, history, posts, faults>>

Rotations ==
  Cardinality(published \ InitialKeys) + Cardinality({k \in Kids : withdrawn[k] # None})

PublishKey(k) ==
  /\ Rotations < MaxRotations
  /\ k \notin published /\ withdrawn[k] = None
  /\ published' = published \cup {k}
  /\ UNCHANGED <<now, flows, withdrawn, memory, requests, history, posts, faults>>

WithdrawKey(k) ==
  /\ Rotations < MaxRotations
  /\ k \in published
  /\ published' = published \ {k}
  /\ withdrawn' = [withdrawn EXCEPT ![k] = now]
  /\ requests' = [q \in Requests |-> [requests[q] EXCEPT !.steady = @ \ {k}]]
  /\ UNCHANGED <<now, flows, memory, history, posts, faults>>

Fault == faults < MaxFaults /\ faults' = faults + 1

-----------------------------------------------------------------------------
(* Login: two values, in either order, then the redirect to the platform *)

\* Registry.Lookup: exactly one registration, or a rejection.
Lookup(issuer, clients) ==
  Cardinality({r \in Registrations : r[1] = issuer /\ r[2] \in clients}) = 1
AnyClient == {r[2] : r \in Registrations}

ExpiryTwice == now + 2 * FlowTTL                                        \* mutant
Expiry == now + FlowTTL

Mint(kinds, f) ==
  /\ minted[f] = None
  /\ Lookup(From[f][1], {From[f][2]})
  /\ minted' = [minted EXCEPT ![f] = now]
  /\ flow' = [kind \in Kinds |->
       IF kind \in kinds THEN [flow[kind] EXCEPT ![f] = Expiry] ELSE flow[kind]]

\* Nobody knows the fresh values before the redirect, so the two inserts are
\* one step.  The platform answers the redirect with a token under one of its
\* keys.
Login(f) ==
  /\ Mint(Kinds, f)
  /\ cookie' = f
  /\ \E k \in published :
       /\ SignerOf[k] = From[f][1]
       /\ token' = [token EXCEPT ![f] = [kid |-> k, exp |-> now + TokenTTL]]
  /\ UNCHANGED <<now, keys, memory, requests, history, posts, faults>>

\* An insert fails: a 500, and at most one row that nobody will spend.
LoginFails(f) ==
  /\ Fault
  /\ \E kinds \in (SUBSET Kinds) \ {Kinds} : Mint(kinds, f)
  /\ UNCHANGED <<now, cookie, token, keys, memory, requests, history, posts>>

-----------------------------------------------------------------------------
(* Requests arrive at any replica; a browser may post its form again *)

Arrive(q, request) ==
  /\ requests[q].pc = "idle"
  /\ posts < MaxPosts
  /\ posts' = posts + 1
  /\ requests' = [requests EXCEPT ![q] = request]
  /\ UNCHANGED <<now, flows, keys, memory, history, faults>>

Launch(q, f) ==
  /\ token[f] # None
  /\ \E r \in Replicas :
       Arrive(q, [Idle EXCEPT !.pc = "bind", !.at = r, !.login = f, !.kid = token[f].kid,
                              !.steady = published \cap {token[f].kid}])

\* A bearer the operated issuer signed at some time.
Bearer(q, k) ==
  /\ SignerOf[k] = Idp /\ (k \in published \/ withdrawn[k] # None)
  /\ \E r \in Replicas :
       Arrive(q, [Idle EXCEPT !.pc = "discover", !.at = r, !.kid = k,
                              !.steady = published \cap {k}])

Goto(q, pc) == requests' = [requests EXCEPT ![q].pc = pc]

\* The request is answered, and forgotten.
End(q) == requests' = [requests EXCEPT ![q] = Idle]

-----------------------------------------------------------------------------
(* validate, up to the key *)

SpendKeepsRow(q, kind, live) ==                                        \* mutant
  /\ live = (flow[kind][requests[q].login] # None
               /\ now < flow[kind][requests[q].login])
  /\ UNCHANGED flow

\* delete from lti_flow ... returning expires_at > now()
Spend(q, kind, live) ==
  LET row == flow[kind][requests[q].login]
  IN
  /\ live = (row # None /\ now < row)
  /\ flow' = [flow EXCEPT ![kind][requests[q].login] = None]

\* The cookie, when the browser sends one, is that of the last login.
Bind(q) ==
  /\ requests[q].pc = "bind"
  /\ \/ /\ cookie # requests[q].login
        /\ End(q)
        /\ UNCHANGED flow
     \/ \E live \in BOOLEAN :
          /\ Spend(q, "state", live)
          /\ IF live /\ Lookup(From[requests[q].login][1], AnyClient)
             THEN Goto(q, "key") ELSE End(q)
  /\ UNCHANGED <<now, minted, cookie, token, keys, memory, history, posts, faults>>

\* discoverJWKS: a URL found before serves for an hour, and beats an issuer
\* that does not answer after that; the model leaves open when the hour is over.
Discover(q) ==
  /\ requests[q].pc = "discover"
  /\ Goto(q, "key")
  /\ \/ requests[q].at \in discovered /\ UNCHANGED discovered
     \/ discovered' = discovered \cup {requests[q].at}
  /\ UNCHANGED <<now, flows, keys, cache, history, posts, faults>>

\* No answer and no URL from before; or a document that names another issuer.
DiscoverFails(q) ==
  /\ requests[q].pc = "discover"
  /\ Fault
  /\ End(q)
  /\ UNCHANGED <<now, flows, keys, memory, history, posts>>

-----------------------------------------------------------------------------
(* Fetcher.Key *)

KnownByKid(q, set) == set # None /\ requests[q].kid \in set.keys         \* mutant
Usable(q, set) ==
  set # None /\ now - set.fetched < JwksTTL /\ requests[q].kid \in set.keys

ReadCache(q) ==
  LET set == cache[requests[q].at][Issuer(q)]
  IN
  /\ requests[q].pc = "key"
  /\ requests' = [requests EXCEPT ![q] =
       IF Usable(q, set) THEN [@ EXCEPT !.pc = "verify", !.begun = now]
       ELSE [@ EXCEPT !.pc = "fetch", !.set = set, !.begun = now]]
  /\ UNCHANGED <<now, flows, keys, memory, history, posts, faults>>

\* The issuer answers with the keys it publishes at that moment.
JwksAnswers(q) ==
  /\ requests[q].pc = "fetch"
  /\ requests' = [requests EXCEPT ![q].pc = "answered",
       ![q].keys = {k \in published : SignerOf[k] = Issuer(q)}]
  /\ UNCHANGED <<now, flows, keys, memory, history, posts, faults>>

KeyFromCopy(q) ==                                                       \* mutant
  requests[q].set # None /\ requests[q].kid \in requests[q].set.keys
KeyFromAnswer(q) == requests[q].kid \in requests[q].keys

\* The set is stored with the time of the store, over whatever is there; the
\* key is looked for in the set of this request's own fetch.
StoreKeys(q) ==
  /\ requests[q].pc = "answered"
  /\ cache' = [cache EXCEPT ![requests[q].at][Issuer(q)] =
                 [keys |-> requests[q].keys, fetched |-> now]]
  /\ requests' = [requests EXCEPT ![q] =
       IF KeyFromAnswer(q)
       THEN [@ EXCEPT !.pc = "verify", !.set = None, !.keys = {}]
       ELSE [Idle EXCEPT !.pc = "noKey", !.kid = requests[q].kid,
                         !.steady = requests[q].steady]]
  /\ UNCHANGED <<now, flows, keys, discovered, history, posts, faults>>

\* A cached key, however old, beats a dead endpoint.
FetchFails(q) ==
  /\ requests[q].pc \in {"fetch", "answered"}
  /\ Fault
  /\ requests' = [requests EXCEPT ![q] =
       IF @.set # None /\ @.kid \in @.set.keys
       THEN [@ EXCEPT !.pc = "verify", !.set = None, !.keys = {}, !.stale = TRUE]
       ELSE Idle]
  /\ UNCHANGED <<now, flows, keys, memory, history, posts>>

-----------------------------------------------------------------------------
(* With the key at hand *)

\* Issuer, audience and time, before the nonce is spent; the deployment and
\* the message contract after it.  OnLaunch mints the session.  Claims other
\* than the times may pass or not.
TokenInTime(q) == now <= token[requests[q].login].exp + Skew

Grant(q, until) ==
  granted' = granted \cup {[kid |-> requests[q].kid, login |-> requests[q].login,
                            at |-> now, until |-> until, stale |-> requests[q].stale]}

VerifyLaunch(q) ==
  LET f == requests[q].login
  IN
  /\ requests[q].pc = "verify" /\ f # None
  /\ End(q)
  /\ \/ UNCHANGED <<flow, history>>
     \/ /\ TokenInTime(q)
        /\ \E live \in BOOLEAN, good \in BOOLEAN :
             /\ Spend(q, "nonce", live)
             /\ IF live /\ good
                THEN /\ launches' = [launches EXCEPT ![f] = @ + 1]
                     /\ Grant(q, now + SessionTTL + Skew)
                ELSE UNCHANGED history
  /\ UNCHANGED <<now, minted, cookie, token, keys, memory, posts, faults>>

\* Resolve: a bearer that is presented decides; one whose claims (issuer,
\* audience, time, roles, act_as) do not pass leaves the caller anonymous.
VerifyBearer(q) ==
  /\ requests[q].pc = "verify" /\ requests[q].login = None
  /\ Grant(q, now) \/ UNCHANGED granted
  /\ End(q)
  /\ UNCHANGED <<now, flows, keys, memory, launches, posts, faults>>

\* The rejection for an unknown key is on its way.
Rejected(q) ==
  /\ requests[q].pc = "noKey"
  /\ End(q)
  /\ UNCHANGED <<now, flows, keys, memory, history, posts, faults>>

-----------------------------------------------------------------------------
(* Failures *)

\* A statement fails: the login is a 500, the launch a rejection, whether the
\* row was deleted or not.
SpendFails(q) ==
  /\ requests[q].login # None
  /\ \E kind \in Kinds :
       /\ requests[q].pc = IF kind = "state" THEN "bind" ELSE "verify"
       /\ \/ UNCHANGED flow
          \/ flow' = [flow EXCEPT ![kind][requests[q].login] = None]
  /\ Fault
  /\ End(q)
  /\ UNCHANGED <<now, minted, cookie, token, keys, memory, history, posts>>

\* A replica dies with its requests, its key sets and its discovery.
Crash(r) ==
  /\ Fault
  /\ cache' = [cache EXCEPT ![r] = [i \in Issuers |-> None]]
  /\ discovered' = discovered \ {r}
  /\ requests' = [q \in Requests |-> IF requests[q].at = r THEN Idle ELSE requests[q]]
  /\ UNCHANGED <<now, flows, keys, history, posts>>

Step(q) ==
  \/ Bind(q) \/ Discover(q) \/ DiscoverFails(q)
  \/ ReadCache(q) \/ JwksAnswers(q) \/ StoreKeys(q) \/ FetchFails(q)
  \/ VerifyLaunch(q) \/ VerifyBearer(q) \/ SpendFails(q) \/ Rejected(q)

Next ==
  \/ Tick
  \/ \E k \in Kids : PublishKey(k) \/ WithdrawKey(k)
  \/ \E f \in Logins : Login(f) \/ LoginFails(f)
  \/ \E q \in Requests :
       \/ Step(q)
       \/ \E f \in Logins : Launch(q, f)
       \/ \E k \in Kids : Bearer(q, k)
  \/ \E r \in Replicas : Crash(r)

Spec == Init /\ [][Next]_vars
-----------------------------------------------------------------------------
(* Properties *)

Time == 0 .. MaxTime
Maybe(S) == S \cup {None}
KeySets == [keys : SUBSET Kids, fetched : Time]
Tokens == [kid : Kids, exp : Nat]
RequestRecords ==
  [pc : {"idle", "bind", "discover", "key", "fetch", "answered", "verify", "noKey"},
   at : Maybe(Replicas), login : Maybe(Logins), kid : Maybe(Kids),
   set : Maybe(KeySets), keys : SUBSET Kids, begun : Maybe(Time),
   steady : SUBSET Kids, stale : BOOLEAN]
Grants == [kid : Kids, login : Maybe(Logins), at : Time, until : Nat, stale : BOOLEAN]

FlowTypeOK ==
  /\ now \in Time
  /\ flow \in [Kinds -> [Logins -> Maybe(0 .. MaxTime + FlowTTL)]]
  /\ minted \in [Logins -> Maybe(Time)]
  /\ token \in [Logins -> Maybe(Tokens)]

\* A request under way has a replica and a key to look for.
InFlight(x) == x.pc \notin {"idle", "noKey"}
RequestTypeOK ==
  /\ requests \in [Requests -> RequestRecords]
  /\ \A q \in Requests : InFlight(requests[q]) =>
       requests[q].at \in Replicas /\ requests[q].kid \in Kids
  /\ \A q \in Requests : requests[q].pc = "bind" => requests[q].login \in Logins

KeyTypeOK ==
  /\ published \subseteq Kids
  /\ withdrawn \in [Kids -> Maybe(Time)]
  /\ cache \in [Replicas -> [Issuers -> Maybe(KeySets)]]
  /\ discovered \subseteq Replicas

HistoryTypeOK ==
  /\ launches \in [Logins -> Nat]
  /\ granted \subseteq Grants

TypeOK == FlowTypeOK /\ RequestTypeOK /\ KeyTypeOK /\ HistoryTypeOK

\* A login is good for one launch and for FlowTTL, whichever replicas its form
\* is posted to, however often, and whatever fails in between: "two concurrent
\* launches ... race on the row delete and exactly one can win"
\* (store.go:110-113).
OneLaunchPerLogin ==
  /\ \A f \in Logins : launches[f] <= 1
  /\ \A g \in granted : g.login # None => g.at < minted[g.login] + FlowTTL

\* "an unknown kid forces ONE refetch before failing" (fetch.go:13-16): a
\* request is only told that its key is unknown if the issuer did not publish
\* it all the time since the request arrived, whatever other requests stored
\* in the cache meanwhile.
RolloverSucceeds == \A q \in Requests : requests[q].pc = "noKey" => requests[q].kid \notin requests[q].steady

\* What a withdrawn key granted ends: unless an issuer did not answer, nothing
\* is granted on it once a cached set and the exchanges around it have passed,
\* and the last session on it ends its own TTL later (session.go:33-35,
\* "expiry is the only revocation this design has").
TrustEnds ==
  \A g \in granted : ~g.stale /\ withdrawn[g.kid] # None =>
    LET last == withdrawn[g.kid] + JwksTTL + 2 * MaxFetch
    IN  /\ g.at < last
        /\ g.until < last + SessionTTL + Skew
        /\ g.login = None => g.until = g.at
=============================================================================

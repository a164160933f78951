---------------------------- MODULE LaunchProofs ----------------------------
(***************************************************************************)
(* Proofs about Launch: every state has the types of TypeOK, a login is    *)
(* good for one launch within its TTL, a rollover of keys rejects nobody,  *)
(* and the trust in a withdrawn key ends, for every number of replicas and *)
(* concurrent requests and every choice of the times.                      *)
(***************************************************************************)
EXTENDS Launch, TLAPS

-----------------------------------------------------------------------------
(* Type correctness, part by part *)

LEMMA InitType == Init => TypeOK
<1> SUFFICES ASSUME Init PROVE TypeOK
  OBVIOUS
<1>1. 0 \in Time
  BY TimeAssumption DEF Time
<1>2. Idle \in RequestRecords
  BY DEF Idle, RequestRecords, Maybe
<1>3. FlowTypeOK
  BY <1>1 DEF Init, FlowTypeOK, Maybe
<1>4. RequestTypeOK
  BY <1>2 DEF Init, RequestTypeOK, Idle, InFlight
<1>5. KeyTypeOK
  BY KeyAssumption DEF Init, KeyTypeOK, Maybe
<1>6. HistoryTypeOK
  BY DEF Init, HistoryTypeOK
<1> QED
  BY <1>3, <1>4, <1>5, <1>6 DEF TypeOK

\* The rows after an insert, and after a spend, are rows.
LEMMA MintType ==
  ASSUME FlowTypeOK, NEW f \in Logins, NEW kinds \in SUBSET Kinds, Mint(kinds, f)
  PROVE  /\ flow' \in [Kinds -> [Logins -> Maybe(0 .. MaxTime + FlowTTL)]]
         /\ minted' \in [Logins -> Maybe(Time)]
<1>1. now \in Time /\ Expiry \in 0 .. MaxTime + FlowTTL
  BY TimeAssumption DEF FlowTypeOK, Time, Expiry
<1>2. \A kind \in Kinds :
        [flow[kind] EXCEPT ![f] = Expiry] \in [Logins -> Maybe(0 .. MaxTime + FlowTTL)]
  BY <1>1 DEF FlowTypeOK, Maybe
<1>3. flow' \in [Kinds -> [Logins -> Maybe(0 .. MaxTime + FlowTTL)]]
  BY <1>2 DEF Mint, FlowTypeOK
<1>4. minted' \in [Logins -> Maybe(Time)]
  BY <1>1 DEF Mint, FlowTypeOK, Maybe
<1> QED
  BY <1>3, <1>4

LEMMA SpendType ==
  ASSUME FlowTypeOK, NEW f, NEW kind \in Kinds, flow' = [flow EXCEPT ![kind][f] = None]
  PROVE  flow' \in [Kinds -> [Logins -> Maybe(0 .. MaxTime + FlowTTL)]]
<1>1. [flow[kind] EXCEPT ![f] = None] \in [Logins -> Maybe(0 .. MaxTime + FlowTTL)]
  BY DEF FlowTypeOK, Maybe
<1> QED
  BY <1>1 DEF FlowTypeOK

LEMMA FlowType ==
  ASSUME TypeOK, [Next]_vars
  PROVE  FlowTypeOK'
<1> USE DEF FlowTypeOK
<1>0. FlowTypeOK /\ published \subseteq Kids
  BY DEF TypeOK, KeyTypeOK
<1>1. CASE UNCHANGED <<now, flows>>
  BY <1>0, <1>1 DEF flows
<1>2. CASE Tick
  BY <1>0, <1>2, TimeAssumption DEF Tick, flows, Time
<1>3. ASSUME NEW f \in Logins, Login(f) PROVE FlowTypeOK'
  <2>1. PICK k \in published :
          token' = [token EXCEPT ![f] = [kid |-> k, exp |-> now + TokenTTL]]
    BY <1>3 DEF Login
  <2>2. [kid |-> k, exp |-> now + TokenTTL] \in Tokens
    BY <1>0, TimeAssumption DEF Tokens, Time
  <2>3. token' \in [Logins -> Maybe(Tokens)]
    BY <1>0, <2>1, <2>2 DEF Maybe
  <2> QED
    BY <1>0, <1>3, <2>3, MintType DEF Login
<1>4. ASSUME NEW f \in Logins, LoginFails(f) PROVE FlowTypeOK'
  BY <1>0, <1>4, MintType DEF LoginFails
<1>5. ASSUME NEW q \in Requests, Bind(q) \/ VerifyLaunch(q) \/ SpendFails(q)
      PROVE  FlowTypeOK'
  <2>1. /\ UNCHANGED <<now, minted, token>>
        /\ \/ UNCHANGED flow
           \/ \E kind \in Kinds : flow' = [flow EXCEPT ![kind][requests[q].login] = None]
    BY <1>5 DEF Bind, VerifyLaunch, SpendFails, Spend, Kinds
  <2> QED
    BY <1>0, <2>1, SpendType
<1> QED
  BY <1>1, <1>2, <1>3, <1>4, <1>5
     DEF Next, Step, vars, flows, PublishKey, WithdrawKey, Discover, DiscoverFails,
         ReadCache, JwksAnswers, StoreKeys, FetchFails, VerifyBearer, Rejected,
         Launch, Bearer, Arrive, Crash

\* What RequestTypeOK asks of one request.
RequestOK(x) ==
  /\ x \in RequestRecords
  /\ InFlight(x) => x.at \in Replicas /\ x.kid \in Kids
  /\ x.pc = "bind" => x.login \in Logins

LEMMA IdleOK == RequestOK(Idle)
  BY DEF RequestOK, Idle, RequestRecords, Maybe, InFlight

LEMMA OneRequest ==
  ASSUME RequestTypeOK, NEW q \in Requests, NEW x, RequestOK(x),
         requests' = [requests EXCEPT ![q] = x]
  PROVE  RequestTypeOK'
  BY DEF RequestTypeOK, RequestOK, InFlight

LEMMA RequestType ==
  ASSUME TypeOK, [Next]_vars
  PROVE  RequestTypeOK'
<1>0. RequestTypeOK /\ FlowTypeOK /\ KeyTypeOK
  BY DEF TypeOK
<1>1. \A q \in Requests : RequestOK(requests[q])
  BY <1>0 DEF RequestTypeOK, RequestOK
<1>2. CASE UNCHANGED requests
  BY <1>0, <1>2 DEF RequestTypeOK, InFlight
<1>3. ASSUME NEW k \in Kids, WithdrawKey(k) PROVE RequestTypeOK'
  <2>1. \A q \in Requests : RequestOK([requests[q] EXCEPT !.steady = @ \ {k}])
    BY <1>1 DEF RequestOK, RequestRecords, InFlight
  <2> QED
    BY <1>1, <1>3, <2>1 DEF WithdrawKey, RequestTypeOK, RequestOK, InFlight
<1>4. ASSUME NEW q \in Requests, NEW f \in Logins, Launch(q, f) PROVE RequestTypeOK'
  <2>1. PICK r \in Replicas :
          requests' = [requests EXCEPT ![q] =
            [Idle EXCEPT !.pc = "bind", !.at = r, !.login = f, !.kid = token[f].kid,
                         !.steady = published \cap {token[f].kid}]]
    BY <1>4 DEF Launch, Arrive
  <2>2. token[f].kid \in Kids
    BY <1>0, <1>4 DEF Launch, FlowTypeOK, Maybe, Tokens
  <2>3. RequestOK([Idle EXCEPT !.pc = "bind", !.at = r, !.login = f, !.kid = token[f].kid,
                               !.steady = published \cap {token[f].kid}])
    BY <1>0, <2>2 DEF KeyTypeOK, RequestOK, Idle, RequestRecords, Maybe
  <2> QED
    BY <1>0, <2>1, <2>3, OneRequest
<1>5. ASSUME NEW q \in Requests, NEW k \in Kids, Bearer(q, k) PROVE RequestTypeOK'
  <2>1. PICK r \in Replicas :
          requests' = [requests EXCEPT ![q] =
            [Idle EXCEPT !.pc = "discover", !.at = r, !.kid = k, !.steady = published \cap {k}]]
    BY <1>5 DEF Bearer, Arrive
  <2>2. RequestOK([Idle EXCEPT !.pc = "discover", !.at = r, !.kid = k,
                               !.steady = published \cap {k}])
    BY <1>0 DEF KeyTypeOK, RequestOK, Idle, RequestRecords, Maybe
  <2> QED
    BY <1>0, <2>1, <2>2, OneRequest
<1>6. ASSUME NEW q \in Requests, End(q) PROVE RequestTypeOK'
  BY <1>0, <1>6, IdleOK, OneRequest DEF End
<1>7. ASSUME NEW q \in Requests, Goto(q, "key"), InFlight(requests[q])
      PROVE  RequestTypeOK'
  <2>1. RequestOK([requests[q] EXCEPT !.pc = "key"])
    BY <1>1, <1>7 DEF RequestOK, RequestRecords, InFlight
  <2> QED
    BY <1>0, <1>7, <2>1, OneRequest DEF Goto
<1>8. ASSUME NEW q \in Requests, ReadCache(q) PROVE RequestTypeOK'
  <2> DEFINE set == cache[requests[q].at][Issuer(q)]
  <2>1. requests[q].at \in Replicas /\ requests[q].kid \in Kids
    BY <1>1, <1>8 DEF ReadCache, RequestOK, InFlight
  <2>2. set \in Maybe(KeySets) /\ now \in Time
    BY <1>0, <2>1, KeyAssumption DEF KeyTypeOK, FlowTypeOK, Issuer
  <2>3. RequestOK([requests[q] EXCEPT !.pc = "verify", !.begun = now])
    BY <1>1, <2>1, <2>2 DEF RequestOK, RequestRecords, Maybe
  <2>4. RequestOK([requests[q] EXCEPT !.pc = "fetch", !.set = set, !.begun = now])
    BY <1>1, <2>1, <2>2 DEF RequestOK, RequestRecords, Maybe
  <2>5. \/ requests' = [requests EXCEPT ![q] =
                          [requests[q] EXCEPT !.pc = "verify", !.begun = now]]
        \/ requests' = [requests EXCEPT ![q] =
                          [requests[q] EXCEPT !.pc = "fetch", !.set = set, !.begun = now]]
    BY <1>8 DEF ReadCache
  <2> QED
    BY <1>0, <2>3, <2>4, <2>5, OneRequest
<1>9. ASSUME NEW q \in Requests, JwksAnswers(q) PROVE RequestTypeOK'
  <2> DEFINE found == {k \in published : SignerOf[k] = Issuer(q)}
  <2>1. requests' = [requests EXCEPT ![q] =
                       [requests[q] EXCEPT !.pc = "answered", !.keys = found]]
    BY <1>0, <1>9 DEF JwksAnswers, RequestTypeOK
  <2>2. found \subseteq Kids
    BY <1>0 DEF KeyTypeOK
  <2>3. RequestOK([requests[q] EXCEPT !.pc = "answered", !.keys = found])
    BY <1>1, <1>9, <2>2 DEF JwksAnswers, RequestOK, RequestRecords, InFlight
  <2> QED
    BY <1>0, <2>1, <2>3, OneRequest
<1>10. ASSUME NEW q \in Requests, StoreKeys(q) \/ FetchFails(q) PROVE RequestTypeOK'
  <2>1. requests[q].pc \in {"fetch", "answered"}
    BY <1>10 DEF StoreKeys, FetchFails
  <2>2. RequestOK([requests[q] EXCEPT !.pc = "verify", !.set = None, !.keys = {}])
    BY <1>1, <2>1 DEF RequestOK, RequestRecords, Maybe, InFlight
  <2>3. RequestOK([requests[q] EXCEPT !.pc = "verify", !.set = None, !.keys = {},
                                      !.stale = TRUE])
    BY <1>1, <2>1 DEF RequestOK, RequestRecords, Maybe, InFlight
  <2>4. RequestOK([Idle EXCEPT !.pc = "noKey", !.kid = requests[q].kid,
                               !.steady = requests[q].steady])
    BY <1>1 DEF RequestOK, Idle, RequestRecords, Maybe, InFlight
  <2>5. \E x : RequestOK(x) /\ requests' = [requests EXCEPT ![q] = x]
    <3>1. CASE StoreKeys(q) /\ KeyFromAnswer(q)
      BY <2>2, <3>1 DEF StoreKeys
    <3>2. CASE StoreKeys(q) /\ ~KeyFromAnswer(q)
      BY <2>4, <3>2 DEF StoreKeys
    <3>3. CASE FetchFails(q)
      BY <2>3, <3>3, IdleOK DEF FetchFails
    <3> QED
      BY <1>10, <3>1, <3>2, <3>3
  <2> QED
    BY <1>0, <2>5, OneRequest
<1>11. ASSUME NEW r \in Replicas, Crash(r) PROVE RequestTypeOK'
  BY <1>1, <1>11, IdleOK DEF Crash, RequestTypeOK, RequestOK, InFlight
<1>12. ASSUME NEW q \in Requests, Step(q) PROVE RequestTypeOK'
  BY <1>6, <1>7, <1>8, <1>9, <1>10, <1>12
     DEF Step, Bind, Discover, DiscoverFails, VerifyLaunch, VerifyBearer, SpendFails,
         Rejected, InFlight
<1> QED
  BY <1>2, <1>3, <1>4, <1>5, <1>11, <1>12
     DEF Next, vars, Tick, PublishKey, Login, LoginFails

\* A fetched key set, stored with the time of the store.
LEMMA KeyType ==
  ASSUME TypeOK, [Next]_vars
  PROVE  KeyTypeOK'
<1> USE DEF KeyTypeOK
<1>0. KeyTypeOK /\ RequestTypeOK /\ now \in Time
  BY DEF TypeOK, FlowTypeOK
<1>1. CASE UNCHANGED <<keys, memory>>
  BY <1>0, <1>1 DEF keys, memory
<1>2. ASSUME NEW k \in Kids, PublishKey(k) \/ WithdrawKey(k) PROVE KeyTypeOK'
  BY <1>0, <1>2 DEF PublishKey, WithdrawKey, memory, Maybe
<1>3. ASSUME NEW q \in Requests, Discover(q) PROVE KeyTypeOK'
  BY <1>0, <1>3 DEF Discover, keys, RequestTypeOK, InFlight
<1>4. ASSUME NEW q \in Requests, StoreKeys(q) PROVE KeyTypeOK'
  <2> DEFINE r == requests[q].at
             set == [keys |-> requests[q].keys, fetched |-> now]
  <2>1. r \in Replicas
    BY <1>0, <1>4 DEF StoreKeys, RequestTypeOK, InFlight
  <2>2. set \in Maybe(KeySets)
    BY <1>0 DEF RequestTypeOK, RequestRecords, KeySets, Maybe
  <2>3. [cache[r] EXCEPT ![Issuer(q)] = set] \in [Issuers -> Maybe(KeySets)]
    BY <1>0, <2>1, <2>2
  <2>4. cache' = [cache EXCEPT ![r] = [cache[r] EXCEPT ![Issuer(q)] = set]]
    BY <1>0, <1>4, <2>1 DEF StoreKeys
  <2> QED
    BY <1>0, <1>4, <2>3, <2>4 DEF StoreKeys, keys
<1>5. ASSUME NEW r \in Replicas, Crash(r) PROVE KeyTypeOK'
  BY <1>0, <1>5 DEF Crash, keys, Maybe
<1> QED
  BY <1>1, <1>2, <1>3, <1>4, <1>5
     DEF Next, Step, vars, Tick, Login, LoginFails, Launch, Bearer, Arrive, Bind,
         DiscoverFails, ReadCache, JwksAnswers, FetchFails, VerifyLaunch, VerifyBearer,
         SpendFails, Rejected, memory

\* What a step grants: nothing, or one more principal on the request's key.
LEMMA GrantType ==
  ASSUME TypeOK, NEW q \in Requests, requests[q].pc = "verify",
         NEW until \in Nat, Grant(q, until)
  PROVE  granted' \subseteq Grants
<1> DEFINE new == [kid |-> requests[q].kid, login |-> requests[q].login,
                   at |-> now, until |-> until, stale |-> requests[q].stale]
<1>1. requests[q].kid \in Kids /\ requests[q].login \in Maybe(Logins)
      /\ requests[q].stale \in BOOLEAN
  BY DEF TypeOK, RequestTypeOK, RequestRecords, InFlight
<1>2. new \in Grants
  BY <1>1 DEF Grants, TypeOK, FlowTypeOK
<1>3. granted \subseteq Grants
  BY DEF TypeOK, HistoryTypeOK
<1>4. granted' = granted \cup {new}
  BY DEF Grant
<1> QED
  BY <1>2, <1>3, <1>4

LEMMA HistoryType ==
  ASSUME TypeOK, [Next]_vars
  PROVE  HistoryTypeOK'
<1> USE DEF HistoryTypeOK
<1>0. HistoryTypeOK /\ now \in Nat
  BY DEF TypeOK, FlowTypeOK, Time
<1>1. CASE UNCHANGED history
  BY <1>0, <1>1 DEF history
<1>2. ASSUME NEW q \in Requests, VerifyLaunch(q) PROVE HistoryTypeOK'
  <2>1. now + SessionTTL + Skew \in Nat
    BY <1>0, TimeAssumption
  <2>2. CASE UNCHANGED history
    BY <1>0, <2>2 DEF history
  <2>3. CASE /\ launches' = [launches EXCEPT ![requests[q].login] = @ + 1]
             /\ Grant(q, now + SessionTTL + Skew)
    <3>1. requests[q].login \in Logins /\ launches \in [Logins -> Nat]
      BY <1>0, <1>2 DEF VerifyLaunch, TypeOK, RequestTypeOK, RequestRecords, Maybe
    <3>2. launches' \in [Logins -> Nat]
      BY <2>3, <3>1
    <3>3. requests[q].pc = "verify"
      BY <1>2 DEF VerifyLaunch
    <3> QED
      BY <2>1, <2>3, <3>2, <3>3, GrantType
  <2> QED
    BY <1>2, <2>2, <2>3 DEF VerifyLaunch
<1>3. ASSUME NEW q \in Requests, VerifyBearer(q) PROVE HistoryTypeOK'
  BY <1>0, <1>3, GrantType DEF VerifyBearer
<1> QED
  BY <1>1, <1>2, <1>3
     DEF Next, Step, vars, Tick, PublishKey, WithdrawKey, Login, LoginFails, Launch, Bearer,
         Arrive, Bind, Discover, DiscoverFails, ReadCache, JwksAnswers, StoreKeys,
         FetchFails, SpendFails, Rejected, Crash, history

LEMMA TypeStep ==
  ASSUME TypeOK, [Next]_vars
  PROVE  TypeOK'
<1>1. FlowTypeOK'
  BY FlowType
<1>2. RequestTypeOK'
  BY RequestType
<1>3. KeyTypeOK'
  BY KeyType
<1>4. HistoryTypeOK'
  BY HistoryType
<1> QED
  BY <1>1, <1>2, <1>3, <1>4 DEF TypeOK

\* Every state has its types, whatever the replicas, requests and issuers do.
THEOREM TypeCorrect == Spec => []TypeOK
<1>1. TypeOK /\ [Next]_vars => TypeOK'
  BY TypeStep
<1> QED
  BY <1>1, InitType, PTL DEF Spec

-----------------------------------------------------------------------------
(* One launch per login *)

\* A login that minted nothing has no rows and no launch; as long as the row
\* of its nonce stands, with the expiry it was inserted with, it was not
\* launched; and whatever was granted on it was granted in its time.
LoginInv ==
  /\ \A f \in Logins :
       /\ launches[f] \in {0, 1}
       /\ minted[f] = None => flow["nonce"][f] = None /\ launches[f] = 0
       /\ flow["nonce"][f] # None => /\ flow["nonce"][f] = minted[f] + FlowTTL
                                     /\ launches[f] = 0
  /\ \A g \in granted : g.login # None =>
       minted[g.login] # None /\ g.at < minted[g.login] + FlowTTL

LEMMA InitLogin == Init => LoginInv
  BY DEF Init, LoginInv, Kinds

\* The inserts: for a login without rows, launches and grants.
LEMMA MintLogin ==
  ASSUME TypeOK, LoginInv, NEW f \in Logins, NEW kinds \in SUBSET Kinds, Mint(kinds, f),
         UNCHANGED history
  PROVE  LoginInv'
<1>1. /\ flow \in [Kinds -> [Logins -> Maybe(0 .. MaxTime + FlowTTL)]]
      /\ minted \in [Logins -> Maybe(Time)] /\ now \in Time
      /\ launches' = launches /\ granted' = granted /\ granted \subseteq Grants
      /\ minted[f] = None /\ minted' = [minted EXCEPT ![f] = now] /\ "nonce" \in Kinds
  BY DEF TypeOK, FlowTypeOK, HistoryTypeOK, Mint, history, Kinds
<1>2. /\ flow'["nonce"] \in {flow["nonce"], [flow["nonce"] EXCEPT ![f] = now + FlowTTL]}
  BY <1>1 DEF Mint, Expiry
<1>3. now # None
  BY <1>1, NoneAssumption DEF Time
<1>4. \A g \in granted' : g.login # None =>
         minted'[g.login] # None /\ g.at < minted'[g.login] + FlowTTL
  <2> SUFFICES ASSUME NEW g \in granted, g.login # None
               PROVE  minted'[g.login] # None /\ g.at < minted'[g.login] + FlowTTL
    BY <1>1
  <2>1. g.login \in Logins /\ g.login # f
    BY <1>1 DEF LoginInv, Grants, Maybe
  <2> QED
    BY <1>1, <2>1 DEF LoginInv
<1>5. ASSUME NEW h \in Logins
      PROVE  /\ launches'[h] \in {0, 1}
             /\ minted'[h] = None => flow'["nonce"][h] = None /\ launches'[h] = 0
             /\ flow'["nonce"][h] # None => /\ flow'["nonce"][h] = minted'[h] + FlowTTL
                                            /\ launches'[h] = 0
  <2>1. CASE h = f
    BY <1>1, <1>2, <1>3, <2>1 DEF LoginInv
  <2>2. CASE h # f
    BY <1>1, <1>2, <2>2 DEF LoginInv
  <2> QED
    BY <2>1, <2>2
<1> QED
  BY <1>4, <1>5 DEF LoginInv

\* A spent row, with nothing accepted: the rest stands as it was.
LEMMA SpentLogin ==
  ASSUME TypeOK, LoginInv, NEW kind \in Kinds, NEW f,
         flow' = [flow EXCEPT ![kind][f] = None], UNCHANGED <<minted, history>>
  PROVE  LoginInv'
<1>1. /\ flow \in [Kinds -> [Logins -> Maybe(0 .. MaxTime + FlowTTL)]] /\ "nonce" \in Kinds
      /\ launches' = launches /\ granted' = granted /\ minted' = minted
  BY DEF TypeOK, FlowTypeOK, history, Kinds
<1>2. \A h \in Logins : flow'["nonce"][h] \in {flow["nonce"][h], None}
  BY <1>1
<1> QED
  BY <1>1, <1>2 DEF LoginInv

\* The launch: the row was there and in time, so it is the first and the last.
LEMMA VerifyLaunchLogin ==
  ASSUME TypeOK, LoginInv, NEW q \in Requests, VerifyLaunch(q)
  PROVE  LoginInv'
<1> DEFINE f == requests[q].login
           row == flow["nonce"][f]
           new == [kid |-> requests[q].kid, login |-> f, at |-> now,
                   until |-> now + SessionTTL + Skew, stale |-> requests[q].stale]
<1>1. /\ flow \in [Kinds -> [Logins -> Maybe(0 .. MaxTime + FlowTTL)]] /\ "nonce" \in Kinds
      /\ launches \in [Logins -> Nat] /\ minted' = minted /\ f # None
      /\ f \in Logins
  BY DEF TypeOK, FlowTypeOK, RequestTypeOK, RequestRecords, Maybe, HistoryTypeOK,
         VerifyLaunch, Kinds
<1>2. CASE UNCHANGED <<flow, history>>
  BY <1>1, <1>2 DEF LoginInv, history
<1>3. CASE flow' = [flow EXCEPT !["nonce"][f] = None] /\ UNCHANGED history
  BY <1>1, <1>3, SpentLogin DEF history
<1>4. CASE /\ row # None /\ now < row
           /\ flow' = [flow EXCEPT !["nonce"][f] = None]
           /\ launches' = [launches EXCEPT ![f] = @ + 1]
           /\ granted' = granted \cup {new}
  <2>1. minted[f] # None /\ row = minted[f] + FlowTTL /\ launches[f] = 0
    BY <1>1, <1>4 DEF LoginInv
  <2>2. \A g \in granted' : g.login # None =>
          minted'[g.login] # None /\ g.at < minted'[g.login] + FlowTTL
    BY <1>1, <1>4, <2>1 DEF LoginInv
  <2>3. flow'["nonce"] = [flow["nonce"] EXCEPT ![f] = None]
    BY <1>1, <1>4
  <2>4. ASSUME NEW h \in Logins
        PROVE  /\ launches'[h] \in {0, 1}
               /\ minted'[h] = None => flow'["nonce"][h] = None /\ launches'[h] = 0
               /\ flow'["nonce"][h] # None => /\ flow'["nonce"][h] = minted'[h] + FlowTTL
                                              /\ launches'[h] = 0
    <3>1. CASE h = f
      BY <1>1, <1>4, <2>1, <2>3, <3>1
    <3>2. CASE h # f
      BY <1>1, <1>4, <2>3, <3>2 DEF LoginInv
    <3> QED
      BY <3>1, <3>2
  <2> QED
    BY <2>2, <2>4 DEF LoginInv
<1> QED
  BY <1>2, <1>3, <1>4 DEF VerifyLaunch, Spend, Grant

LEMMA LoginStep ==
  ASSUME TypeOK, LoginInv, [Next]_vars
  PROVE  LoginInv'
<1>1. CASE UNCHANGED <<flow, minted, history>>
  BY <1>1 DEF LoginInv, history
<1>2. ASSUME NEW f \in Logins, Login(f) \/ LoginFails(f) PROVE LoginInv'
  BY <1>2, MintLogin DEF Login, LoginFails
<1>3. ASSUME NEW q \in Requests, Bind(q) \/ SpendFails(q) PROVE LoginInv'
  <2>1. /\ UNCHANGED <<minted, history>>
        /\ \/ UNCHANGED flow
           \/ \E kind \in Kinds : flow' = [flow EXCEPT ![kind][requests[q].login] = None]
    BY <1>3 DEF Bind, SpendFails, Spend, Kinds
  <2> QED
    BY <1>1, <2>1, SpentLogin
<1>4. ASSUME NEW q \in Requests, VerifyLaunch(q) PROVE LoginInv'
  BY <1>4, VerifyLaunchLogin
<1>5. ASSUME NEW q \in Requests, VerifyBearer(q) PROVE LoginInv'
  <2> DEFINE new == [kid |-> requests[q].kid, login |-> requests[q].login, at |-> now,
                     until |-> now, stale |-> requests[q].stale]
  <2>1. new.login = None
    BY <1>5 DEF VerifyBearer
  <2>2. granted' \subseteq granted \cup {new} /\ UNCHANGED <<flow, minted, launches>>
    BY <1>5 DEF VerifyBearer, Grant, flows
  <2> QED
    BY <2>1, <2>2 DEF LoginInv
<1> QED
  BY <1>1, <1>2, <1>3, <1>4, <1>5
     DEF Next, Step, vars, flows, history, Tick, PublishKey, WithdrawKey, Launch, Bearer,
         Arrive, Discover, DiscoverFails, ReadCache, JwksAnswers, StoreKeys, FetchFails,
         Rejected, Crash

\* A login is launched at most once and within FlowTTL of its redirect,
\* however many forms are posted to however many replicas, and whichever of
\* their statements fail: the row of the nonce is what decides.
THEOREM OneLaunch == Spec => []OneLaunchPerLogin
<1>1. TypeOK /\ LoginInv /\ [Next]_vars => TypeOK' /\ LoginInv'
  BY TypeStep, LoginStep
<1>2. TypeOK /\ LoginInv => OneLaunchPerLogin
  BY DEF LoginInv, OneLaunchPerLogin
<1> QED
  BY <1>1, <1>2, InitType, InitLogin, PTL DEF Spec

-----------------------------------------------------------------------------
(* A rollover rejects nobody *)

\* What is steady about a request is published; so it is in the answer to its
\* fetch, and a request that is told its key is unknown has nothing steady.
Steady(x, open) ==
  /\ x.steady \subseteq open
  /\ x.pc = "answered" /\ x.kid \in x.steady => x.kid \in x.keys
  /\ x.pc = "noKey" => x.kid \notin x.steady
RolloverInv == \A q \in Requests : Steady(requests[q], published)

LEMMA IdleSteady == \A open : Steady(Idle, open)
  BY DEF Steady, Idle

LEMMA InitRollover == Init => RolloverInv
  BY IdleSteady DEF Init, RolloverInv

LEMMA OneSteady ==
  ASSUME TypeOK, RolloverInv, published' = published, NEW q \in Requests, NEW x,
         requests' = [requests EXCEPT ![q] = x], Steady(x, published)
  PROVE  RolloverInv'
  BY DEF RolloverInv, TypeOK, RequestTypeOK

LEMMA RolloverStep ==
  ASSUME TypeOK, RolloverInv, [Next]_vars
  PROVE  RolloverInv'
<1>0. requests \in [Requests -> RequestRecords]
  BY DEF TypeOK, RequestTypeOK
<1>1. CASE UNCHANGED <<requests, published>>
  BY <1>1 DEF RolloverInv
<1>2. ASSUME NEW k \in Kids, PublishKey(k) PROVE RolloverInv'
  BY <1>2 DEF PublishKey, RolloverInv, Steady
<1>3. ASSUME NEW k \in Kids, WithdrawKey(k) PROVE RolloverInv'
  <2>1. \A q \in Requests :
          Steady([requests[q] EXCEPT !.steady = requests[q].steady \ {k}], published \ {k})
    BY <1>0 DEF RolloverInv, Steady, RequestRecords
  <2> QED
    BY <1>3, <2>1 DEF WithdrawKey, RolloverInv
<1>4. ASSUME NEW q \in Requests, NEW f \in Logins, Launch(q, f) PROVE RolloverInv'
  <2> DEFINE x(r) == [Idle EXCEPT !.pc = "bind", !.at = r, !.login = f, !.kid = token[f].kid,
                                  !.steady = published \cap {token[f].kid}]
  <2>1. PICK r \in Replicas : requests' = [requests EXCEPT ![q] = x(r)]
    BY <1>4 DEF Launch, Arrive
  <2>2. Steady(x(r), published)
    BY DEF Idle, Steady
  <2> HIDE DEF x
  <2> QED
    BY <1>4, <2>1, <2>2, OneSteady DEF Launch, Arrive, keys
<1>5. ASSUME NEW q \in Requests, NEW k \in Kids, Bearer(q, k) PROVE RolloverInv'
  <2> DEFINE x(r) == [Idle EXCEPT !.pc = "discover", !.at = r, !.kid = k,
                                  !.steady = published \cap {k}]
  <2>1. PICK r \in Replicas : requests' = [requests EXCEPT ![q] = x(r)]
    BY <1>5 DEF Bearer, Arrive
  <2>2. Steady(x(r), published)
    BY DEF Idle, Steady
  <2> HIDE DEF x
  <2> QED
    BY <1>5, <2>1, <2>2, OneSteady DEF Bearer, Arrive, keys
<1>6. ASSUME NEW q \in Requests, End(q), UNCHANGED published PROVE RolloverInv'
  BY <1>6, IdleSteady, OneSteady DEF End
<1>7. ASSUME NEW q \in Requests, Goto(q, "key"), UNCHANGED published PROVE RolloverInv'
  <2>1. Steady([requests[q] EXCEPT !.pc = "key"], published)
    BY <1>0 DEF RolloverInv, Steady, RequestRecords
  <2> QED
    BY <1>7, <2>1, OneSteady DEF Goto
<1>8. ASSUME NEW q \in Requests, ReadCache(q) PROVE RolloverInv'
  <2> DEFINE set == cache[requests[q].at][Issuer(q)]
  <2>1. Steady([requests[q] EXCEPT !.pc = "verify", !.begun = now], published)
    BY <1>0 DEF RolloverInv, Steady, RequestRecords
  <2>2. Steady([requests[q] EXCEPT !.pc = "fetch", !.set = set, !.begun = now], published)
    BY <1>0 DEF RolloverInv, Steady, RequestRecords
  <2>3. \/ requests' = [requests EXCEPT ![q] =
                          [requests[q] EXCEPT !.pc = "verify", !.begun = now]]
        \/ requests' = [requests EXCEPT ![q] =
                          [requests[q] EXCEPT !.pc = "fetch", !.set = set, !.begun = now]]
    BY <1>8 DEF ReadCache
  <2>4. published' = published
    BY <1>8 DEF ReadCache, keys
  <2> QED
    BY <2>1, <2>2, <2>3, <2>4, OneSteady
<1>9. ASSUME NEW q \in Requests, JwksAnswers(q) PROVE RolloverInv'
  <2> DEFINE found == {k \in published : SignerOf[k] = Issuer(q)}
  <2>1. requests' = [requests EXCEPT ![q] =
                       [requests[q] EXCEPT !.pc = "answered", !.keys = found]]
    BY <1>0, <1>9 DEF JwksAnswers
  <2>2. Steady([requests[q] EXCEPT !.pc = "answered", !.keys = found], published)
    BY <1>0 DEF RolloverInv, Steady, RequestRecords, Issuer
  <2>3. published' = published
    BY <1>9 DEF JwksAnswers, keys
  <2> QED
    BY <2>1, <2>2, <2>3, OneSteady
<1>10. ASSUME NEW q \in Requests, StoreKeys(q) \/ FetchFails(q) PROVE RolloverInv'
  <2> DEFINE held == [requests[q] EXCEPT !.pc = "verify", !.set = None, !.keys = {}]
             stale == [requests[q] EXCEPT !.pc = "verify", !.set = None, !.keys = {},
                                          !.stale = TRUE]
             told == [Idle EXCEPT !.pc = "noKey", !.kid = requests[q].kid,
                                  !.steady = requests[q].steady]
  <2>1. Steady(held, published) /\ Steady(stale, published)
    BY <1>0 DEF RolloverInv, Steady, RequestRecords
  <2>2. requests[q].pc = "answered" /\ ~KeyFromAnswer(q) => Steady(told, published)
    BY DEF RolloverInv, Steady, KeyFromAnswer, Idle
  <2>3. StoreKeys(q) => \/ requests' = [requests EXCEPT ![q] = held]
                        \/ /\ requests' = [requests EXCEPT ![q] = told]
                           /\ requests[q].pc = "answered" /\ ~KeyFromAnswer(q)
    BY DEF StoreKeys
  <2>4. FetchFails(q) => \/ requests' = [requests EXCEPT ![q] = stale]
                         \/ requests' = [requests EXCEPT ![q] = Idle]
    BY DEF FetchFails
  <2>5. published' = published
    BY <1>10 DEF StoreKeys, FetchFails, keys
  <2> HIDE DEF held, stale, told
  <2> QED
    BY <1>10, <2>1, <2>2, <2>3, <2>4, <2>5, IdleSteady, OneSteady
<1>11. ASSUME NEW r \in Replicas, Crash(r) PROVE RolloverInv'
  BY <1>11, IdleSteady DEF Crash, RolloverInv, keys
<1>12. ASSUME NEW q \in Requests, Step(q) PROVE RolloverInv'
  BY <1>6, <1>7, <1>8, <1>9, <1>10, <1>12
     DEF Step, Bind, Discover, DiscoverFails, VerifyLaunch, VerifyBearer, SpendFails,
         Rejected, keys
<1> QED
  BY <1>1, <1>2, <1>3, <1>4, <1>5, <1>11, <1>12
     DEF Next, vars, Tick, Login, LoginFails, keys

\* No request is told that a key is unknown which its issuer has published all
\* the time since it arrived, whatever sets the replicas hold and store.
THEOREM RolloverCorrect == Spec => []RolloverSucceeds
<1>1. TypeOK /\ RolloverInv /\ [Next]_vars => TypeOK' /\ RolloverInv'
  BY TypeStep, RolloverStep
<1>2. RolloverInv => RolloverSucceeds
  BY DEF RolloverInv, Steady, RolloverSucceeds
<1> QED
  BY <1>1, <1>2, InitType, InitRollover, PTL DEF Spec

-----------------------------------------------------------------------------
(* The trust in a withdrawn key ends *)

\* A withdrawn key is not published again.
Withdrawn(k, t, gone, open) == gone[k] # None => gone[k] <= t /\ k \notin open

\* A set was fetched at most MaxFetch after any of its keys was withdrawn: the
\* request that stored it had asked before.
FetchedInTime(set, t, gone) ==
  set # None =>
    /\ set.fetched <= t
    /\ \A k \in set.keys : gone[k] # None => set.fetched <= gone[k] + MaxFetch

\* A request that looked at the cache is over after MaxFetch; an answer it
\* holds was given after that look, so before it no key of it was withdrawn;
\* and the key it goes on with, unless the issuer did not answer, it found in
\* such an answer or in a set younger than JwksTTL.
AskedInTime(x, t, gone) ==
  /\ x.begun # None => x.begun <= t /\ t <= x.begun + MaxFetch
  /\ x.pc \in {"fetch", "answered", "verify"} => x.begun # None
  /\ x.pc = "answered" => \A k \in x.keys : gone[k] # None => x.begun <= gone[k]
  /\ x.pc = "verify" /\ ~x.stale /\ gone[x.kid] # None =>
       x.begun < gone[x.kid] + JwksTTL + MaxFetch

GrantedInTime(g, t, gone) ==
  /\ g.at <= t
  /\ g.until = IF g.login = None THEN g.at ELSE g.at + SessionTTL + Skew
  /\ ~g.stale /\ gone[g.kid] # None => g.at < gone[g.kid] + JwksTTL + 2 * MaxFetch

WithdrawnInv == \A k \in Kids : Withdrawn(k, now, withdrawn, published)
CacheInv == \A r \in Replicas, i \in Issuers : FetchedInTime(cache[r][i], now, withdrawn)
RequestInv == \A q \in Requests : AskedInTime(requests[q], now, withdrawn)
GrantInv == \A g \in granted : GrantedInTime(g, now, withdrawn)
TrustInv == WithdrawnInv /\ CacheInv /\ RequestInv /\ GrantInv

LEMMA TimeFacts ==
  /\ JwksTTL \in Nat /\ JwksTTL > 0 /\ SessionTTL \in Nat /\ Skew \in Nat
  /\ MaxFetch \in Nat /\ MaxTime \in Nat
  BY TimeAssumption

LEMMA IdleInTime == \A t, gone : AskedInTime(Idle, t, gone)
  BY DEF AskedInTime, Idle

LEMMA InitTrust == Init => TrustInv
<1> SUFFICES ASSUME Init PROVE TrustInv
  OBVIOUS
<1>1. WithdrawnInv
  BY DEF Init, WithdrawnInv, Withdrawn
<1>2. CacheInv
  BY DEF Init, CacheInv, FetchedInTime
<1>3. RequestInv
  BY IdleInTime DEF Init, RequestInv
<1>4. GrantInv
  BY DEF Init, GrantInv
<1> QED
  BY <1>1, <1>2, <1>3, <1>4 DEF TrustInv

LEMMA WithdrawnStep ==
  ASSUME TypeOK, TrustInv, [Next]_vars
  PROVE  WithdrawnInv'
<1>0. /\ now \in Time /\ withdrawn \in [Kids -> Maybe(Time)]
      /\ \A k \in Kids : Withdrawn(k, now, withdrawn, published)
  BY DEF TypeOK, FlowTypeOK, KeyTypeOK, TrustInv, WithdrawnInv
<1>1. CASE UNCHANGED <<now, keys>>
  BY <1>0, <1>1 DEF WithdrawnInv, keys
<1>2. CASE Tick
  BY <1>0, <1>2 DEF Tick, keys, WithdrawnInv, Withdrawn, Time, Maybe
<1>3. ASSUME NEW k \in Kids, PublishKey(k) PROVE WithdrawnInv'
  BY <1>0, <1>3 DEF PublishKey, WithdrawnInv, Withdrawn
<1>4. ASSUME NEW k \in Kids, WithdrawKey(k) PROVE WithdrawnInv'
  BY <1>0, <1>4 DEF WithdrawKey, WithdrawnInv, Withdrawn, Time
<1> QED
  BY <1>1, <1>2, <1>3, <1>4
     DEF Next, Step, vars, Login, LoginFails, Launch, Bearer, Arrive, Bind, Discover,
         DiscoverFails, ReadCache, JwksAnswers, StoreKeys, FetchFails, VerifyLaunch,
         VerifyBearer, SpendFails, Rejected, Crash

LEMMA CacheStep ==
  ASSUME TypeOK, TrustInv, [Next]_vars
  PROVE  CacheInv'
<1>0. /\ now \in Time /\ withdrawn \in [Kids -> Maybe(Time)]
      /\ cache \in [Replicas -> [Issuers -> Maybe(KeySets)]]
      /\ \A r \in Replicas, i \in Issuers : FetchedInTime(cache[r][i], now, withdrawn)
  BY DEF TypeOK, FlowTypeOK, KeyTypeOK, TrustInv, CacheInv
<1>1. CASE UNCHANGED <<now, withdrawn, cache>>
  BY <1>0, <1>1 DEF CacheInv
<1>2. CASE Tick
  <2> SUFFICES ASSUME NEW r \in Replicas, NEW i \in Issuers
               PROVE  FetchedInTime(cache[r][i], now + 1, withdrawn)
    BY <1>2 DEF Tick, keys, memory, CacheInv
  <2>1. FetchedInTime(cache[r][i], now, withdrawn) /\ cache[r][i] \in Maybe(KeySets)
    BY <1>0
  <2> QED
    BY <1>0, <2>1 DEF FetchedInTime, Maybe, KeySets, Time
<1>3. ASSUME NEW k \in Kids, WithdrawKey(k) PROVE CacheInv'
  <2> SUFFICES ASSUME NEW r \in Replicas, NEW i \in Issuers
               PROVE  FetchedInTime(cache[r][i], now, withdrawn')
    BY <1>3 DEF WithdrawKey, memory, CacheInv
  <2>1. FetchedInTime(cache[r][i], now, withdrawn) /\ cache[r][i] \in Maybe(KeySets)
    BY <1>0
  <2>2. withdrawn' = [withdrawn EXCEPT ![k] = now]
    BY <1>3 DEF WithdrawKey
  <2> QED
    BY <1>0, <2>1, <2>2, TimeFacts DEF FetchedInTime, Maybe, KeySets, Time
<1>4. ASSUME NEW q \in Requests, StoreKeys(q) PROVE CacheInv'
  <2> DEFINE a == requests[q].at
             set == [keys |-> requests[q].keys, fetched |-> now]
  <2>1. /\ a \in Replicas /\ requests[q].begun \in Time
        /\ AskedInTime(requests[q], now, withdrawn) /\ requests[q].pc = "answered"
    <3>1. AskedInTime(requests[q], now, withdrawn) /\ requests[q].pc = "answered"
      BY <1>4 DEF StoreKeys, TrustInv, RequestInv
    <3>2. /\ requests[q] \in RequestRecords /\ requests[q].at \in Replicas
      BY <3>1 DEF TypeOK, RequestTypeOK, InFlight
    <3> QED
      BY <3>1, <3>2 DEF AskedInTime, RequestRecords, Maybe
  <2>2. requests[q].keys \subseteq Kids
    BY DEF TypeOK, RequestTypeOK, RequestRecords
  <2>3. FetchedInTime(set, now, withdrawn)
    BY <1>0, <2>1, <2>2, TimeFacts DEF FetchedInTime, AskedInTime, Maybe, Time
  <2>4. ASSUME NEW r \in Replicas, NEW i \in Issuers
        PROVE  cache'[r][i] \in {cache[r][i], set}
    BY <1>0, <1>4, <2>1 DEF StoreKeys
  <2>5. now' = now /\ withdrawn' = withdrawn
    BY <1>4 DEF StoreKeys, keys
  <2> HIDE DEF set
  <2> QED
    BY <1>0, <2>3, <2>4, <2>5 DEF CacheInv
<1>5. ASSUME NEW r \in Replicas, Crash(r) PROVE CacheInv'
  BY <1>0, <1>5 DEF Crash, CacheInv, FetchedInTime, keys
<1> QED
  BY <1>1, <1>2, <1>3, <1>4, <1>5
     DEF Next, Step, vars, keys, memory, PublishKey, Login, LoginFails, Launch, Bearer,
         Arrive, Bind, Discover, DiscoverFails, ReadCache, JwksAnswers, FetchFails,
         VerifyLaunch, VerifyBearer, SpendFails, Rejected

LEMMA OneInTime ==
  ASSUME TypeOK, RequestInv, UNCHANGED <<now, withdrawn>>, NEW q \in Requests, NEW x,
         requests' = [requests EXCEPT ![q] = x], AskedInTime(x, now, withdrawn)
  PROVE  RequestInv'
  BY DEF RequestInv, TypeOK, RequestTypeOK

\* The look at the cache: what is usable is younger than JwksTTL.
LEMMA ReadCacheInTime ==
  ASSUME TypeOK, TrustInv, NEW q \in Requests, ReadCache(q)
  PROVE  RequestInv'
<1> DEFINE set == cache[requests[q].at][Issuer(q)]
           hit == [requests[q] EXCEPT !.pc = "verify", !.begun = now]
           miss == [requests[q] EXCEPT !.pc = "fetch", !.set = set, !.begun = now]
<1>1. /\ requests[q] \in RequestRecords /\ requests[q].at \in Replicas
      /\ requests[q].kid \in Kids
  BY DEF TypeOK, RequestTypeOK, ReadCache, InFlight
<1>2. /\ now \in Time /\ withdrawn \in [Kids -> Maybe(Time)] /\ set \in Maybe(KeySets)
      /\ FetchedInTime(set, now, withdrawn)
  BY <1>1, KeyAssumption DEF TypeOK, FlowTypeOK, KeyTypeOK, TrustInv, CacheInv, Issuer
<1>3. now # None
  BY <1>2, NoneAssumption DEF Time
<1>4. AskedInTime(miss, now, withdrawn)
  BY <1>1, <1>2, <1>3, TimeFacts DEF AskedInTime, RequestRecords, Time
<1>5. ASSUME Usable(q, set) PROVE AskedInTime(hit, now, withdrawn)
  <2>1. /\ hit.pc = "verify" /\ hit.begun = now /\ hit.kid = requests[q].kid
    BY <1>1 DEF RequestRecords
  <2>2. /\ set.fetched \in Time /\ now - set.fetched < JwksTTL
        /\ withdrawn[hit.kid] # None => set.fetched <= withdrawn[hit.kid] + MaxFetch
    BY <1>2, <1>5, <2>1 DEF Usable, FetchedInTime, KeySets, Maybe
  <2>3. withdrawn[hit.kid] # None => withdrawn[hit.kid] \in Time
    BY <1>1, <1>2, <2>1 DEF Maybe
  <2> HIDE DEF hit, set
  <2> QED
    BY <1>2, <1>3, <2>1, <2>2, <2>3, TimeFacts DEF AskedInTime, Time
<1>6. \/ Usable(q, set) /\ requests' = [requests EXCEPT ![q] = hit]
      \/ requests' = [requests EXCEPT ![q] = miss]
  BY DEF ReadCache
<1>7. RequestInv /\ UNCHANGED <<now, withdrawn>>
  BY DEF TrustInv, ReadCache, keys
<1> HIDE DEF hit, miss, set
<1> QED
  BY <1>4, <1>5, <1>6, <1>7, OneInTime

LEMMA RequestStep ==
  ASSUME TypeOK, TrustInv, [Next]_vars
  PROVE  RequestInv'
<1>0. /\ now \in Time /\ withdrawn \in [Kids -> Maybe(Time)]
      /\ requests \in [Requests -> RequestRecords]
      /\ \A q \in Requests : AskedInTime(requests[q], now, withdrawn)
  BY DEF TypeOK, FlowTypeOK, KeyTypeOK, RequestTypeOK, TrustInv, RequestInv
<1>a. RequestInv
  BY DEF TrustInv
<1>1. CASE UNCHANGED <<now, withdrawn, requests>>
  BY <1>0, <1>1 DEF RequestInv
<1>2. CASE Tick
  <2> SUFFICES ASSUME NEW q \in Requests
               PROVE  AskedInTime(requests[q], now + 1, withdrawn)
    BY <1>2 DEF Tick, keys, RequestInv
  <2>1. /\ AskedInTime(requests[q], now, withdrawn)
        /\ requests[q].begun # None =>
             requests[q].begun \in Time /\ now < requests[q].begun + MaxFetch
    BY <1>0, <1>2 DEF Tick, RequestRecords, Maybe
  <2> QED
    BY <1>0, <2>1, TimeFacts DEF AskedInTime, Time
<1>3. ASSUME NEW k \in Kids, WithdrawKey(k) PROVE RequestInv'
  <2> SUFFICES ASSUME NEW q \in Requests
               PROVE  AskedInTime(requests'[q], now, withdrawn')
    BY <1>3 DEF WithdrawKey, RequestInv
  <2>1. withdrawn' = [withdrawn EXCEPT ![k] = now]
    BY <1>3 DEF WithdrawKey
  <2>2. requests'[q] = [requests[q] EXCEPT !.steady = requests[q].steady \ {k}]
    BY <1>3 DEF WithdrawKey
  <2>3. /\ requests'[q].begun = requests[q].begun /\ requests'[q].pc = requests[q].pc
        /\ requests'[q].keys = requests[q].keys /\ requests'[q].kid = requests[q].kid
        /\ requests'[q].stale = requests[q].stale
    BY <1>0, <2>2 DEF RequestRecords
  <2>4. /\ AskedInTime(requests[q], now, withdrawn) /\ requests[q].keys \subseteq Kids
        /\ requests[q].begun \in Maybe(Time)
        /\ requests[q].pc = "verify" => requests[q].kid \in Kids
    BY <1>0 DEF TypeOK, RequestTypeOK, InFlight, RequestRecords
  <2>5. requests[q].begun # None => requests[q].begun \in Time /\ requests[q].begun <= now
    BY <2>4 DEF AskedInTime, Maybe
  <2>6. requests[q].pc = "answered" => \A l \in requests[q].keys :
          withdrawn'[l] # None => requests[q].begun <= withdrawn'[l]
    BY <1>0, <2>1, <2>4, <2>5 DEF AskedInTime
  <2>7. requests[q].pc = "verify" /\ ~requests[q].stale /\ withdrawn'[requests[q].kid] # None =>
          requests[q].begun < withdrawn'[requests[q].kid] + JwksTTL + MaxFetch
    BY <1>0, <2>1, <2>4, <2>5, TimeFacts DEF AskedInTime, Time
  <2> QED
    BY <2>3, <2>4, <2>6, <2>7 DEF AskedInTime
<1>4. ASSUME NEW q \in Requests, NEW f \in Logins, Launch(q, f) PROVE RequestInv'
  <2> DEFINE x(r) == [Idle EXCEPT !.pc = "bind", !.at = r, !.login = f, !.kid = token[f].kid,
                                  !.steady = published \cap {token[f].kid}]
  <2>1. PICK r \in Replicas : requests' = [requests EXCEPT ![q] = x(r)]
    BY <1>4 DEF Launch, Arrive
  <2>2. AskedInTime(x(r), now, withdrawn)
    BY DEF Idle, AskedInTime
  <2> HIDE DEF x
  <2> QED
    BY <1>a, <1>4, <2>1, <2>2, OneInTime DEF Launch, Arrive, keys
<1>5. ASSUME NEW q \in Requests, NEW k \in Kids, Bearer(q, k) PROVE RequestInv'
  <2> DEFINE x(r) == [Idle EXCEPT !.pc = "discover", !.at = r, !.kid = k,
                                  !.steady = published \cap {k}]
  <2>1. PICK r \in Replicas : requests' = [requests EXCEPT ![q] = x(r)]
    BY <1>5 DEF Bearer, Arrive
  <2>2. AskedInTime(x(r), now, withdrawn)
    BY DEF Idle, AskedInTime
  <2> HIDE DEF x
  <2> QED
    BY <1>a, <1>5, <2>1, <2>2, OneInTime DEF Bearer, Arrive, keys
<1>6. ASSUME NEW q \in Requests, End(q), UNCHANGED <<now, withdrawn>> PROVE RequestInv'
  BY <1>a, <1>6, IdleInTime, OneInTime DEF End
<1>7. ASSUME NEW q \in Requests, Goto(q, "key"), UNCHANGED <<now, withdrawn>>
      PROVE  RequestInv'
  <2>1. AskedInTime([requests[q] EXCEPT !.pc = "key"], now, withdrawn)
    BY <1>0 DEF AskedInTime, RequestRecords
  <2> QED
    BY <1>a, <1>7, <2>1, OneInTime DEF Goto
<1>8. ASSUME NEW q \in Requests, ReadCache(q) PROVE RequestInv'
  BY <1>8, ReadCacheInTime
<1>9. ASSUME NEW q \in Requests, JwksAnswers(q) PROVE RequestInv'
  <2> DEFINE found == {k \in published : SignerOf[k] = Issuer(q)}
  <2>1. requests' = [requests EXCEPT ![q] =
                       [requests[q] EXCEPT !.pc = "answered", !.keys = found]]
    BY <1>0, <1>9 DEF JwksAnswers
  <2>2. \A k \in found : withdrawn[k] = None
    BY DEF TypeOK, KeyTypeOK, TrustInv, WithdrawnInv, Withdrawn
  <2>3. requests[q].pc = "fetch"
    BY <1>9 DEF JwksAnswers
  <2>4. AskedInTime([requests[q] EXCEPT !.pc = "answered", !.keys = found], now, withdrawn)
    <3> HIDE DEF found
    <3> QED
      BY <1>0, <2>2, <2>3 DEF AskedInTime, RequestRecords
  <2> QED
    BY <1>a, <1>9, <2>1, <2>4, OneInTime DEF JwksAnswers, keys
<1>10. ASSUME NEW q \in Requests, StoreKeys(q) \/ FetchFails(q) PROVE RequestInv'
  <2> DEFINE held == [requests[q] EXCEPT !.pc = "verify", !.set = None, !.keys = {}]
             stale == [requests[q] EXCEPT !.pc = "verify", !.set = None, !.keys = {},
                                          !.stale = TRUE]
             told == [Idle EXCEPT !.pc = "noKey", !.kid = requests[q].kid,
                                  !.steady = requests[q].steady]
  <2>1. /\ AskedInTime(requests[q], now, withdrawn) /\ requests[q] \in RequestRecords
        /\ requests[q].pc \in {"fetch", "answered"}
    BY <1>0, <1>10 DEF StoreKeys, FetchFails
  <2>2. AskedInTime(stale, now, withdrawn)
    BY <2>1 DEF AskedInTime, RequestRecords
  <2>3. AskedInTime(told, now, withdrawn)
    BY DEF AskedInTime, Idle
  <2>4. StoreKeys(q) /\ KeyFromAnswer(q) => AskedInTime(held, now, withdrawn)
    <3> SUFFICES ASSUME StoreKeys(q), KeyFromAnswer(q)
                 PROVE  AskedInTime(held, now, withdrawn)
      OBVIOUS
    <3>1. /\ requests[q].pc = "answered" /\ requests[q].kid \in requests[q].keys
          /\ requests[q].kid \in Kids /\ requests[q].begun \in Time
      BY <2>1 DEF StoreKeys, KeyFromAnswer, AskedInTime, RequestRecords, Maybe
    <3>2. withdrawn[requests[q].kid] # None => /\ withdrawn[requests[q].kid] \in Time
                                               /\ requests[q].begun <= withdrawn[requests[q].kid]
      BY <1>0, <2>1, <3>1 DEF AskedInTime, Maybe
    <3>3. /\ held.pc = "verify" /\ held.begun = requests[q].begun
          /\ held.kid = requests[q].kid
      BY <2>1 DEF RequestRecords
    <3> HIDE DEF held
    <3> QED
      BY <2>1, <3>1, <3>2, <3>3, TimeFacts DEF AskedInTime, Time
  <2>5. StoreKeys(q) => \/ KeyFromAnswer(q) /\ requests' = [requests EXCEPT ![q] = held]
                        \/ requests' = [requests EXCEPT ![q] = told]
    BY DEF StoreKeys
  <2>6. FetchFails(q) => \/ requests' = [requests EXCEPT ![q] = stale]
                         \/ requests' = [requests EXCEPT ![q] = Idle]
    BY DEF FetchFails
  <2>7. UNCHANGED <<now, withdrawn>>
    BY <1>10 DEF StoreKeys, FetchFails, keys
  <2> HIDE DEF held, stale, told
  <2> QED
    BY <1>a, <1>10, <2>2, <2>3, <2>4, <2>5, <2>6, <2>7, IdleInTime, OneInTime
<1>11. ASSUME NEW r \in Replicas, Crash(r) PROVE RequestInv'
  BY <1>0, <1>11, IdleInTime DEF Crash, RequestInv, keys
<1>12. ASSUME NEW q \in Requests, Step(q) PROVE RequestInv'
  BY <1>6, <1>7, <1>8, <1>9, <1>10, <1>12
     DEF Step, Bind, Discover, DiscoverFails, VerifyLaunch, VerifyBearer, SpendFails,
         Rejected, keys
<1> QED
  BY <1>1, <1>2, <1>3, <1>4, <1>5, <1>11, <1>12
     DEF Next, vars, PublishKey, Login, LoginFails, keys

\* A grant is made while its request is not over, on the key the request
\* goes on with.
LEMMA GrantInTime ==
  ASSUME TypeOK, TrustInv, NEW q \in Requests, requests[q].pc = "verify",
         NEW until \in Nat, Grant(q, until), UNCHANGED <<now, withdrawn>>,
         until = IF requests[q].login = None THEN now ELSE now + SessionTTL + Skew
  PROVE  GrantInv'
<1> DEFINE x == requests[q]
           new == [kid |-> x.kid, login |-> x.login, at |-> now, until |-> until,
                   stale |-> x.stale]
<1>1. now \in Time /\ withdrawn \in [Kids -> Maybe(Time)]
  BY DEF TypeOK, FlowTypeOK, KeyTypeOK
<1>2. x.kid \in Kids /\ AskedInTime(x, now, withdrawn) /\ x.begun \in Maybe(Time)
  BY DEF TypeOK, RequestTypeOK, RequestRecords, InFlight, TrustInv, RequestInv
<1>3. x.begun \in Time /\ now <= x.begun + MaxFetch
  BY <1>2 DEF AskedInTime, Maybe
<1>4. ~x.stale /\ withdrawn[x.kid] # None =>
        now < withdrawn[x.kid] + JwksTTL + 2 * MaxFetch
  BY <1>1, <1>2, <1>3, TimeFacts DEF AskedInTime, Maybe, Time
<1>5. GrantedInTime(new, now, withdrawn)
  BY <1>1, <1>4 DEF GrantedInTime, Time
<1>6. granted' = granted \cup {new}
  BY DEF Grant
<1>7. \A g \in granted : GrantedInTime(g, now, withdrawn)
  BY DEF TrustInv, GrantInv
<1> HIDE DEF new
<1> QED
  BY <1>5, <1>6, <1>7 DEF GrantInv

LEMMA GrantStep ==
  ASSUME TypeOK, TrustInv, [Next]_vars
  PROVE  GrantInv'
<1>0. /\ now \in Time /\ withdrawn \in [Kids -> Maybe(Time)] /\ granted \subseteq Grants
      /\ \A g \in granted : GrantedInTime(g, now, withdrawn)
  BY DEF TypeOK, FlowTypeOK, KeyTypeOK, HistoryTypeOK, TrustInv, GrantInv
<1>1. CASE UNCHANGED <<now, withdrawn, granted>>
  BY <1>0, <1>1 DEF GrantInv
<1>2. CASE Tick
  <2> SUFFICES ASSUME NEW g \in granted PROVE GrantedInTime(g, now + 1, withdrawn)
    BY <1>2 DEF Tick, keys, history, GrantInv
  <2>1. GrantedInTime(g, now, withdrawn) /\ g.at \in Time
    BY <1>0 DEF Grants
  <2> QED
    BY <1>0, <2>1 DEF GrantedInTime, Time
<1>3. ASSUME NEW k \in Kids, WithdrawKey(k) PROVE GrantInv'
  <2> SUFFICES ASSUME NEW g \in granted PROVE GrantedInTime(g, now, withdrawn')
    BY <1>3 DEF WithdrawKey, history, GrantInv
  <2>1. GrantedInTime(g, now, withdrawn) /\ g.at \in Time /\ g.kid \in Kids
    BY <1>0 DEF Grants
  <2>2. withdrawn' = [withdrawn EXCEPT ![k] = now]
    BY <1>3 DEF WithdrawKey
  <2> QED
    BY <1>0, <2>1, <2>2, TimeFacts DEF GrantedInTime, Time
<1>4. ASSUME NEW q \in Requests, VerifyLaunch(q) PROVE GrantInv'
  <2>1. CASE UNCHANGED history
    BY <1>1, <1>4, <2>1 DEF VerifyLaunch, keys, history
  <2>2. CASE Grant(q, now + SessionTTL + Skew)
    <3>1. now + SessionTTL + Skew \in Nat
      BY <1>0, TimeFacts DEF Time
    <3>2. /\ requests[q].pc = "verify" /\ requests[q].login # None
          /\ UNCHANGED <<now, withdrawn>>
      BY <1>4 DEF VerifyLaunch, keys
    <3> QED
      BY <2>2, <3>1, <3>2, GrantInTime
  <2> QED
    BY <1>4, <2>1, <2>2 DEF VerifyLaunch
<1>5. ASSUME NEW q \in Requests, VerifyBearer(q) PROVE GrantInv'
  <2>1. /\ requests[q].pc = "verify" /\ requests[q].login = None
        /\ UNCHANGED <<now, withdrawn>>
        /\ Grant(q, now) \/ UNCHANGED granted
    BY <1>5 DEF VerifyBearer, keys
  <2>2. now \in Nat
    BY <1>0 DEF Time
  <2> QED
    BY <1>1, <2>1, <2>2, GrantInTime
<1> QED
  BY <1>1, <1>2, <1>3, <1>4, <1>5
     DEF Next, Step, vars, keys, history, PublishKey, Login, LoginFails, Launch, Bearer,
         Arrive, Bind, Discover, DiscoverFails, ReadCache, JwksAnswers, StoreKeys,
         FetchFails, SpendFails, Rejected, Crash

\* What a withdrawn key grants ends: JwksTTL and two requests' time after the
\* withdrawal at the latest, for every number of replicas, requests and
\* crashes; the sessions granted on it end their own TTL later.
THEOREM TrustInKeysEnds == Spec => []TrustEnds
<1>1. TypeOK /\ TrustInv /\ [Next]_vars => TypeOK' /\ TrustInv'
  BY TypeStep, WithdrawnStep, CacheStep, RequestStep, GrantStep DEF TrustInv
<1>2. TypeOK /\ TrustInv => TrustEnds
  <2> SUFFICES ASSUME TypeOK, TrustInv, NEW g \in granted, ~g.stale,
                      withdrawn[g.kid] # None
               PROVE  LET last == withdrawn[g.kid] + JwksTTL + 2 * MaxFetch
                      IN  /\ g.at < last
                          /\ g.until < last + SessionTTL + Skew
                          /\ g.login = None => g.until = g.at
    BY DEF TrustEnds
  <2>1. GrantedInTime(g, now, withdrawn)
    BY DEF TrustInv, GrantInv
  <2>2. g.at \in Time /\ withdrawn[g.kid] \in Time
    BY DEF TypeOK, HistoryTypeOK, KeyTypeOK, Grants, Maybe
  <2> QED
    BY <2>1, <2>2, TimeFacts DEF GrantedInTime, Time
<1> QED
  BY <1>1, <1>2, InitType, InitTrust, PTL DEF Spec
=============================================================================

---------------------- MODULE NatsAuthorization_proofs ----------------------
(***************************************************************************)
(* Proofs about the NATS authorization contract, for all contracts, edits  *)
(* and manifests that satisfy the assumptions of NatsAuthorization: what   *)
(* the generator grants is well formed, exactly what the contract assigns, *)
(* and leaves inboxes private; what the broker runs was generated, and an  *)
(* accepted chart serves its clients.                                      *)
(***************************************************************************)
EXTENDS NatsAuthorization, SequenceTheorems, FiniteSetTheorems, TLAPS

----------------------------------------------------------------------------
(* Grants. *)

\* A subject followed by the wildcard is a grant.
LEMMA WildGrant ==
  ASSUME NEW p, IsSubject(p)
  PROVE  IsGrant(p \o <<Wild>>)
<1> DEFINE S == {p[i] : i \in DOMAIN p}
           Z == S \cup {Wild}
           g == p \o <<Wild>>
<1>1. p \in Seq(Z) /\ <<Wild>> \in Seq(Z)
  BY DEF IsSubject
<1>2. Len(g) = Len(p) + 1 /\ g \in Seq(Z)
  BY <1>1
<1>3. \A i \in 1..Len(p) : g[i] = p[i] /\ IsName(g[i])
  BY <1>1 DEF IsSubject
<1>4. g[Len(p) + 1] = Wild
  BY <1>1
<1>5. Len(p) \in Nat
  BY <1>1
<1> HIDE DEF g
<1>6. g # <<>>
  BY <1>2, <1>5
<1>7. \A i \in 1..Len(g) : g[i] # NoStream /\ (g[i] = Wild => i = Len(g))
  BY <1>2, <1>3, <1>4, <1>5, NoStreamAssumption DEF IsName
<1> QED
  BY <1>6, <1>7 DEF IsGrant, g

LEMMA SubjectGrant ==
  ASSUME NEW p, IsSubject(p)
  PROVE  IsGrant(p)
  BY DEF IsSubject, IsGrant, IsName

\* One or two names behind a sequence of five, written out.
LEMMA OneBehind ==
  ASSUME NEW S, NEW p \in Seq(S), NEW q \in Seq(S), Len(p) = 5, Len(q) = 1
  PROVE  p \o q = <<p[1], p[2], p[3], p[4], p[5], q[1]>>
<1> DEFINE r == p \o q
<1>1. r \in Seq(S) /\ Len(r) = Len(p) + Len(q)
  BY ConcatProperties
<1>2. \A i \in 1..(Len(p) + Len(q)) : r[i] = IF i <= Len(p) THEN p[i] ELSE q[i - Len(p)]
  BY ConcatProperties
<1> HIDE DEF r
<1>3. \A i \in 1..6 : r[i] = IF i <= 5 THEN p[i] ELSE q[i - 5]
  BY <1>2
<1>4. /\ r[1] = p[1] /\ r[2] = p[2] /\ r[3] = p[3] /\ r[4] = p[4] /\ r[5] = p[5]
      /\ r[6] = q[1]
  BY <1>3
<1>5. Len(r) = 6
  BY <1>1
<1>6. r = <<p[1], p[2], p[3], p[4], p[5], q[1]>>
  BY <1>1, <1>4, <1>5
<1> QED
  BY <1>6 DEF r

LEMMA TwoBehind ==
  ASSUME NEW S, NEW p \in Seq(S), NEW q \in Seq(S), Len(p) = 5, Len(q) = 2
  PROVE  p \o q = <<p[1], p[2], p[3], p[4], p[5], q[1], q[2]>>
<1> DEFINE r == p \o q
<1>1. r \in Seq(S) /\ Len(r) = Len(p) + Len(q)
  BY ConcatProperties
<1>2. \A i \in 1..(Len(p) + Len(q)) : r[i] = IF i <= Len(p) THEN p[i] ELSE q[i - Len(p)]
  BY ConcatProperties
<1> HIDE DEF r
<1>3. \A i \in 1..7 : r[i] = IF i <= 5 THEN p[i] ELSE q[i - 5]
  BY <1>2
<1>4. /\ r[1] = p[1] /\ r[2] = p[2] /\ r[3] = p[3] /\ r[4] = p[4] /\ r[5] = p[5]
      /\ r[6] = q[1] /\ r[7] = q[2]
  BY <1>3
<1>5. Len(r) = 7
  BY <1>1
<1>6. r = <<p[1], p[2], p[3], p[4], p[5], q[1], q[2]>>
  BY <1>1, <1>4, <1>5
<1> QED
  BY <1>6 DEF r

LEMMA ConsumerSubjects ==
  ASSUME NEW verb, NEW s, NEW x, NEW y
  PROVE  /\ ConsumerApi(verb, s) \o <<x>> = <<"$JS", "API", "CONSUMER", verb, s, x>>
         /\ ConsumerApi(verb, s) \o <<x, y>> = <<"$JS", "API", "CONSUMER", verb, s, x, y>>
<1> DEFINE S == {"$JS", "API", "CONSUMER", verb, s, x, y}
           p == <<"$JS", "API", "CONSUMER", verb, s>>
           q == <<x>>
           r == <<x, y>>
<1>1. p \in Seq(S) /\ q \in Seq(S) /\ r \in Seq(S)
  OBVIOUS
<1>2. Len(p) = 5 /\ p[1] = "$JS" /\ p[2] = "API" /\ p[3] = "CONSUMER" /\ p[4] = verb /\ p[5] = s
  OBVIOUS
<1>3. Len(q) = 1 /\ q[1] = x /\ Len(r) = 2 /\ r[1] = x /\ r[2] = y
  OBVIOUS
<1> HIDE DEF p, q, r, S
<1>4. p \o q = <<p[1], p[2], p[3], p[4], p[5], q[1]>>
  BY <1>1, <1>2, <1>3, OneBehind
<1>5. p \o r = <<p[1], p[2], p[3], p[4], p[5], r[1], r[2]>>
  BY <1>1, <1>2, <1>3, TwoBehind
<1>6. /\ p \o q = <<"$JS", "API", "CONSUMER", verb, s, x>>
      /\ p \o r = <<"$JS", "API", "CONSUMER", verb, s, x, y>>
  BY <1>2, <1>3, <1>4, <1>5
<1> QED
  BY <1>6 DEF p, q, r, ConsumerApi

\* A sequence of names whose last element may be the wildcard is a grant.
LEMMA Grant3 ==
  ASSUME NEW a, NEW b, NEW c,
         IsName(a), IsName(b), c # NoStream
  PROVE  IsGrant(<<a, b, c>>)
  BY DEF IsGrant, IsName

LEMMA Grant4 ==
  ASSUME NEW a, NEW b, NEW c, NEW d,
         IsName(a), IsName(b), IsName(c), d # NoStream
  PROVE  IsGrant(<<a, b, c, d>>)
  BY DEF IsGrant, IsName

LEMMA Grant5 ==
  ASSUME NEW a, NEW b, NEW c, NEW d, NEW e,
         IsName(a), IsName(b), IsName(c), IsName(d), e # NoStream
  PROVE  IsGrant(<<a, b, c, d, e>>)
  BY DEF IsGrant, IsName

LEMMA Grant6 ==
  ASSUME NEW a, NEW b, NEW c, NEW d, NEW e, NEW f,
         IsName(a), IsName(b), IsName(c), IsName(d), IsName(e), f # NoStream
  PROVE  IsGrant(<<a, b, c, d, e, f>>)
  BY DEF IsGrant, IsName

LEMMA Grant7 ==
  ASSUME NEW a, NEW b, NEW c, NEW d, NEW e, NEW f, NEW g,
         IsName(a), IsName(b), IsName(c), IsName(d), IsName(e), IsName(f), g # NoStream
  PROVE  IsGrant(<<a, b, c, d, e, f, g>>)
  BY DEF IsGrant, IsName

LEMMA ApiNames == NoStream # Wild /\ \A w \in ApiWords : IsName(w)
  BY NoStreamAssumption DEF ApiWords, IsName, Wild

LEMMA ConsumerGrants ==
  ASSUME NEW verb \in ApiWords, NEW s, NEW x, NEW y,
         IsName(s), IsName(x), x # NoStream, y # NoStream
  PROVE  /\ IsGrant(ConsumerApi(verb, s) \o <<x>>)
         /\ IsGrant(ConsumerApi(verb, s) \o <<y>>)
         /\ IsGrant(ConsumerApi(verb, s) \o <<x, y>>)
<1>1. IsName("$JS") /\ IsName("API") /\ IsName("CONSUMER") /\ IsName(verb)
  BY ApiNames DEF ApiWords
<1>2. /\ IsGrant(<<"$JS", "API", "CONSUMER", verb, s, x>>)
      /\ IsGrant(<<"$JS", "API", "CONSUMER", verb, s, y>>)
  BY <1>1, Grant6
<1>3. IsGrant(<<"$JS", "API", "CONSUMER", verb, s, x, y>>)
  BY <1>1, Grant7
<1> QED
  BY <1>2, <1>3, ConsumerSubjects

\* What SubjectPublish returns is grants.
LEMMA SubjectPublishGrants ==
  ASSUME NEW c \in Contracts, NEW s \in c.subjects, NEW service
  PROVE  \A g \in SubjectPublish(s, service) : IsGrant(g)
<1>1. IsGrant(s.subject)
  BY ContractsAssumption, SubjectGrant
<1>2. ASSUME s.stream # NoStream
      PROVE  \A v \in {"INFO", "CREATE", "UPDATE"} : IsGrant(StreamApi(v, s.stream))
  BY <1>2, ContractsAssumption, ApiNames, Grant5 DEF StreamApi, ApiWords, IsName
<1>3. ASSUME NEW d \in s.durables
      PROVE  /\ IsGrant(ConsumerApi("INFO", s.stream) \o <<d.name>>)
             /\ IsGrant(ConsumerApi("CREATE", s.stream) \o <<d.name>>)
             /\ IsGrant(ConsumerApi("CREATE", s.stream) \o <<d.name, Wild>>)
             /\ IsGrant(<<"$JS", "API", "CONSUMER", "MSG", "NEXT", s.stream, d.name>>)
             /\ IsGrant(<<"$JS", "ACK", s.stream, d.name, Wild>>)
             /\ s.stream # NoStream
  <2>1. IsName(s.stream) /\ IsName(d.name) /\ d.name # NoStream /\ Wild # NoStream
    BY ContractsAssumption, ApiNames DEF IsName
  <2>2. "INFO" \in ApiWords /\ "CREATE" \in ApiWords
    BY DEF ApiWords
  <2>3. IsGrant(ConsumerApi("INFO", s.stream) \o <<d.name>>)
    BY <2>1, <2>2, ConsumerGrants
  <2>4. /\ IsGrant(ConsumerApi("CREATE", s.stream) \o <<d.name>>)
        /\ IsGrant(ConsumerApi("CREATE", s.stream) \o <<d.name, Wild>>)
    BY <2>1, <2>2, ConsumerGrants
  <2>5. IsGrant(<<"$JS", "API", "CONSUMER", "MSG", "NEXT", s.stream, d.name>>)
    BY <2>1, ApiNames, Grant7 DEF ApiWords
  <2>6. IsGrant(<<"$JS", "ACK", s.stream, d.name, Wild>>)
    BY <2>1, ApiNames, Grant5 DEF ApiWords
  <2> QED
    BY <2>1, <2>3, <2>4, <2>5, <2>6 DEF IsName
<1> QED
  BY <1>1, <1>2, <1>3 DEF SubjectPublish

LEMMA BucketPublishGrants ==
  ASSUME NEW c \in Contracts, NEW b \in c.buckets, NEW service
  PROVE  \A g \in BucketPublish(b, service) : IsGrant(g)
<1>1. IsName(b.stream) /\ IsName(b.bucket) /\ b.stream # NoStream /\ Wild # NoStream
  BY ContractsAssumption, ApiNames DEF IsName
<1>2. IsGrant(<<"$JS", "API", "INFO">>) /\ IsGrant(<<"$KV", b.bucket, Wild>>)
  BY <1>1, ApiNames, Grant3, NoStreamAssumption DEF ApiWords
<1>3. /\ IsGrant(StreamApi("INFO", b.stream)) /\ IsGrant(StreamApi("CREATE", b.stream))
      /\ IsGrant(ConsumerApi("CREATE", b.stream))
  BY <1>1, ApiNames, Grant5 DEF StreamApi, ConsumerApi, ApiWords
<1>4. /\ IsGrant(<<"$JS", "API", "DIRECT", "GET", b.stream, Wild>>)
      /\ IsGrant(<<"$JS", "API", "STREAM", "MSG", "GET", b.stream>>)
      /\ IsGrant(<<"$JS", "ACK", b.stream, Wild>>)
  BY <1>1, ApiNames, Grant4, Grant6 DEF ApiWords
<1>5. ASSUME NEW verb \in {"CREATE", "INFO", "DELETE"}
      PROVE  IsGrant(ConsumerApi(verb, b.stream) \o <<Wild>>)
  BY <1>1, ConsumerGrants DEF ApiWords
<1>6. IsGrant(<<"$JS", "API", "CONSUMER", "MSG", "NEXT", b.stream, Wild>>)
  BY <1>1, ApiNames, Grant7 DEF ApiWords
<1> QED
  BY <1>2, <1>3, <1>4, <1>5, <1>6 DEF BucketPublish

\* The client that the rights of its service are read from is that client.
LEMMA FirstClient ==
  ASSUME NEW c \in Contracts, NEW x \in c.clients
  PROVE  ClientOf(c, x.service) = x
  BY ContractsAssumption DEF ClientOf

\* The user of a certificate gets the rights of the one client with that SAN.
LEMMA UserOf ==
  ASSUME NEW c \in Contracts, NEW x \in c.clients
  PROVE  /\ x.dnsSan \in DOMAIN ExpectedAuthorization(c)
         /\ ExpectedAuthorization(c)[x.dnsSan] = Permissions(c, x.service)
<1> DEFINE y == CHOOSE y \in c.clients : y.dnsSan = x.dnsSan
<1>1. y \in c.clients /\ y.dnsSan = x.dnsSan
  OBVIOUS
<1>2. y = x
  BY <1>1, ContractsAssumption
<1>3. ExpectedAuthorization(c)[x.dnsSan] = Permissions(c, y.service)
  BY DEF ExpectedAuthorization
<1> QED
  BY <1>2, <1>3 DEF ExpectedAuthorization

LEMMA ExpectedGrants ==
  ASSUME NEW c \in Contracts, NEW u \in DOMAIN ExpectedAuthorization(c)
  PROVE  /\ DOMAIN ExpectedAuthorization(c)[u] = {"publish", "subscribe"}
         /\ \A g \in ExpectedAuthorization(c)[u].publish : IsGrant(g)
<1>1. PICK x \in c.clients : u = x.dnsSan
  BY DEF ExpectedAuthorization
<1>2. ExpectedAuthorization(c)[u] = Permissions(c, x.service)
  BY <1>1, UserOf
<1>3. \A g \in Permissions(c, x.service).publish : IsGrant(g)
  <2> DEFINE P == UNION {SubjectPublish(s, x.service) : s \in c.subjects}
             Q == UNION {BucketPublish(b, x.service) : b \in c.buckets}
  <2>1. \A g \in P : IsGrant(g)
    BY SubjectPublishGrants
  <2>2. \A g \in Q : IsGrant(g)
    BY BucketPublishGrants
  <2>3. Permissions(c, x.service).publish = P \cup Q
    BY DEF Permissions
  <2> QED
    BY <2>1, <2>2, <2>3
<1> QED
  BY <1>2, <1>3 DEF Permissions

----------------------------------------------------------------------------
(* The inductive invariant. *)

Fields == {"contract", "mirrors", "values", "lines", "pinned", "digests",
           "tlsMerge", "persistent", "manifest"}

\* The tree and a run of the script are records, a user has two lists.
Shapes ==
    /\ DOMAIN tree = Fields
    /\ DOMAIN sync = {"at", "contract"}
    /\ \A u \in DOMAIN tree.values : DOMAIN tree.values[u] = {"publish", "subscribe"}

\* The fixture was held, and so was what a run has read; the pinned digest is
\* of a contract the fixture has held.
PinnedHeld ==
    /\ tree.contract \in held
    /\ sync.contract \subseteq held
    /\ \E c \in held : tree.pinned = ExpectedAuthorization(c)

PassedChecked == passed => CheckRepository(tree)

IInv == TypeOK /\ Shapes /\ PinnedHeld /\ BrokerRunsGenerated /\ PassedChecked

LEMMA Initially == Init => IInv
<1> SUFFICES ASSUME Init PROVE IInv
  OBVIOUS
<1>1. PICK c \in Contracts, m \in Manifests : tree = Tree0(c, m)
  BY DEF Init
<1>2. /\ DOMAIN tree = Fields /\ tree.contract = c /\ tree.mirrors = {}
      /\ tree.values = ExpectedAuthorization(c) /\ tree.pinned = ExpectedAuthorization(c)
      /\ tree.lines = 1 /\ tree.digests = 1 /\ tree.tlsMerge = {"verify_and_map"}
      /\ tree.persistent = TRUE /\ tree.manifest = m
  BY <1>1 DEF Tree0, Fields
<1>3. /\ sync = [at |-> "idle", contract |-> {}] /\ passed = FALSE /\ held = {c}
      /\ broker = {} /\ edits = 0
  BY <1>2 DEF Init, Idle
<1>4. TypeOK
  <2>1. \A u \in DOMAIN tree.values : \A g \in tree.values[u].publish : IsGrant(g)
    BY <1>2, ExpectedGrants
  <2>2. edits \in 0..MaxEdits
    BY <1>3, EditsAssumption
  <2>3. passed \in BOOLEAN /\ tree.persistent \in BOOLEAN
    BY <1>2, <1>3
  <2>4. /\ tree.contract \in Contracts /\ tree.mirrors \subseteq Contracts
        /\ tree.lines \in 0..2 /\ tree.digests \in 0..2
        /\ tree.tlsMerge \subseteq {"verify_and_map", "verify"}
        /\ tree.manifest \in Manifests
    BY <1>2
  <2>5. /\ sync.at \in {"idle", "valuesWritten"} /\ sync.contract \subseteq Contracts
        /\ held \subseteq Contracts
    BY <1>3
  <2> QED
    BY <2>1, <2>2, <2>3, <2>4, <2>5 DEF TypeOK
<1>5. Shapes
  BY <1>2, <1>3, ExpectedGrants DEF Shapes
<1>6. PinnedHeld /\ BrokerRunsGenerated /\ PassedChecked
  BY <1>2, <1>3 DEF PinnedHeld, BrokerRunsGenerated, PassedChecked
<1> QED
  BY <1>4, <1>5, <1>6 DEF IInv

\* What an edit must leave in order.
GoodTree(t) ==
    /\ DOMAIN t = Fields
    /\ \A u \in DOMAIN t.values : DOMAIN t.values[u] = {"publish", "subscribe"}
    /\ \A u \in DOMAIN t.values : \A g \in t.values[u].publish : IsGrant(g)
    /\ t.contract \in Contracts /\ t.mirrors \subseteq Contracts
    /\ t.lines \in 0..2 /\ t.digests \in 0..2
    /\ t.tlsMerge \subseteq {"verify_and_map", "verify"}
    /\ t.persistent \in BOOLEAN
    /\ t.manifest \in Manifests

LEMMA EditPreserves ==
  ASSUME IInv, NEW t, GoodTree(t), t.pinned = tree.pinned, Edit(t)
  PROVE  IInv'
<1>1. tree' = t /\ passed' = FALSE /\ held' = held \cup {t.contract}
      /\ edits < MaxEdits /\ edits' = edits + 1 /\ sync' = sync /\ broker' = broker
  BY DEF Edit
<1>2. TypeOK'
  <2>1. edits' \in 0..MaxEdits
    BY <1>1, EditsAssumption DEF IInv, TypeOK
  <2>2. held' \subseteq Contracts
    BY <1>1 DEF IInv, TypeOK, GoodTree
  <2>3. passed' \in BOOLEAN
    BY <1>1
  <2>4. sync'.at \in {"idle", "valuesWritten"} /\ sync'.contract \subseteq Contracts
    BY <1>1 DEF IInv, TypeOK
  <2>5. tree'.persistent \in BOOLEAN
    BY <1>1 DEF GoodTree
  <2> QED
    BY <1>1, <2>1, <2>2, <2>3, <2>4, <2>5 DEF TypeOK, GoodTree
<1>3. Shapes'
  BY <1>1 DEF IInv, Shapes, GoodTree
<1>4. PinnedHeld'
  BY <1>1 DEF IInv, PinnedHeld
<1>5. BrokerRunsGenerated'
  BY <1>1 DEF IInv, BrokerRunsGenerated
<1> QED
  BY <1>1, <1>2, <1>3, <1>4, <1>5 DEF IInv, PassedChecked

\* One step per action.
LEMMA Inductive == IInv /\ [Next]_vars => IInv'
<1> SUFFICES ASSUME IInv, [Next]_vars PROVE IInv'
  OBVIOUS
<1>0. GoodTree(tree)
  BY DEF IInv, TypeOK, Shapes, GoodTree
<1>1. CASE EditContract
  <2>1. PICK c \in Contracts : Edit([tree EXCEPT !.contract = c])
    BY <1>1 DEF EditContract
  <2> DEFINE t == [tree EXCEPT !.contract = c]
  <2>2. GoodTree(t) /\ t.pinned = tree.pinned
    BY <1>0 DEF GoodTree, Fields
  <2> QED
    BY <2>1, <2>2, EditPreserves
<1>2. CASE EditMirror
  <2>1. PICK c \in Contracts : Edit([tree EXCEPT !.mirrors = {c}])
    BY <1>2 DEF EditMirror
  <2> DEFINE t == [tree EXCEPT !.mirrors = {c}]
  <2>2. GoodTree(t) /\ t.pinned = tree.pinned
    BY <1>0 DEF GoodTree, Fields
  <2> QED
    BY <2>1, <2>2, EditPreserves
<1>3. CASE EditValues
  <2>1. PICK u \in DOMAIN tree.values, g \in HandGrants :
           Edit([tree EXCEPT !.values[u].publish = @ \cup {g}])
    BY <1>3 DEF EditValues
  <2> DEFINE t == [tree EXCEPT !.values[u].publish = @ \cup {g}]
  <2>2. IsGrant(g)
    BY HandGrantsAssumption
  <2>3. /\ DOMAIN t = Fields /\ DOMAIN t.values = DOMAIN tree.values
        /\ \A f \in Fields \ {"values"} : t[f] = tree[f]
    BY <1>0 DEF GoodTree, Fields
  <2>4. \A v \in DOMAIN t.values :
           /\ DOMAIN t.values[v] = {"publish", "subscribe"}
           /\ t.values[v].publish
                = IF v = u THEN tree.values[u].publish \cup {g} ELSE tree.values[v].publish
    BY <1>0 DEF GoodTree, Fields
  <2> HIDE DEF t
  <2>5. \A v \in DOMAIN t.values : \A h \in t.values[v].publish : IsGrant(h)
    BY <1>0, <2>2, <2>3, <2>4 DEF GoodTree
  <2>6. /\ t.contract = tree.contract /\ t.mirrors = tree.mirrors /\ t.lines = tree.lines
        /\ t.digests = tree.digests /\ t.tlsMerge = tree.tlsMerge
        /\ t.persistent = tree.persistent /\ t.manifest = tree.manifest
        /\ t.pinned = tree.pinned
    BY <2>3 DEF Fields
  <2>7. GoodTree(t)
    BY <1>0, <2>3, <2>4, <2>5, <2>6 DEF GoodTree
  <2> QED
    BY <2>1, <2>6, <2>7, EditPreserves DEF t
<1>4. CASE EditLayout
  <2>1. PICK n \in {0, 1, 2} : \/ Edit([tree EXCEPT !.lines = n])
                               \/ Edit([tree EXCEPT !.digests = n])
    BY <1>4 DEF EditLayout
  <2>2. /\ GoodTree([tree EXCEPT !.lines = n])
        /\ [tree EXCEPT !.lines = n].pinned = tree.pinned
    BY <1>0 DEF GoodTree, Fields
  <2>3. /\ GoodTree([tree EXCEPT !.digests = n])
        /\ [tree EXCEPT !.digests = n].pinned = tree.pinned
    BY <1>0 DEF GoodTree, Fields
  <2> QED
    BY <2>1, <2>2, <2>3, EditPreserves
<1>5. CASE EditSettings
  <2>1. ASSUME Edit([tree EXCEPT !.persistent = ~@])
        PROVE  IInv'
    <3>1. /\ GoodTree([tree EXCEPT !.persistent = ~@])
          /\ [tree EXCEPT !.persistent = ~@].pinned = tree.pinned
      BY <1>0 DEF GoodTree, Fields
    <3> QED
      BY <2>1, <3>1, EditPreserves
  <2>2. ASSUME NEW s \in SUBSET {"verify_and_map", "verify"},
               Edit([tree EXCEPT !.tlsMerge = s])
        PROVE  IInv'
    <3>1. /\ GoodTree([tree EXCEPT !.tlsMerge = s])
          /\ [tree EXCEPT !.tlsMerge = s].pinned = tree.pinned
      BY <1>0 DEF GoodTree, Fields
    <3> QED
      BY <2>2, <3>1, EditPreserves
  <2> QED
    BY <1>5, <2>1, <2>2 DEF EditSettings
<1>6. CASE EditTemplates
  <2>1. PICK m \in Manifests : Edit([tree EXCEPT !.manifest = m])
    BY <1>6 DEF EditTemplates
  <2> DEFINE t == [tree EXCEPT !.manifest = m]
  <2>2. GoodTree(t) /\ t.pinned = tree.pinned
    BY <1>0 DEF GoodTree, Fields
  <2> QED
    BY <2>1, <2>2, EditPreserves
<1>7. CASE WriteValues
  <2> DEFINE a == ExpectedAuthorization(tree.contract)
  <2>1. /\ tree' = [tree EXCEPT !.values = a]
        /\ sync' = [at |-> "valuesWritten", contract |-> {tree.contract}]
        /\ passed' = FALSE /\ UNCHANGED <<held, broker, edits>>
    BY <1>7 DEF WriteValues
  <2>2. tree.contract \in Contracts /\ tree.contract \in held
    BY DEF IInv, TypeOK, PinnedHeld
  <2>3. \A u \in DOMAIN a : /\ DOMAIN a[u] = {"publish", "subscribe"}
                            /\ \A g \in a[u].publish : IsGrant(g)
    BY <2>2, ExpectedGrants
  <2> HIDE DEF a
  <2>4. GoodTree(tree') /\ tree'.pinned = tree.pinned /\ tree'.contract = tree.contract
    BY <1>0, <2>1, <2>3 DEF GoodTree, Fields
  <2>5. DOMAIN sync' = {"at", "contract"} /\ sync'.at = "valuesWritten"
        /\ sync'.contract = {tree.contract}
    BY <2>1
  <2>6. TypeOK'
    BY <2>1, <2>2, <2>4, <2>5 DEF IInv, TypeOK, GoodTree
  <2>7. Shapes'
    BY <2>4, <2>5 DEF Shapes, GoodTree
  <2>8. PinnedHeld' /\ BrokerRunsGenerated' /\ PassedChecked'
    BY <2>1, <2>2, <2>4, <2>5 DEF IInv, PinnedHeld, BrokerRunsGenerated, PassedChecked
  <2> QED
    BY <2>6, <2>7, <2>8 DEF IInv
<1>8. CASE WriteDigest
  <2>1. PICK c \in sync.contract : tree' = [tree EXCEPT !.pinned = ExpectedAuthorization(c)]
    BY <1>8 DEF WriteDigest
  <2>2. sync' = [at |-> "idle", contract |-> {}] /\ UNCHANGED <<held, broker, edits>>
    BY <1>8 DEF WriteDigest, Idle
  <2>3. GoodTree(tree') /\ tree'.contract = tree.contract
        /\ tree'.pinned = ExpectedAuthorization(c)
    BY <1>0, <2>1 DEF GoodTree, Fields
  <2>4. DOMAIN sync' = {"at", "contract"} /\ sync'.at = "idle" /\ sync'.contract = {}
    BY <2>2
  <2>5. (passed' <=> CheckRepository(tree')) /\ passed' \in BOOLEAN
    <3>1. passed' = CheckRepository(tree')
      BY <1>8 DEF WriteDigest
    <3> QED
      BY <3>1 DEF CheckRepository
  <2>6. TypeOK'
    BY <2>2, <2>3, <2>4, <2>5 DEF IInv, TypeOK, GoodTree
  <2>7. Shapes'
    BY <2>3, <2>4 DEF Shapes, GoodTree
  <2>8. PinnedHeld' /\ BrokerRunsGenerated'
    BY <2>1, <2>2, <2>3, <2>4 DEF IInv, PinnedHeld, BrokerRunsGenerated
  <2>9. PassedChecked'
    BY <2>5 DEF PassedChecked
  <2> QED
    BY <2>6, <2>7, <2>8, <2>9 DEF IInv
<1>9. CASE SyncStops
  <2>1. sync' = [at |-> "idle", contract |-> {}]
        /\ UNCHANGED <<tree, passed, held, broker, edits>>
    BY <1>9 DEF SyncStops, Idle
  <2>2. DOMAIN sync' = {"at", "contract"} /\ sync'.at = "idle" /\ sync'.contract = {}
    BY <2>1
  <2>3. TypeOK'
    BY <2>1, <2>2 DEF IInv, TypeOK
  <2>4. Shapes' /\ PinnedHeld' /\ BrokerRunsGenerated'
    BY <2>1, <2>2 DEF IInv, Shapes, PinnedHeld, BrokerRunsGenerated
  <2>5. PassedChecked'
    BY <2>1 DEF IInv, PassedChecked
  <2> QED
    BY <2>3, <2>4, <2>5 DEF IInv
<1>10. CASE Check
  <2>1. UNCHANGED <<tree, sync, held, broker, edits>>
    BY <1>10 DEF Check
  <2>2. (passed' <=> CheckRepository(tree')) /\ passed' \in BOOLEAN
    <3>1. passed' = CheckRepository(tree)
      BY <1>10 DEF Check
    <3> QED
      BY <2>1, <3>1 DEF CheckRepository
  <2>3. TypeOK'
    BY <2>1, <2>2 DEF IInv, TypeOK
  <2>4. Shapes' /\ PinnedHeld' /\ BrokerRunsGenerated'
    BY <2>1 DEF IInv, Shapes, PinnedHeld, BrokerRunsGenerated
  <2> QED
    BY <2>2, <2>3, <2>4 DEF IInv, PassedChecked
<1>11. CASE Install
  <2>1. PICK a : Renders(tree, a) /\ broker' = {a}
    BY <1>11 DEF Install
  <2>2. UNCHANGED <<tree, sync, passed, held, edits>>
    BY <1>11 DEF Install
  <2>3. a = tree.pinned
    BY <2>1 DEF Renders
  <2>4. BrokerRunsGenerated'
    BY <2>1, <2>2, <2>3 DEF IInv, PinnedHeld, BrokerRunsGenerated
  <2>5. TypeOK'
    BY <2>2 DEF IInv, TypeOK
  <2>6. Shapes' /\ PinnedHeld'
    BY <2>2 DEF IInv, Shapes, PinnedHeld
  <2>7. PassedChecked'
    BY <2>2 DEF IInv, PassedChecked
  <2> QED
    BY <2>4, <2>5, <2>6, <2>7 DEF IInv
<1>12. CASE UNCHANGED vars
  <2>1. TypeOK' /\ Shapes'
    BY <1>12 DEF IInv, TypeOK, Shapes, vars
  <2>2. PinnedHeld' /\ BrokerRunsGenerated'
    BY <1>12 DEF IInv, PinnedHeld, BrokerRunsGenerated, vars
  <2>3. PassedChecked'
    BY <1>12 DEF IInv, PassedChecked, vars
  <2> QED
    BY <2>1, <2>2, <2>3 DEF IInv
<1> QED
  BY <1>1, <1>2, <1>3, <1>4, <1>5, <1>6, <1>7, <1>8, <1>9, <1>10, <1>11, <1>12 DEF Next

\* The invariant behind the theorems below: the pinned digest is that of a
\* contract the fixture has held, and a passed check still describes the tree
\* (sync_values_authorization, main).
THEOREM Invariance == Spec => []IInv
  BY Initially, Inductive, PTL DEF Spec

----------------------------------------------------------------------------
(* What follows. *)

\* The tree, the run of --write-values and the broker keep their shapes, and
\* every grant in values.yaml is a well-formed subject, for any fixtures, hand
\* edits and manifests (permissions, sync_values_authorization).
THEOREM TypeCorrect == Spec => []TypeOK
  BY Invariance, PTL DEF IInv

\* What the broker runs was generated from a contract the fixture has held,
\* however edits and runs of --write-values interleave (validate.yaml:590).
THEOREM RunsGenerated == Spec => []BrokerRunsGenerated
  BY Invariance, PTL DEF IInv

LEMMA Concat4 ==
  ASSUME NEW a, NEW b, NEW c, NEW d
  PROVE  <<a, b, c>> \o <<d>> = <<a, b, c, d>>
<1> DEFINE S == {a, b, c, d}
           r == <<a, b, c>> \o <<d>>
<1>1. <<a, b, c>> \in Seq(S) /\ <<d>> \in Seq(S)
  OBVIOUS
<1>2. /\ r \in Seq(S) /\ Len(r) = 4
      /\ r[1] = a /\ r[2] = b /\ r[3] = c /\ r[4] = d
  BY <1>1
<1> HIDE DEF r, S
<1>3. r = <<a, b, c, d>>
  BY <1>2
<1> QED
  BY <1>3 DEF r

\* A client may subscribe below its own inbox prefix, and below no other.
LEMMA OwnInbox ==
  ASSUME NEW c \in Contracts, NEW x \in c.clients, NEW y \in c.clients
  PROVE  Allowed(Permissions(c, x.service).subscribe, y.inbox \o <<"reply">>) <=> x = y
<1> DEFINE s == <<"_INBOX", "clavenar", y.dnsSan, "reply">>
           own == <<"_INBOX", "clavenar", x.dnsSan, Wild>>
           S == {t.subject : t \in {u \in c.subjects : x.service \in u.subscribers}}
           B == {<<"$KV", b.bucket, Wild>> : b \in {d \in c.buckets : x.service \in d.readers}}
<1>1. x.inbox = <<"_INBOX", "clavenar", x.dnsSan>> /\ y.inbox = <<"_INBOX", "clavenar", y.dnsSan>>
  BY ContractsAssumption
<1>2. y.inbox \o <<"reply">> = s /\ Inbox(x.inbox) = own
  BY <1>1, Concat4 DEF Inbox
<1>3. Permissions(c, x.service).subscribe = {own} \cup S \cup B
  BY <1>2, FirstClient DEF Permissions
<1>4. Len(s) = 4 /\ s[1] = "_INBOX" /\ s[2] = "clavenar" /\ s[3] = y.dnsSan /\ s[4] = "reply"
  OBVIOUS
<1>5. Len(own) = 4 /\ own[1] = "_INBOX" /\ own[2] = "clavenar" /\ own[3] = x.dnsSan
        /\ own[4] = Wild
  OBVIOUS
<1>6. Covers(own, s) <=> x = y
  <2>1. own # s
    BY <1>4, <1>5 DEF Wild
  <2> HIDE DEF own, s
  <2>2. Covers(own, s) <=> own[3] = s[3]
    BY <1>4, <1>5, <2>1 DEF Covers
  <2> QED
    BY <1>4, <1>5, <2>2, ContractsAssumption
<1>7. \A p \in S : ~Covers(p, s)
  <2> SUFFICES ASSUME NEW t \in c.subjects PROVE ~Covers(t.subject, s)
    OBVIOUS
  <2>1. IsSubject(t.subject) /\ t.subject[1] \notin ApiWords
    BY ContractsAssumption
  <2>2. t.subject # s
    BY <1>4, <2>1 DEF ApiWords
  <2>3. t.subject[Len(t.subject)] # Wild
    BY <2>1 DEF IsSubject, IsName
  <2> QED
    BY <2>2, <2>3 DEF Covers
<1>8. \A p \in B : ~Covers(p, s)
  <2> SUFFICES ASSUME NEW b \in c.buckets PROVE ~Covers(<<"$KV", b.bucket, Wild>>, s)
    OBVIOUS
  <2> DEFINE p == <<"$KV", b.bucket, Wild>>
  <2>1. p[1] = "$KV" /\ Len(p) = 3
    OBVIOUS
  <2> HIDE DEF p, s
  <2>2. ~Covers(p, s)
    BY <1>4, <2>1 DEF Covers
  <2> QED
    BY <2>2 DEF p
<1> HIDE DEF s, own, S, B
<1> QED
  BY <1>2, <1>3, <1>6, <1>7, <1>8 DEF Allowed

\* Whatever contract the broker runs, a client can subscribe to its own reply
\* inbox and to nobody else's (permissions: subscribe).
THEOREM PrivateInboxes == Spec => []InboxesPrivate
<1>1. IInv => InboxesPrivate
  <2> SUFFICES ASSUME IInv, NEW a \in broker
               PROVE  \E c \in held : \A x, y \in c.clients :
                         Allowed(a[x.dnsSan].subscribe, y.inbox \o <<"reply">>) <=> x = y
    BY DEF InboxesPrivate
  <2>1. PICK c \in held : a = ExpectedAuthorization(c)
    BY DEF IInv, BrokerRunsGenerated
  <2>2. c \in Contracts
    BY DEF IInv, TypeOK
  <2>3. \A x, y \in c.clients :
           Allowed(a[x.dnsSan].subscribe, y.inbox \o <<"reply">>) <=> x = y
    BY <2>1, <2>2, UserOf, OwnInbox
  <2> QED
    BY <2>3
<1> QED
  BY <1>1, Invariance, PTL

\* When the check has passed on the tree as it is, and the broker's policy
\* selects its peers by component alone, an installation is not refused, the
\* policy admits every client of the chart, and the broker maps the certificate
\* each was given to a user that may subscribe below the prefix its Deployment
\* was given (check_repository).
THEOREM PassServes == Spec => []PassMeansServed
<1>1. IInv => PassMeansServed
  <2> SUFFICES ASSUME IInv, passed, BarePeers(tree.manifest) PROVE Served(tree)
    BY DEF PassMeansServed
  <2>1. CheckRepository(tree)
    BY DEF IInv, PassedChecked
  <2>2. Renders(tree, tree.values)
    BY <2>1 DEF CheckRepository
  <2> SUFFICES ASSUME NEW n \in ChartClients
               PROVE  LET d == tree.manifest.deployments[n] IN
                      /\ \E i \in BrokerRules(tree.manifest) :
                            Admits(tree.manifest.ingress[i], n)
                      /\ d.cert \in DOMAIN tree.values
                      /\ Allowed(tree.values[d.cert].subscribe, d.inbox \o <<"reply">>)
    BY <2>2 DEF Served
  <2>3. \E i \in BrokerRules(tree.manifest) : Admits(tree.manifest.ingress[i], n)
    <3> DEFINE R == {i \in BrokerRules(tree.manifest) :
                       PeersOf(tree.manifest.ingress[i]) = ChartClients}
    <3>1. Cardinality(R) = 1
      BY <2>1 DEF CheckRepository, PolicyAdmitsClients
    <3>2. R # {}
      BY <3>1, FS_EmptySet
    <3>3. PICK i \in BrokerRules(tree.manifest) :
                 PeersOf(tree.manifest.ingress[i]) = ChartClients
      BY <3>2
    <3>4. tree.manifest.ingress[i].from # DemoPeers
      BY <3>3, DemoPeersAssumption DEF PeersOf
    <3>5. PICK p \in tree.manifest.ingress[i].from : p.component = n
      BY <3>3 DEF PeersOf
    <3>6. ~p.narrowed
      BY <3>3, <3>4, <3>5 DEF BarePeers
    <3> QED
      BY <3>3, <3>5, <3>6 DEF Admits
  <2>4. /\ tree.manifest.deployments[n].inbox = <<"_INBOX", "clavenar", n>>
        /\ tree.manifest.deployments[n].cert = n
    BY <2>1 DEF CheckRepository, DeploymentsMatch
  <2>5. tree.contract \in Contracts /\ tree.values = ExpectedAuthorization(tree.contract)
    BY <2>1 DEF CheckRepository, IInv, TypeOK
  <2>6. PICK x \in tree.contract.clients : x.dnsSan = n
    BY <2>5, ContractsAssumption
  <2>7. n \in DOMAIN tree.values /\ tree.values[n] = Permissions(tree.contract, x.service)
    BY <2>5, <2>6, UserOf
  <2>8. x.inbox = <<"_INBOX", "clavenar", n>>
    BY <2>5, <2>6, ContractsAssumption
  <2>9. Allowed(Permissions(tree.contract, x.service).subscribe, x.inbox \o <<"reply">>)
    BY <2>5, OwnInbox
  <2> QED
    BY <2>3, <2>4, <2>7, <2>8, <2>9
<1> QED
  BY <1>1, Invariance, PTL

----------------------------------------------------------------------------
(* Least authority: of all the grants of a user, the one that covers a      *)
(* subject is the one the contract gives for it.                            *)

\* A token before the last one that differs, or a last one that is no
\* wildcard, keeps a grant from covering.
LEMMA Apart ==
  ASSUME NEW p, NEW t, NEW i \in 1..(Len(p) - 1), p[i] # t[i]
  PROVE  ~Covers(p, t)
  BY DEF Covers

LEMMA ApartLast ==
  ASSUME NEW p, NEW t, p[Len(p)] # Wild, p # t
  PROVE  ~Covers(p, t)
  BY DEF Covers

LEMMA SubjectApart ==
  ASSUME NEW p, NEW t, IsSubject(p), p # t
  PROVE  ~Covers(p, t)
<1>1. Len(p) \in 1..Len(p)
  BY DEF IsSubject
<1> QED  BY <1>1, ApartLast DEF IsSubject, IsName

\* The grants of one entry of the contract, token by token.
DurableGrants(s, d) ==
    {StreamApi("INFO", s.stream),
     <<"$JS", "API", "CONSUMER", "INFO", s.stream, d.name>>,
     <<"$JS", "API", "CONSUMER", "CREATE", s.stream, d.name>>,
     <<"$JS", "API", "CONSUMER", "CREATE", s.stream, d.name, Wild>>,
     <<"$JS", "API", "CONSUMER", "MSG", "NEXT", s.stream, d.name>>,
     <<"$JS", "ACK", s.stream, d.name, Wild>>}

ReaderGrants(b) ==
    {StreamApi("INFO", b.stream),
     <<"$JS", "API", "DIRECT", "GET", b.stream, Wild>>,
     <<"$JS", "API", "STREAM", "MSG", "GET", b.stream>>,
     <<"$JS", "API", "CONSUMER", "CREATE", b.stream>>,
     <<"$JS", "API", "CONSUMER", "CREATE", b.stream, Wild>>,
     <<"$JS", "API", "CONSUMER", "INFO", b.stream, Wild>>,
     <<"$JS", "API", "CONSUMER", "DELETE", b.stream, Wild>>,
     <<"$JS", "API", "CONSUMER", "MSG", "NEXT", b.stream, Wild>>,
     <<"$JS", "ACK", b.stream, Wild>>}

\* A publish grant, by what the contract says of the service.
Granted(c, who, g) ==
    \/ \E s \in c.subjects :
          \/ who \in s.publishers /\ g = s.subject
          \/ /\ who \in s.publishers /\ s.stream # NoStream
             /\ g = StreamApi("INFO", s.stream)
          \/ /\ who = s.streamManager /\ s.stream # NoStream
             /\ \E v \in {"INFO", "CREATE", "UPDATE"} : g = StreamApi(v, s.stream)
          \/ \E d \in s.durables : d.service = who /\ g \in DurableGrants(s, d)
    \/ \E b \in c.buckets :
          \/ who \in b.readers /\ g \in ReaderGrants(b)
          \/ who \in b.writers /\ g = <<"$KV", b.bucket, Wild>>
          \/ /\ who = b.manager
             /\ g \in {<<"$JS", "API", "INFO">>, StreamApi("CREATE", b.stream)}

LEMMA PublishGranted ==
  ASSUME NEW c \in Contracts, NEW x \in c.clients, NEW g
  PROVE  g \in Permissions(c, x.service).publish <=> Granted(c, x.service, g)
<1> DEFINE who == x.service
<1>1. ASSUME NEW s \in c.subjects
      PROVE  g \in SubjectPublish(s, who) <=>
                \/ who \in s.publishers /\ g = s.subject
                \/ /\ who \in s.publishers /\ s.stream # NoStream
                   /\ g = StreamApi("INFO", s.stream)
                \/ /\ who = s.streamManager /\ s.stream # NoStream
                   /\ \E v \in {"INFO", "CREATE", "UPDATE"} : g = StreamApi(v, s.stream)
                \/ \E d \in s.durables : d.service = who /\ g \in DurableGrants(s, d)
  <2> DEFINE Of(d) == {StreamApi("INFO", s.stream),
                       ConsumerApi("INFO", s.stream) \o <<d.name>>,
                       ConsumerApi("CREATE", s.stream) \o <<d.name>>,
                       ConsumerApi("CREATE", s.stream) \o <<d.name, Wild>>,
                       <<"$JS", "API", "CONSUMER", "MSG", "NEXT", s.stream, d.name>>,
                       <<"$JS", "ACK", s.stream, d.name, Wild>>}
             D == {e \in s.durables : e.service = who}
  <2>1. ASSUME NEW d PROVE Of(d) = DurableGrants(s, d)
    <3>1. /\ ConsumerApi("INFO", s.stream) \o <<d.name>>
              = <<"$JS", "API", "CONSUMER", "INFO", s.stream, d.name>>
          /\ ConsumerApi("CREATE", s.stream) \o <<d.name>>
              = <<"$JS", "API", "CONSUMER", "CREATE", s.stream, d.name>>
          /\ ConsumerApi("CREATE", s.stream) \o <<d.name, Wild>>
              = <<"$JS", "API", "CONSUMER", "CREATE", s.stream, d.name, Wild>>
      BY ConsumerSubjects
    <3> QED  BY <3>1, Zenon DEF DurableGrants
  <2>2. SubjectPublish(s, who) =
          (IF who \in s.publishers
           THEN {s.subject} \cup
                (IF s.stream # NoStream THEN {StreamApi("INFO", s.stream)} ELSE {})
           ELSE {})
          \cup (IF s.stream # NoStream /\ who = s.streamManager
                THEN {StreamApi(v, s.stream) : v \in {"INFO", "CREATE", "UPDATE"}}
                ELSE {})
          \cup UNION {Of(d) : d \in D}
    BY DEF SubjectPublish
  <2> HIDE DEF Of
  <2>3. g \in UNION {Of(d) : d \in D} <=> \E d \in D : g \in Of(d)
    OBVIOUS
  <2> QED  BY <2>1, <2>2, <2>3
<1>2. ASSUME NEW b \in c.buckets
      PROVE  g \in BucketPublish(b, who) <=>
                \/ who \in b.readers /\ g \in ReaderGrants(b)
                \/ who \in b.writers /\ g = <<"$KV", b.bucket, Wild>>
                \/ /\ who = b.manager
                   /\ g \in {<<"$JS", "API", "INFO">>, StreamApi("CREATE", b.stream)}
  <2>1. \A verb : ConsumerApi(verb, b.stream) \o <<Wild>>
                    = <<"$JS", "API", "CONSUMER", verb, b.stream, Wild>>
    BY ConsumerSubjects
  <2>2. ConsumerApi("CREATE", b.stream) = <<"$JS", "API", "CONSUMER", "CREATE", b.stream>>
    BY DEF ConsumerApi
  <2> QED  BY <2>1, <2>2 DEF BucketPublish, ReaderGrants
<1> DEFINE P == UNION {SubjectPublish(s, who) : s \in c.subjects}
           Q == UNION {BucketPublish(b, who) : b \in c.buckets}
<1>3. Permissions(c, x.service).publish = P \cup Q
  BY DEF Permissions
<1>4. /\ g \in P <=> \E s \in c.subjects : g \in SubjectPublish(s, who)
      /\ g \in Q <=> \E b \in c.buckets : g \in BucketPublish(b, who)
  OBVIOUS
<1> QED  BY <1>1, <1>2, <1>3, <1>4 DEF Granted

\* What subject, stream and bucket are called.
LEMMA Named ==
  ASSUME NEW c \in Contracts
  PROVE  /\ \A s \in c.subjects :
              /\ IsSubject(s.subject) /\ s.subject[1] \notin ApiWords
              /\ s.stream # Wild
              /\ \A d \in s.durables : d.name # Wild /\ s.stream # NoStream
         /\ \A b \in c.buckets : b.bucket # Wild /\ b.stream # Wild
BY ContractsAssumption DEF IsName

\* Grants about consumers and messages of a stream.
ReadGrant(g) ==
    /\ Len(g) \in 5..8 /\ g[1] = "$JS" /\ g[2] = "API"
    /\ \/ g[3] \in {"CONSUMER", "DIRECT"}
       \/ g[3] = "STREAM" /\ g[4] = "MSG"

LEMMA ReadGrants ==
  ASSUME NEW z, NEW n, NEW y
  PROVE  /\ ReadGrant(<<"$JS", "API", "CONSUMER", y, z, n>>)
         /\ ReadGrant(<<"$JS", "API", "CONSUMER", y, z, n, Wild>>)
         /\ ReadGrant(<<"$JS", "API", "CONSUMER", "MSG", "NEXT", z, n>>)
         /\ ReadGrant(<<"$JS", "API", "DIRECT", "GET", z, n>>)
         /\ ReadGrant(<<"$JS", "API", "STREAM", "MSG", "GET", z>>)
         /\ ReadGrant(<<"$JS", "API", "CONSUMER", y, z>>)
<1>1. ReadGrant(<<"$JS", "API", "CONSUMER", y, z, n>>)
  BY DEF ReadGrant
<1>2. ReadGrant(<<"$JS", "API", "CONSUMER", y, z, n, Wild>>)
  BY DEF ReadGrant
<1>3. ReadGrant(<<"$JS", "API", "CONSUMER", "MSG", "NEXT", z, n>>)
  BY DEF ReadGrant
<1>4. ReadGrant(<<"$JS", "API", "DIRECT", "GET", z, n>>)
  BY DEF ReadGrant
<1>5. ReadGrant(<<"$JS", "API", "STREAM", "MSG", "GET", z>>)
  BY DEF ReadGrant
<1>6. ReadGrant(<<"$JS", "API", "CONSUMER", y, z>>)
  BY DEF ReadGrant
<1> QED  BY <1>1, <1>2, <1>3, <1>4, <1>5, <1>6

\* Every publish grant has one of nine forms.
LEMMA Kinds ==
  ASSUME NEW c, NEW who, NEW g, Granted(c, who, g)
  PROVE  \/ \E s \in c.subjects : who \in s.publishers /\ g = s.subject
         \/ \E z : g = StreamApi("INFO", z)
         \/ \E s \in c.subjects :
              /\ who = s.streamManager /\ s.stream # NoStream
              /\ \E v \in {"CREATE", "UPDATE"} : g = StreamApi(v, s.stream)
         \/ \E b \in c.buckets : who = b.manager /\ g = StreamApi("CREATE", b.stream)
         \/ ReadGrant(g)
         \/ \E s \in c.subjects : \E d \in s.durables :
              d.service = who /\ g = <<"$JS", "ACK", s.stream, d.name, Wild>>
         \/ \E b \in c.buckets : g = <<"$JS", "ACK", b.stream, Wild>>
         \/ \E b \in c.buckets : who \in b.writers /\ g = <<"$KV", b.bucket, Wild>>
         \/ g = <<"$JS", "API", "INFO">>
<1>1. ASSUME NEW s, NEW d, g \in DurableGrants(s, d)
      PROVE  \/ g = StreamApi("INFO", s.stream) \/ ReadGrant(g)
             \/ g = <<"$JS", "ACK", s.stream, d.name, Wild>>
  BY <1>1, ReadGrants, Zenon DEF DurableGrants
<1>2. ASSUME NEW b, g \in ReaderGrants(b)
      PROVE  \/ g = StreamApi("INFO", b.stream) \/ ReadGrant(g)
             \/ g = <<"$JS", "ACK", b.stream, Wild>>
  BY <1>2, ReadGrants, Zenon DEF ReaderGrants
<1>3. ASSUME NEW s \in c.subjects, NEW v \in {"INFO", "CREATE", "UPDATE"},
             g = StreamApi(v, s.stream), who = s.streamManager, s.stream # NoStream
      PROVE  \/ \E z : g = StreamApi("INFO", z)
             \/ \E t \in c.subjects :
                  /\ who = t.streamManager /\ t.stream # NoStream
                  /\ \E w \in {"CREATE", "UPDATE"} : g = StreamApi(w, t.stream)
  BY <1>3
<1> QED  BY <1>1, <1>2, <1>3, Zenon DEF Granted

\* The tokens by which they are told from a subject that is asked for.
LEMMA Tokens ==
  /\ \A v, z : LET p == StreamApi(v, z) IN
       /\ Len(p) = 5 /\ p[1] = "$JS" /\ p[2] = "API" /\ p[3] = "STREAM"
       /\ p[4] = v /\ p[5] = z
  /\ \A z, n : LET p == <<"$JS", "ACK", z, n, Wild>> IN
       Len(p) = 5 /\ p[1] = "$JS" /\ p[2] = "ACK" /\ p[3] = z /\ p[4] = n
  /\ \A z : LET p == <<"$JS", "ACK", z, Wild>> IN
       Len(p) = 4 /\ p[1] = "$JS" /\ p[2] = "ACK" /\ p[3] = z
  /\ \A b : LET p == <<"$KV", b, Wild>> IN
       Len(p) = 3 /\ p[1] = "$KV" /\ p[2] = b
  /\ LET p == <<"$JS", "API", "INFO">> IN
       Len(p) = 3 /\ p[1] = "$JS" /\ p[2] = "API" /\ p[3] = "INFO" /\ p[3] # Wild
BY DEF StreamApi, Wild

\* A subject of the contract is covered by itself only.
LEMMA CoversSubject ==
  ASSUME NEW c \in Contracts, NEW who, NEW g, Granted(c, who, g),
         NEW t \in c.subjects, Covers(g, t.subject)
  PROVE  \E s \in c.subjects : who \in s.publishers /\ s.subject = t.subject
<1>1. t.subject[1] # "$JS" /\ t.subject[1] # "$KV"
  BY Named DEF ApiWords
<1>2. ASSUME g[1] \in {"$JS", "$KV"}, Len(g) \in 3..8
      PROVE  FALSE
  <2>1. 1 \in 1..(Len(g) - 1) /\ g[1] # t.subject[1]
    BY <1>1, <1>2
  <2> QED  BY <2>1, Apart
<1>3. ~ReadGrant(g)
  BY <1>2 DEF ReadGrant
<1>4. PICK s \in c.subjects : who \in s.publishers /\ g = s.subject
  BY <1>2, <1>3, Kinds, Tokens
<1>5. s.subject = t.subject
  BY <1>4, Named, SubjectApart
<1> QED  BY <1>4, <1>5

LEMMA SubjectElsewhere ==
  ASSUME NEW c \in Contracts, NEW s \in c.subjects, NEW t, t[1] \in ApiWords
  PROVE  ~Covers(s.subject, t)
<1>1. IsSubject(s.subject) /\ s.subject # t
  BY Named
<1> QED  BY <1>1, SubjectApart

\* Creation, update and deletion of a stream are covered by themselves only.
LEMMA CoversStream ==
  ASSUME NEW c \in Contracts, NEW who, NEW g, Granted(c, who, g),
         NEW v \in {"CREATE", "UPDATE", "DELETE"}, NEW z,
         Covers(g, StreamApi(v, z))
  PROVE  \/ /\ v # "DELETE"
            /\ \E s \in c.subjects :
                 who = s.streamManager /\ s.stream # NoStream /\ s.stream = z
         \/ v = "CREATE" /\ \E b \in c.buckets : who = b.manager /\ b.stream = z
<1> DEFINE t == StreamApi(v, z)
<1>1. Len(t) = 5 /\ t[1] = "$JS" /\ t[2] = "API" /\ t[3] = "STREAM" /\ t[4] = v /\ t[5] = z
  BY Tokens
<1> HIDE DEF t
<1>2. Covers(g, t)
  BY DEF t
<1>3. \A i \in 1..(Len(g) - 1) : g[i] = t[i]
  BY <1>2, Apart
<1>4. ASSUME NEW s \in c.subjects PROVE g # s.subject
  BY <1>1, <1>2, SubjectElsewhere DEF ApiWords
<1>5. ASSUME NEW y PROVE g # StreamApi("INFO", y)
  BY <1>1, <1>3, Tokens
<1>6. ~ReadGrant(g)
  <2> SUFFICES ASSUME ReadGrant(g) PROVE FALSE
    OBVIOUS
  <2>0. 3 \in 1..(Len(g) - 1) /\ 4 \in 1..(Len(g) - 1)
    <3>1. PICK n \in 5..8 : n = Len(g)
      BY DEF ReadGrant
    <3> QED  BY <3>1
  <2>1. g[3] = t[3] /\ g[4] = t[4]
    BY <1>3, <2>0
  <2> QED  BY <1>1, <2>1 DEF ReadGrant
<1>7. /\ \A y, n : g # <<"$JS", "ACK", y, n, Wild>>
      /\ \A y : g # <<"$JS", "ACK", y, Wild>>
      /\ \A b : g # <<"$KV", b, Wild>>
  <2> SUFFICES ASSUME Len(g) \in {3, 4, 5}, g[1] = "$KV" \/ g[2] = "ACK"
               PROVE  FALSE
    BY Tokens
  <2>1. 1 \in 1..(Len(g) - 1) /\ 2 \in 1..(Len(g) - 1)
    <3>1. PICK n \in {3, 4, 5} : n = Len(g)
      OBVIOUS
    <3> QED  BY <3>1
  <2> QED  BY <1>1, <1>3, <2>1
<1>8. g # <<"$JS", "API", "INFO">>
  <2> SUFFICES ASSUME Len(g) = 3, g[3] # Wild PROVE FALSE
    BY Tokens
  <2>1. g # t
    BY <1>1
  <2> QED  BY <1>2, <2>1, ApartLast
<1>9. ASSUME NEW w, NEW y, y # Wild, g = StreamApi(w, y)
      PROVE  w = v /\ y = z
  <2>1. Len(g) = 5 /\ g[4] = w /\ g[5] = y
    BY <1>9, Tokens
  <2>2. g = t
    BY <1>2, <1>9, <2>1, ApartLast
  <2> QED  BY <1>1, <2>1, <2>2
<1>10. \/ \E s \in c.subjects :
             /\ who = s.streamManager /\ s.stream # NoStream
             /\ \E w \in {"CREATE", "UPDATE"} : g = StreamApi(w, s.stream)
       \/ \E b \in c.buckets : who = b.manager /\ g = StreamApi("CREATE", b.stream)
  BY <1>4, <1>5, <1>6, <1>7, <1>8, Kinds, Zenon
<1>11. ASSUME NEW s \in c.subjects, who = s.streamManager, s.stream # NoStream,
              NEW w \in {"CREATE", "UPDATE"}, g = StreamApi(w, s.stream)
       PROVE  v # "DELETE" /\ s.stream = z
  BY <1>9, <1>11, Named
<1>12. ASSUME NEW b \in c.buckets, who = b.manager, g = StreamApi("CREATE", b.stream)
       PROVE  v = "CREATE" /\ b.stream = z
  BY <1>9, <1>12, Named
<1> QED  BY <1>10, <1>11, <1>12

\* An acknowledgement is covered by the grant of its durable, or by that of
\* the readers of a bucket with its stream.
LEMMA CoversAck ==
  ASSUME NEW c \in Contracts, NEW who, NEW g, Granted(c, who, g),
         NEW z, NEW n, Covers(g, <<"$JS", "ACK", z, n, "1">>)
  PROVE  \/ \E s \in c.subjects : \E d \in s.durables :
              d.service = who /\ s.stream = z /\ d.name = n
         \/ \E b \in c.buckets : b.stream = z
<1> DEFINE t == <<"$JS", "ACK", z, n, "1">>
<1>1. t[1] = "$JS" /\ t[2] = "ACK" /\ t[3] = z /\ t[4] = n
  OBVIOUS
<1> HIDE DEF t
<1>2. Covers(g, t)
  BY DEF t
<1>3. \A i \in 1..(Len(g) - 1) : g[i] = t[i]
  BY <1>2, Apart
<1>4. ASSUME NEW s \in c.subjects PROVE g # s.subject
  BY <1>1, <1>2, SubjectElsewhere DEF ApiWords
<1>5. ASSUME Len(g) \in 3..8, g[1] = "$KV" \/ g[2] = "API"
      PROVE  FALSE
  <2>0. 1 \in 1..(Len(g) - 1) /\ 2 \in 1..(Len(g) - 1)
    <3>1. PICK k \in 3..8 : Len(g) = k
      BY <1>5
    <3> QED  BY <3>1
  <2>1. g[1] = t[1] /\ g[2] = t[2]
    BY <1>3, <2>0
  <2> QED  BY <1>1, <1>5, <2>1
<1>6. ~ReadGrant(g)
  BY <1>5 DEF ReadGrant
<1>7. /\ \A v, y : g # StreamApi(v, y)
      /\ \A b : g # <<"$KV", b, Wild>>
      /\ g # <<"$JS", "API", "INFO">>
  BY <1>5, Tokens
<1>8. \/ \E s \in c.subjects : \E d \in s.durables :
            d.service = who /\ g = <<"$JS", "ACK", s.stream, d.name, Wild>>
      \/ \E b \in c.buckets : g = <<"$JS", "ACK", b.stream, Wild>>
  BY <1>4, <1>6, <1>7, Kinds, Zenon
<1>9. ASSUME NEW y, NEW m, g = <<"$JS", "ACK", y, m, Wild>>
      PROVE  y = z /\ m = n
  <2>1. Len(g) = 5 /\ g[3] = y /\ g[4] = m
    BY <1>9
  <2>2. g[3] = t[3] /\ g[4] = t[4]
    BY <1>3, <2>1
  <2> QED  BY <1>1, <2>1, <2>2
<1>10. ASSUME NEW y, g = <<"$JS", "ACK", y, Wild>>
       PROVE  y = z
  <2>1. Len(g) = 4 /\ g[3] = y
    BY <1>10
  <2>2. g[3] = t[3]
    BY <1>3, <2>1
  <2> QED  BY <1>1, <2>1, <2>2
<1> QED  BY <1>8, <1>9, <1>10

\* A key is covered by the grant of its bucket.
LEMMA CoversKey ==
  ASSUME NEW c \in Contracts, NEW who, NEW g, Granted(c, who, g),
         NEW n, Covers(g, <<"$KV", n, "key">>)
  PROVE  \E b \in c.buckets : who \in b.writers /\ b.bucket = n
<1> DEFINE t == <<"$KV", n, "key">>
<1>1. t[1] = "$KV" /\ t[2] = n
  OBVIOUS
<1> HIDE DEF t
<1>2. Covers(g, t)
  BY DEF t
<1>3. \A i \in 1..(Len(g) - 1) : g[i] = t[i]
  BY <1>2, Apart
<1>4. ASSUME NEW s \in c.subjects PROVE g # s.subject
  BY <1>1, <1>2, SubjectElsewhere DEF ApiWords
<1>5. ASSUME Len(g) \in 3..8, g[1] = "$JS"
      PROVE  FALSE
  <2>1. g[1] = t[1]
    BY <1>3, <1>5
  <2> QED  BY <1>1, <1>5, <2>1
<1>6. ~ReadGrant(g)
  BY <1>5 DEF ReadGrant
<1>7. /\ \A v, y : g # StreamApi(v, y)
      /\ \A y, m : g # <<"$JS", "ACK", y, m, Wild>>
      /\ \A y : g # <<"$JS", "ACK", y, Wild>>
      /\ g # <<"$JS", "API", "INFO">>
  BY <1>5, Tokens
<1>8. PICK b \in c.buckets : who \in b.writers /\ g = <<"$KV", b.bucket, Wild>>
  BY <1>4, <1>6, <1>7, Kinds, Zenon
<1>9. Len(g) = 3 /\ g[2] = b.bucket
  BY <1>8
<1>10. g[2] = t[2]
  BY <1>3, <1>9
<1> QED  BY <1>1, <1>8, <1>9, <1>10

LEMMA CoverSelf == \A s : Covers(s, s)
BY DEF Covers

LEMMA CoverTail ==
  /\ \A n : Covers(<<"$KV", n, Wild>>, <<"$KV", n, "key">>)
  /\ \A z, n : Covers(<<"$JS", "ACK", z, n, Wild>>, <<"$JS", "ACK", z, n, "1">>)
<1>1. ASSUME NEW n PROVE Covers(<<"$KV", n, Wild>>, <<"$KV", n, "key">>)
  <2> DEFINE p == <<"$KV", n, Wild>>
             t == <<"$KV", n, "key">>
  <2>1. Len(p) = 3 /\ Len(t) = 3 /\ p[3] = Wild /\ p[1] = t[1] /\ p[2] = t[2]
    OBVIOUS
  <2> HIDE DEF p, t
  <2>2. Covers(p, t)
    BY <2>1 DEF Covers
  <2> QED  BY <2>2 DEF p, t
<1>2. ASSUME NEW z, NEW n
      PROVE  Covers(<<"$JS", "ACK", z, n, Wild>>, <<"$JS", "ACK", z, n, "1">>)
  <2> DEFINE p == <<"$JS", "ACK", z, n, Wild>>
             t == <<"$JS", "ACK", z, n, "1">>
  <2>1. /\ Len(p) = 5 /\ Len(t) = 5 /\ p[5] = Wild
        /\ p[1] = t[1] /\ p[2] = t[2] /\ p[3] = t[3] /\ p[4] = t[4]
    OBVIOUS
  <2> HIDE DEF p, t
  <2>2. Covers(p, t)
    BY <2>1 DEF Covers
  <2> QED  BY <2>2 DEF p, t
<1> QED  BY <1>1, <1>2

\* A subscription, by what the contract says of the service.
LEMMA SubscribeGranted ==
  ASSUME NEW c \in Contracts, NEW x \in c.clients
  PROVE  /\ \A t \in c.subjects :
              Allowed(Permissions(c, x.service).subscribe, t.subject) <=>
                \E s \in c.subjects : x.service \in s.subscribers /\ s.subject = t.subject
         /\ \A b \in c.buckets :
              Allowed(Permissions(c, x.service).subscribe, <<"$KV", b.bucket, "key">>) <=>
                \E d \in c.buckets : x.service \in d.readers /\ d.bucket = b.bucket
<1> DEFINE own == <<"_INBOX", "clavenar", x.dnsSan, Wild>>
           S == {t.subject : t \in {u \in c.subjects : x.service \in u.subscribers}}
           B == {<<"$KV", b.bucket, Wild>> : b \in {d \in c.buckets : x.service \in d.readers}}
           P == Permissions(c, x.service).subscribe
<1>1. Inbox(x.inbox) = own
  <2>1. x.inbox = <<"_INBOX", "clavenar", x.dnsSan>>
    BY ContractsAssumption
  <2> QED  BY <2>1, Concat4 DEF Inbox
<1>2. P = {own} \cup S \cup B
  BY <1>1, FirstClient DEF Permissions
<1>3. Len(own) = 4 /\ own[1] = "_INBOX"
  OBVIOUS
<1>4. \A n : LET p == <<"$KV", n, Wild>> IN Len(p) = 3 /\ p[1] = "$KV" /\ p[2] = n
  OBVIOUS
<1> HIDE DEF own, S, B, P
<1>5. ASSUME NEW t, t[1] # "_INBOX"
      PROVE  ~Covers(own, t)
  <2>1. 1 \in 1..(Len(own) - 1) /\ own[1] # t[1]
    BY <1>3, <1>5
  <2> QED  BY <2>1, Apart
<1>6. ASSUME NEW n, NEW t, t[1] # "$KV" \/ t[2] # n
      PROVE  ~Covers(<<"$KV", n, Wild>>, t)
  <2> DEFINE p == <<"$KV", n, Wild>>
  <2>1. Len(p) = 3 /\ p[1] = "$KV" /\ p[2] = n
    OBVIOUS
  <2> HIDE DEF p
  <2>2. 1 \in 1..(Len(p) - 1) /\ 2 \in 1..(Len(p) - 1)
    BY <2>1
  <2>3. ~Covers(p, t)
    BY <1>6, <2>1, <2>2, Apart
  <2> QED  BY <2>3 DEF p
<1>7. ASSUME NEW t \in c.subjects
      PROVE  Allowed(P, t.subject) <=>
               \E s \in c.subjects : x.service \in s.subscribers /\ s.subject = t.subject
  <2>1. ~Covers(own, t.subject) /\ \A p \in B : ~Covers(p, t.subject)
    <3>1. t.subject[1] # "_INBOX" /\ t.subject[1] # "$KV"
      BY Named DEF ApiWords
    <3> QED  BY <1>5, <1>6, <3>1 DEF B
  <2>2. \A s \in c.subjects : Covers(s.subject, t.subject) <=> s.subject = t.subject
    BY Named, SubjectApart, CoverSelf
  <2> QED  BY <1>2, <2>1, <2>2 DEF Allowed, S
<1>8. ASSUME NEW b \in c.buckets
      PROVE  Allowed(P, <<"$KV", b.bucket, "key">>) <=>
               \E d \in c.buckets : x.service \in d.readers /\ d.bucket = b.bucket
  <2> DEFINE t == <<"$KV", b.bucket, "key">>
  <2>1. t[1] = "$KV" /\ t[2] = b.bucket
    OBVIOUS
  <2>2. \A n : Covers(<<"$KV", n, Wild>>, t) <=> n = b.bucket
    BY <1>6, <2>1, CoverTail
  <2> HIDE DEF t
  <2>3. ~Covers(own, t)
    BY <1>5, <2>1
  <2>4. \A p \in S : ~Covers(p, t)
    BY <2>1, SubjectElsewhere DEF S, ApiWords
  <2>5. Allowed(P, t) <=> \E p \in B : Covers(p, t)
    BY <1>2, <2>3, <2>4 DEF Allowed
  <2>6. (\E p \in B : Covers(p, t)) <=>
           \E d \in c.buckets : x.service \in d.readers /\ d.bucket = b.bucket
    BY <2>2 DEF B
  <2> QED  BY <2>5, <2>6 DEF t
<1> QED  BY <1>7, <1>8 DEF P

LEMMA GeneratedRights ==
  ASSUME NEW c \in Contracts
  PROVE  Rights(c, ExpectedAuthorization(c))
<1> SUFFICES ASSUME NEW client \in c.clients
             PROVE  LET me == Permissions(c, client.service)
                        who == client.service IN
               /\ \A s \in c.subjects :
                     /\ Allowed(me.publish, s.subject) <=> who \in s.publishers
                     /\ Allowed(me.subscribe, s.subject) <=> who \in s.subscribers
                     /\ s.stream # NoStream =>
                          /\ \A v \in {"CREATE", "UPDATE"} :
                                Allowed(me.publish, StreamApi(v, s.stream))
                                   <=> who = s.streamManager
                          /\ ~Allowed(me.publish, StreamApi("DELETE", s.stream))
                          /\ \A d \in s.durables :
                                Allowed(me.publish,
                                        <<"$JS", "ACK", s.stream, d.name, "1">>)
                                   <=> \E e \in s.durables :
                                          e.name = d.name /\ e.service = who
               /\ \A b \in c.buckets :
                     /\ Allowed(me.publish, <<"$KV", b.bucket, "key">>)
                           <=> who \in b.writers
                     /\ Allowed(me.subscribe, <<"$KV", b.bucket, "key">>)
                           <=> who \in b.readers
                     /\ Allowed(me.publish, StreamApi("CREATE", b.stream))
                           <=> who = b.manager
                     /\ ~Allowed(me.publish, StreamApi("DELETE", b.stream))
  BY UserOf DEF Rights
<1> DEFINE me == Permissions(c, client.service)
           who == client.service
<1>0. NamedOnce(c)
  BY FixtureAssumption
<1>1. \A t : Allowed(me.publish, t) <=> \E g : Granted(c, who, g) /\ Covers(g, t)
  BY PublishGranted DEF Allowed
<1>2. \A g : Granted(c, who, g) => Allowed(me.publish, g)
  BY <1>1, CoverSelf
<1> HIDE DEF me, who
<1>3. ASSUME NEW s \in c.subjects
      PROVE  /\ Allowed(me.publish, s.subject) <=> who \in s.publishers
             /\ Allowed(me.subscribe, s.subject) <=> who \in s.subscribers
  <2>1. Allowed(me.publish, s.subject) => who \in s.publishers
    BY <1>0, <1>1, CoversSubject DEF NamedOnce
  <2>2. who \in s.publishers => Allowed(me.publish, s.subject)
    BY <1>2 DEF Granted
  <2>3. Allowed(me.subscribe, s.subject) <=> who \in s.subscribers
    BY <1>0, SubscribeGranted DEF NamedOnce, me, who
  <2> QED  BY <2>1, <2>2, <2>3
<1>4. ASSUME NEW s \in c.subjects, s.stream # NoStream
      PROVE  /\ \A v \in {"CREATE", "UPDATE"} :
                   Allowed(me.publish, StreamApi(v, s.stream)) <=> who = s.streamManager
             /\ ~Allowed(me.publish, StreamApi("DELETE", s.stream))
  <2>1. ASSUME NEW v \in {"CREATE", "UPDATE", "DELETE"},
               Allowed(me.publish, StreamApi(v, s.stream))
        PROVE  v # "DELETE" /\ who = s.streamManager
    <3>1. PICK g : Granted(c, who, g) /\ Covers(g, StreamApi(v, s.stream))
      BY <1>1, <2>1
    <3>2. \A b \in c.buckets : b.stream # s.stream
      BY <1>0 DEF NamedOnce
    <3>3. /\ v # "DELETE"
          /\ \E t \in c.subjects :
               who = t.streamManager /\ t.stream # NoStream /\ t.stream = s.stream
      BY <3>1, <3>2, CoversStream
    <3> QED  BY <1>0, <1>4, <3>3 DEF NamedOnce
  <2>2. ASSUME NEW v \in {"CREATE", "UPDATE"}, who = s.streamManager
        PROVE  Allowed(me.publish, StreamApi(v, s.stream))
    BY <1>2, <1>4, <2>2 DEF Granted
  <2> QED  BY <2>1, <2>2
<1>5. ASSUME NEW s \in c.subjects, s.stream # NoStream, NEW d \in s.durables
      PROVE  Allowed(me.publish, <<"$JS", "ACK", s.stream, d.name, "1">>)
               <=> \E e \in s.durables : e.name = d.name /\ e.service = who
  <2>1. ASSUME Allowed(me.publish, <<"$JS", "ACK", s.stream, d.name, "1">>)
        PROVE  \E e \in s.durables : e.name = d.name /\ e.service = who
    <3>1. PICK g : /\ Granted(c, who, g)
                   /\ Covers(g, <<"$JS", "ACK", s.stream, d.name, "1">>)
      BY <1>1, <2>1
    <3>2. \A b \in c.buckets : b.stream # s.stream
      BY <1>0 DEF NamedOnce
    <3>3. \E t \in c.subjects : \E e \in t.durables :
             e.service = who /\ t.stream = s.stream /\ e.name = d.name
      BY <3>1, <3>2, CoversAck
    <3> QED  BY <1>0, <1>5, <3>3 DEF NamedOnce
  <2>2. ASSUME NEW e \in s.durables, e.name = d.name, e.service = who
        PROVE  Allowed(me.publish, <<"$JS", "ACK", s.stream, d.name, "1">>)
    <3> DEFINE g == <<"$JS", "ACK", s.stream, e.name, Wild>>
    <3>1. g \in DurableGrants(s, e)
      BY DEF DurableGrants
    <3> HIDE DEF g
    <3>2. Granted(c, who, g)
      BY <2>2, <3>1 DEF Granted
    <3>3. Covers(g, <<"$JS", "ACK", s.stream, d.name, "1">>)
      BY <2>2, CoverTail DEF g
    <3> QED  BY <1>1, <3>2, <3>3
  <2> QED  BY <2>1, <2>2
<1>6. ASSUME NEW b \in c.buckets
      PROVE  /\ Allowed(me.publish, <<"$KV", b.bucket, "key">>) <=> who \in b.writers
             /\ Allowed(me.subscribe, <<"$KV", b.bucket, "key">>) <=> who \in b.readers
  <2>1. Allowed(me.publish, <<"$KV", b.bucket, "key">>) => who \in b.writers
    BY <1>0, <1>1, CoversKey DEF NamedOnce
  <2>2. ASSUME who \in b.writers
        PROVE  Allowed(me.publish, <<"$KV", b.bucket, "key">>)
    <3>1. Granted(c, who, <<"$KV", b.bucket, Wild>>)
      BY <2>2 DEF Granted
    <3> QED  BY <1>1, <3>1, CoverTail
  <2>3. Allowed(me.subscribe, <<"$KV", b.bucket, "key">>) <=> who \in b.readers
    BY <1>0, SubscribeGranted DEF NamedOnce, me, who
  <2> QED  BY <2>1, <2>2, <2>3
<1>7. ASSUME NEW b \in c.buckets
      PROVE  /\ Allowed(me.publish, StreamApi("CREATE", b.stream)) <=> who = b.manager
             /\ ~Allowed(me.publish, StreamApi("DELETE", b.stream))
  <2>1. ASSUME NEW v \in {"CREATE", "DELETE"},
               Allowed(me.publish, StreamApi(v, b.stream))
        PROVE  v = "CREATE" /\ who = b.manager
    <3>1. PICK g : Granted(c, who, g) /\ Covers(g, StreamApi(v, b.stream))
      BY <1>1, <2>1
    <3>2. \A s \in c.subjects : s.stream # b.stream
      BY <1>0 DEF NamedOnce
    <3>3. v = "CREATE" /\ \E d \in c.buckets : who = d.manager /\ d.stream = b.stream
      BY <3>1, <3>2, CoversStream
    <3> QED  BY <1>0, <3>3 DEF NamedOnce
  <2>2. ASSUME who = b.manager
        PROVE  Allowed(me.publish, StreamApi("CREATE", b.stream))
    BY <1>2, <2>2 DEF Granted
  <2> QED  BY <2>1, <2>2
<1> QED  BY <1>3, <1>4, <1>5, <1>6, <1>7 DEF me, who

\* The union of a user's grants, with their wildcards, is what the contract
\* assigns: for any contract that names its subjects, streams and buckets once,
\* a client of the running broker publishes, subscribes, creates, updates and
\* acknowledges what is assigned to its service, and nothing else (permissions).
THEOREM AuthorityLeast == Spec => []LeastAuthority
<1>1. IInv => LeastAuthority
  <2> SUFFICES ASSUME IInv, NEW a \in broker
               PROVE  \E c \in held : /\ DOMAIN a = {x.dnsSan : x \in c.clients}
                                      /\ Rights(c, a)
    BY DEF LeastAuthority
  <2>1. PICK c \in held : a = ExpectedAuthorization(c)
    BY DEF IInv, BrokerRunsGenerated
  <2>2. c \in Contracts
    BY DEF IInv, TypeOK
  <2>3. DOMAIN a = {x.dnsSan : x \in c.clients}
    BY <2>1 DEF ExpectedAuthorization
  <2> QED  BY <2>1, <2>2, <2>3, GeneratedRights
<1> QED  BY <1>1, Invariance, PTL
=============================================================================

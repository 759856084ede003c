------------------------- MODULE NatsAuthorization -------------------------
(***************************************************************************)
(* The NATS authorization contract (clavenar.nats-authorization/v1) from   *)
(* the fixture to the broker: the generator that turns the contract into   *)
(* one user per client (scripts/check-nats-authorization.py, permissions), *)
(* `--write-values`, which writes it into values.yaml and then pins its    *)
(* digest in templates/validate.yaml, the repository check, and the        *)
(* installation that the pinned digest guards.                             *)
(*                                                                         *)
(* Abstractions.  A subject is the sequence of its tokens, ">" the tail    *)
(* wildcard.  The digest of an authorization is the authorization itself   *)
(* (SHA-256 is taken to be injective).  Users are a function of their DNS  *)
(* SAN, so the order of the generated list is left out.  The backing       *)
(* stream of a bucket (KV_<bucket>) is a field of the bucket.  A peer of   *)
(* the network policy is the component it selects and whether a namespace  *)
(* or a further label narrows it, which the check does not read.           *)
(***************************************************************************)
EXTENDS Naturals, Sequences, FiniteSets

CONSTANTS
    Contracts,      \* the contract fixtures the repository may come to hold
    ChartClients,   \* CHART_CLIENTS: the broker clients this chart deploys
    HandGrants,     \* subjects a hand edit of values.yaml may add for a user
    Manifests,      \* what the templates may render beside the broker config
    DemoPeers,      \* networkPolicy.nats.demoMint.allowedPeers as bundled
    NoStream,       \* stream: null
    MaxEdits        \* bound on the edits of the tree

ASSUME EditsAssumption == MaxEdits \in Nat

Wild == ">"            \* matches one or more trailing tokens
ApiWords == {"$JS", "API", "STREAM", "CONSUMER", "DIRECT", "MSG", "ACK", "$KV", "_INBOX",
             "INFO", "CREATE", "UPDATE", "DELETE", "GET", "NEXT"}

ASSUME NoStreamAssumption == NoStream \notin ApiWords \cup {Wild}

\* A name is no wildcard and not the missing stream; a subject is a non-empty
\* sequence of names; a grant may end in the wildcard.
IsName(x) == x \notin {Wild, NoStream}

IsSubject(s) ==
    /\ s # <<>> /\ s \in Seq({s[i] : i \in DOMAIN s})
    /\ \A i \in 1..Len(s) : IsName(s[i])

IsGrant(g) ==
    /\ g # <<>>
    /\ \A i \in 1..Len(g) : g[i] # NoStream /\ (g[i] = Wild => i = Len(g))

\* What a fixture says of its clients, subjects and buckets; it names a client,
\* by SAN and by service, once.
ASSUME ContractsAssumption ==
    \A c \in Contracts :
        /\ ChartClients \subseteq {x.dnsSan : x \in c.clients}
        /\ \A x, y \in c.clients :
              x.dnsSan = y.dnsSan \/ x.service = y.service => x = y
        /\ \A x \in c.clients : IsName(x.dnsSan) /\ x.inbox = <<"_INBOX", "clavenar", x.dnsSan>>
        /\ \A s \in c.subjects :
              /\ IsSubject(s.subject) /\ s.subject[1] \notin ApiWords
              /\ s.stream # Wild
              /\ s.stream = NoStream => s.durables = {}
              /\ \A d \in s.durables : IsName(d.name)
        /\ \A b \in c.buckets : IsName(b.bucket) /\ IsName(b.stream)

\* A fixture names its subjects, streams and buckets once.  The generator does
\* not ask for it; two entries under one name would share their rights.
NamedOnce(c) ==
    /\ \A s, t \in c.subjects :
          (s.subject = t.subject \/ (s.stream = t.stream /\ s.stream # NoStream)) => s = t
    /\ \A b, d \in c.buckets : (b.bucket = d.bucket \/ b.stream = d.stream) => b = d
    /\ \A s \in c.subjects, b \in c.buckets : s.stream # b.stream

ASSUME FixtureAssumption == \A c \in Contracts : NamedOnce(c)

ASSUME DemoPeersAssumption == {p.component : p \in DemoPeers} # ChartClients

ASSUME HandGrantsAssumption == \A g \in HandGrants : IsGrant(g)

VARIABLES
    tree,       \* the chart: contract, mirrors, values, pinned digest, settings
    sync,       \* where a run of --write-values is, and the contract it read
    passed,     \* the last check accepted the tree as it now is
    held,       \* contracts the fixture has held
    broker,     \* the authorizations the installed broker runs: none or one
    edits

vars == <<tree, sync, passed, held, broker, edits>>

----------------------------------------------------------------------------
(* Subjects. *)

StreamApi(verb, s) == <<"$JS", "API", "STREAM", verb, s>>
ConsumerApi(verb, s) == <<"$JS", "API", "CONSUMER", verb, s>>
Inbox(prefix) == prefix \o <<Wild>>

\* A grant p covers subject s when it is s, or ends in ">" and s extends the
\* rest by at least one token.
Covers(p, s) ==
    \/ p = s
    \/ /\ p[Len(p)] = Wild
       /\ Len(s) >= Len(p)
       /\ \A i \in 1..(Len(p) - 1) : p[i] = s[i]

Allowed(grants, s) == \E p \in grants : Covers(p, s)

----------------------------------------------------------------------------
(* permissions: the rights of one client, collected over the subjects and   *)
(* the buckets of the contract.                                             *)

\* Mutant of SubjectPublish: a subject without a stream is not skipped.
SubjectPublishNull(s, service) ==
    IF service \in s.publishers THEN {s.subject, StreamApi("INFO", s.stream)} ELSE {}

SubjectPublish(s, service) ==
    (IF service \in s.publishers
     THEN {s.subject} \cup
          (IF s.stream # NoStream THEN {StreamApi("INFO", s.stream)} ELSE {})
     ELSE {})
    \cup (IF s.stream # NoStream /\ service = s.streamManager
          THEN {StreamApi(v, s.stream) : v \in {"INFO", "CREATE", "UPDATE"}}
          ELSE {})
    \cup UNION {{StreamApi("INFO", s.stream),
                 ConsumerApi("INFO", s.stream) \o <<d.name>>,
                 ConsumerApi("CREATE", s.stream) \o <<d.name>>,
                 ConsumerApi("CREATE", s.stream) \o <<d.name, Wild>>,
                 <<"$JS", "API", "CONSUMER", "MSG", "NEXT", s.stream, d.name>>,
                 <<"$JS", "ACK", s.stream, d.name, Wild>>} :
                d \in {e \in s.durables : e.service = service}}

\* Mutant of BucketPublish: readers may write.
BucketPublishReaders(b, service) ==
    {StreamApi("INFO", b.stream) : r \in {service} \cap b.readers}
    \cup {<<"$KV", b.bucket, Wild>> : r \in {service} \cap (b.readers \cup b.writers)}
    \cup {StreamApi("CREATE", b.stream) : r \in {service} \cap {b.manager}}

BucketPublish(b, service) ==
    (IF service \in b.readers
     THEN {StreamApi("INFO", b.stream),
           <<"$JS", "API", "DIRECT", "GET", b.stream, Wild>>,
           <<"$JS", "API", "STREAM", "MSG", "GET", b.stream>>,
           ConsumerApi("CREATE", b.stream),
           ConsumerApi("CREATE", b.stream) \o <<Wild>>,
           ConsumerApi("INFO", b.stream) \o <<Wild>>,
           ConsumerApi("DELETE", b.stream) \o <<Wild>>,
           <<"$JS", "API", "CONSUMER", "MSG", "NEXT", b.stream, Wild>>,
           <<"$JS", "ACK", b.stream, Wild>>}
     ELSE {})
    \cup (IF service \in b.writers THEN {<<"$KV", b.bucket, Wild>>} ELSE {})
    \cup (IF service = b.manager
          THEN {<<"$JS", "API", "INFO">>, StreamApi("CREATE", b.stream)}
          ELSE {})

\* The (first) client of a service.
ClientOf(contract, service) == CHOOSE x \in contract.clients : x.service = service

\* Mutant of Permissions: the inbox of the release, not of the client.
PermissionsSharedInbox(contract, service) ==
    [publish |-> UNION {SubjectPublish(s, service) : s \in contract.subjects},
     subscribe |-> {Inbox(SubSeq(ClientOf(contract, service).inbox, 1, 2))}]

Permissions(contract, service) ==
    [publish |->
        (UNION {SubjectPublish(s, service) : s \in contract.subjects})
        \cup (UNION {BucketPublish(b, service) : b \in contract.buckets}),
     subscribe |->
        {Inbox(ClientOf(contract, service).inbox)}
        \cup {s.subject : s \in {t \in contract.subjects : service \in t.subscribers}}
        \cup {<<"$KV", b.bucket, Wild>> : b \in {c \in contract.buckets :
                                          service \in c.readers}}]

\* One user per client, named by the DNS SAN of its certificate.
ExpectedAuthorization(contract) ==
    [san \in {c.dnsSan : c \in contract.clients} |->
        Permissions(contract, (CHOOSE c \in contract.clients : c.dnsSan = san).service)]

----------------------------------------------------------------------------
(* check_repository. *)

\* The chart renders with the bundled values: templates/validate.yaml
\* refuses an authorization whose digest is not the pinned one, a TLS block
\* that does not map certificates, and JetStream without its volume.
Renders(t, authorization) ==
    /\ authorization = t.pinned
    /\ t.tlsMerge = {"verify_and_map"}
    /\ t.persistent

\* What the check reads of a rule: the components of its peers.
PeersOf(r) == {p.component : p \in r.from}
BrokerRules(m) == {i \in DOMAIN m.ingress : m.ingress[i].port = 4222}

PolicyAdmitsClients(m) ==
    /\ Cardinality({i \in BrokerRules(m) :
                    PeersOf(m.ingress[i]) = ChartClients}) = 1
    /\ Cardinality({i \in BrokerRules(m) : m.ingress[i].from = DemoPeers}) = 1
    /\ \A i \in DOMAIN m.ingress :
          m.ingress[i].from = DemoPeers => m.ingress[i].port = 4222

\* Mutant of DeploymentsMatch: the certificate is compared, the prefix is not.
DeploymentsMatchCert(m) ==
    /\ \A n \in DOMAIN m.deployments :
          m.deployments[n].natsUrl => m.deployments[n].cert = n
    /\ {n \in DOMAIN m.deployments : m.deployments[n].natsUrl} = ChartClients

\* A Deployment with NATS_URL is a client: its inbox prefix and certificate
\* are those of its own name.  brain and console may not keep a prefix
\* without a broker URL.
DeploymentsMatch(m) ==
    /\ \A n \in DOMAIN m.deployments :
          LET d == m.deployments[n] IN
          IF d.natsUrl
          THEN d.inbox = <<"_INBOX", "clavenar", n>> /\ d.cert = n
          ELSE n \in {"brain", "console"} => d.inbox = <<>>
    /\ {n \in DOMAIN m.deployments : m.deployments[n].natsUrl} = ChartClients

CheckRepository(t) ==
    /\ t.contract.version = "v1"
    /\ \A copy \in t.mirrors : copy = t.contract
    /\ t.values = ExpectedAuthorization(t.contract)
    /\ t.persistent
    /\ t.tlsMerge = {"verify_and_map"}
    /\ Renders(t, t.values)
    /\ t.manifest.claims = {"nats-js"}
    /\ PolicyAdmitsClients(t.manifest)
    /\ DeploymentsMatch(t.manifest)

----------------------------------------------------------------------------
(* The repository over time. *)

Idle == [at |-> "idle", contract |-> {}]
Tree0(c, m) ==
    [contract |-> c, mirrors |-> {}, values |-> ExpectedAuthorization(c),
     lines |-> 1, pinned |-> ExpectedAuthorization(c), digests |-> 1,
     tlsMerge |-> {"verify_and_map"}, persistent |-> TRUE, manifest |-> m]

Init ==
    /\ \E c \in Contracts, m \in Manifests : tree = Tree0(c, m)
    /\ sync = Idle
    /\ passed = FALSE
    /\ held = {tree.contract}
    /\ broker = {}
    /\ edits = 0

\* Somebody changes the tree, also while a run of the script is between its
\* two writes.
Edit(t) ==
    /\ edits < MaxEdits
    /\ t # tree
    /\ tree' = t
    /\ passed' = FALSE
    /\ held' = held \cup {t.contract}
    /\ edits' = edits + 1
    /\ UNCHANGED <<sync, broker>>

EditContract == \E c \in Contracts : Edit([tree EXCEPT !.contract = c])

EditMirror == \E c \in Contracts : Edit([tree EXCEPT !.mirrors = {c}])

\* A hand edit of the generated block: one more grant for one user.
EditValues ==
    \E u \in DOMAIN tree.values, g \in HandGrants :
        Edit([tree EXCEPT !.values[u].publish = @ \cup {g}])

\* A reformatted file: the generated line, or the digest comparison, is not
\* there exactly once any more.
EditLayout ==
    \E n \in {0, 1, 2} :
        \/ Edit([tree EXCEPT !.lines = n])
        \/ Edit([tree EXCEPT !.digests = n])

EditSettings ==
    \/ Edit([tree EXCEPT !.persistent = ~@])
    \/ \E s \in SUBSET {"verify_and_map", "verify"} :
          Edit([tree EXCEPT !.tlsMerge = s])

EditTemplates == \E m \in Manifests : Edit([tree EXCEPT !.manifest = m])

\* --write-values, first half: exactly one generated line, replaced in
\* values.yaml.
WriteValues ==
    /\ sync = Idle
    /\ tree.lines = 1
    /\ sync' = [at |-> "valuesWritten", contract |-> {tree.contract}]
    /\ tree' = [tree EXCEPT !.values = ExpectedAuthorization(tree.contract)]
    /\ passed' = FALSE
    /\ UNCHANGED <<held, broker, edits>>

\* Mutant of WriteDigest: pins what values.yaml holds by then.
WriteDigestOfValues ==
    /\ sync.at = "valuesWritten"
    /\ tree.digests = 1
    /\ tree' = [tree EXCEPT !.pinned = tree.values]
    /\ sync' = Idle
    /\ passed' = CheckRepository(tree')
    /\ UNCHANGED <<held, broker, edits>>

\* Second half: the digest in templates/validate.yaml, written only when the
\* comparison is there exactly once; then main goes on to the check.
WriteDigest ==
    /\ sync.at = "valuesWritten"
    /\ tree.digests = 1
    /\ \E c \in sync.contract :
          tree' = [tree EXCEPT !.pinned = ExpectedAuthorization(c)]
    /\ sync' = Idle
    /\ passed' = CheckRepository(tree')
    /\ UNCHANGED <<held, broker, edits>>

\* The run fails on the digest, or dies: values.yaml is already written.
SyncStops ==
    /\ sync.at = "valuesWritten"
    /\ sync' = Idle
    /\ UNCHANGED <<tree, passed, held, broker, edits>>

Check ==
    /\ sync = Idle
    /\ passed' = CheckRepository(tree)
    /\ UNCHANGED <<tree, sync, held, broker, edits>>

\* helm upgrade --install with the bundled broker: the chart's own values, or
\* an operator's overlay of the authorization (here the rights a user would
\* have had under another contract, or a hand-edited copy).
Overlays == {tree.values} \cup {ExpectedAuthorization(c) : c \in Contracts}
              \cup {[tree.values EXCEPT ![u].publish = @ \cup {g}] :
                     u \in DOMAIN tree.values, g \in HandGrants}

Install ==
    \E a \in Overlays :
        /\ Renders(tree, a)
        /\ broker' = {a}
        /\ UNCHANGED <<tree, sync, passed, held, edits>>

Next ==
    \/ EditContract \/ EditMirror \/ EditValues
    \/ EditLayout \/ EditSettings \/ EditTemplates
    \/ WriteValues \/ WriteDigest \/ SyncStops
    \/ Check \/ Install

Spec == Init /\ [][Next]_vars

----------------------------------------------------------------------------
(* Properties. *)

\* The tree, the run and the broker keep their shapes (the records of
\* check-nats-authorization.py); a grant is a subject, with a wildcard at its
\* end only and never the name of a stream that is not there.
TypeOK ==
    /\ \A u \in DOMAIN tree.values : \A g \in tree.values[u].publish : IsGrant(g)
    /\ tree.contract \in Contracts
    /\ tree.mirrors \subseteq Contracts
    /\ tree.lines \in 0..2 /\ tree.digests \in 0..2
    /\ tree.tlsMerge \subseteq {"verify_and_map", "verify"}
    /\ tree.persistent \in BOOLEAN
    /\ tree.manifest \in Manifests
    /\ sync.at \in {"idle", "valuesWritten"}
    /\ sync.contract \subseteq Contracts
    /\ passed \in BOOLEAN
    /\ held \subseteq Contracts
    /\ edits \in 0..MaxEdits

\* What the broker runs was generated from a contract the fixture has held:
\* no hand edit, overlay or half-finished --write-values gets past the
\* pinned digest (sync_values_authorization, validate.yaml:590).
BrokerRunsGenerated ==
    \A a \in broker : \E c \in held : a = ExpectedAuthorization(c)

\* The contract read as statements about who may do what.
Rights(c, a) ==
    \A client \in c.clients :
        LET me == a[client.dnsSan]
            who == client.service IN
        /\ \A s \in c.subjects :
              /\ Allowed(me.publish, s.subject) <=> who \in s.publishers
              /\ Allowed(me.subscribe, s.subject) <=> who \in s.subscribers
              /\ s.stream # NoStream =>
                   /\ \A v \in {"CREATE", "UPDATE"} :
                         Allowed(me.publish, StreamApi(v, s.stream))
                            <=> who = s.streamManager
                   /\ ~Allowed(me.publish, StreamApi("DELETE", s.stream))
                   /\ \A d \in s.durables :
                         Allowed(me.publish,
                                 <<"$JS", "ACK", s.stream, d.name, "1">>)
                            <=> \E e \in s.durables :
                                   e.name = d.name /\ e.service = who
        /\ \A b \in c.buckets :
              /\ Allowed(me.publish, <<"$KV", b.bucket, "key">>)
                    <=> who \in b.writers
              /\ Allowed(me.subscribe, <<"$KV", b.bucket, "key">>)
                    <=> who \in b.readers
              /\ Allowed(me.publish, StreamApi("CREATE", b.stream))
                    <=> who = b.manager
              /\ ~Allowed(me.publish, StreamApi("DELETE", b.stream))

\* Least authority: matched token by token with the wildcards of all its
\* grants together, every client of the running broker may publish,
\* subscribe, create, update and acknowledge exactly what one held contract
\* assigns to it (permissions).
LeastAuthority ==
    \A a \in broker : \E c \in held :
        /\ DOMAIN a = {x.dnsSan : x \in c.clients}
        /\ Rights(c, a)

\* A client can subscribe to its own reply inbox and to nobody else's
\* (permissions: subscribe).
InboxesPrivate ==
    \A a \in broker : \E c \in held : \A x, y \in c.clients :
        Allowed(a[x.dnsSan].subscribe, y.inbox \o <<"reply">>) <=> x = y

\* Whom a rule lets in (Kubernetes): the pods of a component in the release's
\* namespace, unless the peer is narrowed.
Admits(r, n) == \E p \in r.from : p.component = n /\ ~p.narrowed

\* The peers of the broker's rules are bare components, but for the demo's.
BarePeers(m) ==
    \A i \in BrokerRules(m) : m.ingress[i].from # DemoPeers =>
        \A p \in m.ingress[i].from : ~p.narrowed

\* An installation of the chart is not refused; every client it deploys is
\* admitted by the broker's network policy, and the user that the broker maps
\* its certificate to exists and can subscribe below the inbox prefix its
\* Deployment was given.
Served(t) ==
    /\ Renders(t, t.values)
    /\ \A n \in ChartClients :
          LET d == t.manifest.deployments[n] IN
          /\ \E i \in BrokerRules(t.manifest) : Admits(t.manifest.ingress[i], n)
          /\ d.cert \in DOMAIN t.values
          /\ Allowed(t.values[d.cert].subscribe, d.inbox \o <<"reply">>)

\* When the check has passed on this tree, every client is served, as long as
\* the policy's peers are bare components: the check would not see a further
\* selector (check_repository).
PassMeansServed == passed /\ BarePeers(tree.manifest) => Served(tree)
============================================================================

---------------------------- MODULE ListenerMatrix ----------------------------
(***************************************************************************)
(* The governed listener inventory over time: listeners.yaml, the chart's  *)
(* templates and the values change, a manifest is rendered into a file,    *)
(* and check-listener-matrix.py compares the file with the matrix and the  *)
(* values of the moment.                                                   *)
(*                                                                         *)
(* The templates are represented by the matrix and the contracts they      *)
(* follow, with their workloads: templates/networkpolicy.yaml and          *)
(* services.yaml write the same rules out by hand.  An edit changes one of *)
(* the two or both.                                                        *)
(***************************************************************************)
EXTENDS DeploymentContracts

CONSTANTS
    Matrix0,        \* listeners.yaml
    Workloads0,     \* what the templates deploy: workloads, pods, test Pods
    Values0,        \* values the checks begin with
    Overlays,       \* changes of the values
    MatrixEdits,    \* changes of the matrix, or of the templates' rules
    WorkloadEdits,  \* changes of the templates' workloads
    Pods,           \* pods of the cluster, with their namespaces
    MaxEdits        \* bound on the edits

ASSUME EditsAssumption == MaxEdits \in Nat

\* Labels are a map.
IsMap(labels) == \A k, l \in labels : k[1] = l[1] => k = l

ASSUME PodsAssumption == \A pod \in Pods : IsMap(pod.labels)

\* services.yaml deploys these services under their own component, each with
\* a port.
OwnServices == CapabilityServices \cup {"brain", "assurance", "console"}

OwnComponent(pod) ==
    /\ WorkloadSelector(pod.name) \subseteq pod.labels
    /\ IsMap(pod.labels)
    /\ ExposedPorts(pod) # {}

Deployments == {Workloads0} \cup WorkloadEdits

ASSUME DeploymentsAssumption ==
    \A t \in Deployments :
        /\ IsFiniteSet(UNION {ExposedPorts(w.pod) : w \in t.workloads})
        /\ \A w \in t.workloads : w.pod.name \in OwnServices => OwnComponent(w.pod)

\* The parts of listeners.yaml that no edit here takes away: a listener of a
\* capability service is there with its service, the ledger has a policy
\* whenever it is deployed, and a shared selector means pods of the release.
Standing(m) ==
    /\ {"listeners", "policies", "peerSelectors"} \subseteq DOMAIN m
    /\ IsFiniteSet(m.listeners)
    /\ \A l \in m.listeners :
          /\ {"service", "enabledWhen"} \subseteq DOMAIN l
          /\ l.service \in CapabilityServices =>
                [path |-> l.service, is |-> {}] \in l.enabledWhen
    /\ \E c \in m.policies :
          /\ {"service", "enabledWhen", "disabledWhen"} \subseteq DOMAIN c
          /\ c.service = "ledger" /\ c.disabledWhen = {}
          /\ c.enabledWhen \subseteq {[path |-> "ledger", is |-> {}]}
    /\ \A t \in DOMAIN m.peerSelectors :
          /\ {"spaces", "block"} \subseteq DOMAIN m.peerSelectors[t]
          /\ m.peerSelectors[t].spaces = {} /\ ~m.peerSelectors[t].block

ASSUME MatrixAssumption == Standing(Matrix0)

\* Whom an operator admits to the console is not the website.
ConsolePaths == {"console.operatorMtls", "console.passkey", "console.demo"}

ConsoleApart(v) ==
    \A path \in ConsolePaths \cap DOMAIN v : \A p \in v[path] : ExactPositive(p) =>
        \A pod \in Pods : Admits(p, pod) =>
            <<"app.kubernetes.io/name", "clavenar-website">> \notin pod.labels

ASSUME ValuesAssumption ==
    /\ \A v \in Values0 : ConsolePaths \subseteq DOMAIN v /\ ConsoleApart(v)
    /\ \A o \in Overlays : ConsoleApart(o)

VARIABLES
    matrix,     \* listeners.yaml
    reviewed,   \* the matrix whose digest is pinned (reviewedContractSha256)
    templates,  \* rules and workloads of the templates
    values,
    docs,       \* the manifest file
    passed,     \* the last check accepted this file, matrix and values
    edits

vars == <<matrix, reviewed, templates, values, docs, passed, edits>>

----------------------------------------------------------------------------
(* Edits of rules. *)

EditedRules(e, rules) ==
    LET here == {r \in rules : r.listener = e.listener} IN
    (rules \ here) \cup
    CASE e.kind = "dropRule" -> {}
      [] e.kind = "admit" ->
            {[r EXCEPT !.peers = IF e.token = "any" THEN {"any"} ELSE @ \cup {e.token}] :
                r \in here}
      [] e.kind = "always" ->
            {[r EXCEPT !.enabledWhen = {}, !.disabledWhen = {}] : r \in here}
      [] e.kind = "move" -> {[r EXCEPT !.listener = e.token] : r \in here}
      [] OTHER -> here

EditedListener(e, l) ==
    CASE e.kind = "renumber" -> [l EXCEPT !.containerPort = e.token]
      [] e.kind = "unpublish" -> [l EXCEPT !.published = FALSE]
      [] e.kind = "trust" -> [l EXCEPT !.authenticated = FALSE]
      [] e.kind = "forget" -> [l EXCEPT !.authorized = {}]
      [] OTHER -> l

Loosened(peer) == [peer EXCEPT !.pods = {[s EXCEPT !.expressions = {}] : s \in @}]

Edited(e, m) ==
    [m EXCEPT
        !.policies = {IF c.service = e.service
                      THEN [c EXCEPT !.rules = EditedRules(e, @)] ELSE c : c \in @},
        !.listeners = {IF l.service = e.service /\ l.id = e.listener
                       THEN EditedListener(e, l) ELSE l : l \in @},
        !.objects = {IF e.kind = "type" /\ o.id = e.service
                     THEN [o EXCEPT !.type = e.token] ELSE o : o \in @},
        !.peerSelectors = IF e.kind = "loosen"
                          THEN [t \in DOMAIN @ |-> Loosened(@[t])] ELSE @]

\* The author brings the listeners in line with the changed policies, or not.
Declared(m) ==
    [m EXCEPT !.listeners =
        {[l EXCEPT !.allowed = AllowedByContracts(m, l),
                   !.authorized = @ \cup (AllowedByContracts(m, l) \ {"any"})] : l \in @}]

----------------------------------------------------------------------------
(* Rendering and checking. *)

\* The environment services.yaml gives the container of a service.
Environment(t, v, name) ==
    (CASE name = "console" ->
            ConsoleEnv(v) \cup {<<"CLAVENAR_HIL_DECIDE_TOKEN", "secret">> :
                                 x \in {v["console.operatorMtls.enabled"]} \cap {TRUE}}
       [] name = "brain" -> BrainEnv(v)
       [] name = "assurance" -> AssuranceEnv
       [] name = "ledger" -> LedgerEnv(v)
       [] name = "policy-engine" -> BrainClientEnv(v, name)
       [] OTHER -> {})
    \cup (IF name \in CapabilityServices THEN CapabilityEnv(v, t.deployed.bundle) ELSE {})

\* The same after the drifts of the templates, which replace entries.
Drifted(t, v, name) ==
    LET here == {d \in t.deployed.drift : d.workload = name} IN
    {e \in Environment(t, v, name) : \A d \in here : d.name # e[1]}
        \cup UNION {d.entries : d \in here}

RenderedPod(t, v, pod) ==
    [name |-> pod.name, kind |-> pod.kind, first |-> pod.first,
     labels |-> pod.labels, hostNetwork |-> pod.hostNetwork, scrape |-> pod.scrape,
     containers |-> {[name |-> c.name, field |-> c.field, ports |-> c.ports,
                      probes |-> c.probes, env |-> Drifted(t, v, c.name)] :
                        c \in pod.containers},
     mounts |-> (IF pod.name \in {"console", "assurance"}
                 THEN CertMounts(v, pod.name) ELSE {})
                \cup (IF pod.name = "console" THEN OperatorTrust(v) ELSE {}),
     capabilities |-> IF pod.name \in CapabilityServices
                      THEN CapabilityMounts(v, t.deployed.bundle) ELSE {}]

\* helm template: the policies carry the digest of the matrix in the chart.
Render(t, m, v) ==
    [services |-> ExpectedServices(t.rules, v),
     policies |-> {[name |-> p.name, digest |-> m, spec |-> p] :
                   p \in ExpectedPolicies(t.rules, v)},
     workloads |-> {RenderedPod(t, v, w.pod) : w \in {x \in t.deployed.workloads :
                                   ConditionEnabled(x.enabledWhen, v)}},
     bundles |-> {[name |-> BundleName(t.deployed.bundle), immutable |-> TRUE,
                   bundle |-> t.deployed.bundle]},
     others |-> t.deployed.others,
     vaultTests |-> IF v["vault"] THEN t.deployed.vaultTests ELSE {}]

\* validate
Validate(m, digest, v, d) ==
    /\ digest = m
    /\ ListenerInventory(m)
    /\ ObjectInventory(m)
    /\ PolicyContracts(m)
    /\ ConfiguredPeers(v)
    /\ ServicesMatch(m, v, d)
    /\ PublicationsMatch(m, v)
    /\ WorkloadsMatch(m, v, d)
    /\ PoliciesMatch(m, v, d)
    /\ VaultTestHook(m, v, d)
    /\ ProfileContract(v)
    /\ ConsoleContract(v, d)
    /\ BrainContract(v, d)
    /\ AssuranceContract(v, d)
    /\ CapabilityContract(v, d)
    /\ LedgerTrustedProxyContract(v, d)
    /\ EnvUnique(d)

Init ==
    /\ matrix = Matrix0
    /\ reviewed = Matrix0
    /\ templates = [rules |-> Matrix0, deployed |-> Workloads0]
    /\ values \in Values0
    /\ docs = Render(templates, matrix, values)
    /\ passed = FALSE
    /\ edits = 0

Edit == edits < MaxEdits /\ edits' = edits + 1 /\ passed' = FALSE

EditMatrix ==
    \E e \in MatrixEdits : \E m \in {Edited(e, matrix), Declared(Edited(e, matrix))} :
        /\ Edit
        /\ matrix' = m
        /\ UNCHANGED <<reviewed, templates, values, docs>>

\* The same change in the matrix and in the templates, with its review.
EditBoth ==
    \E e \in MatrixEdits :
        /\ Edit
        /\ matrix' = Declared(Edited(e, matrix))
        /\ reviewed' = matrix'
        /\ templates' = [templates EXCEPT !.rules = Edited(e, @)]
        /\ UNCHANGED <<values, docs>>

EditTemplates ==
    /\ Edit
    /\ \/ \E e \in MatrixEdits : templates' = [templates EXCEPT !.rules = Edited(e, @)]
       \/ \E d \in WorkloadEdits : templates' = [templates EXCEPT !.deployed = d]
    /\ UNCHANGED <<matrix, reviewed, values, docs>>

EditValues ==
    \E o \in Overlays :
        /\ Edit
        /\ values' = Merge(values, o)
        /\ UNCHANGED <<matrix, reviewed, templates, docs>>

\* Somebody pins the digest of the matrix as it is.
Review ==
    /\ reviewed # matrix
    /\ reviewed' = matrix
    /\ passed' = FALSE
    /\ UNCHANGED <<matrix, templates, values, docs, edits>>

HelmTemplate ==
    /\ docs' = Render(templates, matrix, values)
    /\ passed' = FALSE
    /\ UNCHANGED <<matrix, reviewed, templates, values, edits>>

\* main
Check ==
    /\ passed' = Validate(matrix, reviewed, values, docs)
    /\ UNCHANGED <<matrix, reviewed, templates, values, docs, edits>>

Next == EditMatrix \/ EditBoth \/ EditTemplates \/ EditValues \/ Review
        \/ HelmTemplate \/ Check

Spec == Init /\ [][Next]_vars

----------------------------------------------------------------------------
(* Properties. *)

\* Who a pod really is, whatever a selector says of it: a component of the
\* release by its labels in the release's namespace, an application of
\* another namespace by its name there, anybody in Prometheus' namespace, a
\* pod whose own label an operator named.
IsComponent(pod, name) ==
    pod.space = Home
    /\ Component("clavenar", "app.kubernetes.io/component", name) \subseteq pod.labels

IsForeign(v, pod, app) ==
    /\ <<"app.kubernetes.io/name", app>> \in pod.labels
    /\ pod.space \notin {Home} \cup v["prometheusNamespace"]

IsNamed(v, pod, path) ==
    \E p \in v[path] : \E s \in p.pods : s.labels # {} /\ s.labels \subseteq pod.labels

Is(v, pod, caller) ==
    CASE caller = "prometheus" -> pod.space \in v["prometheusNamespace"]
      [] caller = "configured-ledger-trusted-proxy-peers" ->
            IsForeign(v, pod, "clavenar-website")
      [] caller = "configured-nats-demo-mint-peers" ->
            IsForeign(v, pod, "clavenar-demo-mint")
      [] caller = "configured-console-operator-peers" ->
            IsNamed(v, pod, "console.operatorMtls")
      [] caller = "configured-console-passkey-peers" -> IsNamed(v, pod, "console.passkey")
      [] caller = "configured-console-demo-peers" -> IsNamed(v, pod, "console.demo")
      [] caller = "simulator" ->
            \/ IsComponent(pod, "simulator") \/ IsForeign(v, pod, "clavenar-simulator")
      [] caller = "console" ->
            \/ IsComponent(pod, "console")
            \/ /\ pod.space = Home
               /\ <<"app.kubernetes.io/name", "clavenar-demo-reset">> \in pod.labels
      [] caller = "vault" ->
            pod.space = Home /\ WorkloadSelector("vault") \subseteq pod.labels
      [] caller = "vault-server-test" ->
            pod = [space |-> Home,
                   labels |-> {<<"clavenar.io/network-client", "vault-server-test">>}]
      [] OTHER -> IsComponent(pod, caller)

\* Every enabled policy contract has someone to admit: Kubernetes reads an
\* empty "from" as everybody, and the check does not know that.
NoEmptySource(m, v) ==
    \A p \in ExpectedPolicies(m, v) : \A r \in p.ingress : r.from # {{}}

\* Whatever port a workload of an accepted manifest exposes, a pod that
\* network policy lets through to it is, by its own identity, a caller an
\* active listener of that service authorizes, or the listener is open to
\* any authenticated caller (validate as a whole, with the cluster's reading
\* of selectors, empty fields and several policies).
OnlyAuthorised ==
    passed /\ values["networkPolicy"] /\ NoEmptySource(matrix, values) =>
        \A w \in docs.workloads : \A port \in ExposedPorts(w) : \A pod \in Pods :
            Reaches(docs, pod, w.labels, port[4]) =>
                \E l \in ActiveListeners(matrix, values) :
                    /\ WorkloadSelector(l.service) \subseteq w.labels
                    /\ l.containerPort = port[4]
                    /\ \/ "any" \in l.allowed /\ l.authenticated
                       \/ \E caller \in l.authorized : Is(values, pod, caller)

\* In an accepted manifest a component that a rule names reaches the
\* published listener: a Service of the release leads to its port, on a pod
\* whose policies let the caller in (expected_services, the container ports
\* and expected_policies agree).
CallersServed ==
    passed => \A c \in EnabledContracts(matrix, values) :
        \A r \in EnabledRules(c, values) : \A l \in ActiveListeners(matrix, values) :
            l.service = c.service /\ l.id = r.listener /\ l.published =>
                \E s \in docs.services : \E p \in s.ports :
                    /\ p.port = l.servicePort
                    /\ \E e \in Endpoints(docs, s, p) :
                          /\ e[2] = l.containerPort
                          /\ \A pod \in Pods :
                                (\E t \in r.peers \ {"simulator"} : IsComponent(pod, t)) =>
                                    Reaches(docs, pod, e[1].labels, e[2])

\* The URLs that brain's clients are given for brain and assurance.
Urls(c) ==
    UNION {Env(c, name) : name \in {"CLAVENAR_CONSOLE_BRAIN_URL", "CLAVENAR_ASSURANCE_URL",
                                    "CLAVENAR_POLICY_ENGINE_BRAIN_URL"}}

\* The check reads console's container by its name, of another client the first.
ReadByName(w) == w.name = "console" \/ w.first = w.name

\* In an accepted manifest with workload TLS every URL that console and
\* policy-engine are given for brain and assurance ends, across the alias of
\* its host and the Service there, at the port of an authenticated listener,
\* and where the matrix admits that client the policies let its pods in
\* (four contracts checked one by one, and the aliases' names and ports); of a
\* client that is a Deployment, and of policy-engine where its container is first.
ClientsReach ==
    passed /\ values["tls"] /\ values["brain"] =>
        \A w \in {x \in docs.workloads : x.kind = "Deployment" /\ ReadByName(x)} :
        \A c \in Main(w) : \A url \in Urls(c) :
            \E e \in Backends(docs, url) :
                \E l \in ActiveListeners(matrix, values) :
                    /\ l.service = e[1].name /\ l.containerPort = e[2] /\ l.authenticated
                    /\ w.name \in l.allowed =>
                          Reaches(docs, [space |-> Home, labels |-> w.labels],
                                  e[1].labels, e[2])

\* The website, an application of another namespace, reaches the ledger of an
\* accepted manifest on its mTLS port only, and only when that ledger (as a
\* Deployment, the kind the check reads) enforces the trusted proxy with the
\* website's SPIFFE URI, whatever a reviewed change of the matrix admits, unless a listener there is open to everybody
\* (validate_deployment_profile, validate_ledger_trusted_proxy_contract).
WebsiteBounded ==
    passed /\ values["networkPolicy"] /\ NoEmptySource(matrix, values) =>
        \A w \in docs.workloads : \A port \in ExposedPorts(w) : \A pod \in Pods :
            (/\ w.name = "ledger"
             /\ IsForeign(values, pod, "clavenar-website")
             /\ Reaches(docs, pod, w.labels, port[4])
             /\ \A l \in matrix.listeners : l.service = "ledger" => "any" \notin l.allowed) =>
                /\ port[4] = 8183
                /\ w.kind = "Deployment" => \A c \in Main(w) :
                      /\ Env(c, "CLAVENAR_LEDGER_REQUIRE_TRUSTED_PROXY") = {"true"}
                      /\ Env(c, "CLAVENAR_LEDGER_TRUSTED_PROXY_SPIFFE") = {Website}

\* With workload TLS every capability Deployment of an accepted manifest starts:
\* the bundle in the ConfigMap it mounts has the digest and the matrix digest
\* of its environment, and admits no website to the ledger's application
\* routes (validate_workload_capability_contract: name, mount and environment
\* are compared separately).
CapabilitiesBound ==
    passed /\ values["tls"] =>
        \A w \in UNION {DeploymentsOf(docs, s) : s \in CapabilityServices} :
            \E b \in docs.bundles :
                /\ b.name \in w.capabilities
                /\ "service-website" \notin b.bundle.ledgerCallers
                /\ \A c \in Main(w) :
                      /\ Env(c, "CLAVENAR_WORKLOAD_CAPABILITY_BUNDLE_SHA256") = {b.bundle}
                      /\ Env(c, "CLAVENAR_ENDPOINT_CAPABILITY_MATRIX_SHA256")
                            = {b.bundle.matrix}
=============================================================================

-------------------------- MODULE MCListenerMatrix --------------------------
(* Ten services of listeners.yaml with their rules, Service objects and     *)
(* workloads as they are: the listener open to agents, the ledger with its  *)
(* TLS-dependent rules, the console's listeners, brain, the policy engine   *)
(* and assurance, the execution gateway with its egress, the upstream stub  *)
(* and both subcharts; identity, hil and deep-review are left out.          *)
EXTENDS ListenerMatrix, TLC

MCHome == "default"
MCRelease == "smoke"
MCTlsSecret == "clavenar-tls"

On(path) == [path |-> path, is |-> {}]
Equals(path, x) == [path |-> path, is |-> {x}]

Listener(service, id, port, when, authorized, allowed) ==
    [service |-> service, id |-> id, owner |-> "core", missing |-> {},
     enabledWhen |-> when, disabledWhen |-> {}, containerPort |-> port,
     servicePort |-> port, published |-> TRUE, authenticated |-> TRUE,
     authorized |-> authorized, allowed |-> allowed]

Plain(l) == [l EXCEPT !.authenticated = FALSE]
Inner(l) == [l EXCEPT !.published = FALSE]

Proxy == {On("proxy")}
Ledger == {On("ledger")}
Console == {On("console")}
Brain == {On("brain")}
PolicyEngine == {On("policy-engine")}
Assurance == {On("assurance")}
Aliased == {On("tls"), On("workloadIdentity")}
Nats == {On("nats")}
Vault == {On("vault")}

LedgerCallers == {"proxy", "console", "deep-review", "simulator"}
NatsCallers == {"proxy", "policy-engine", "ledger", "deep-review"}
VaultCallers == {"proxy", "identity", "simulator", "vault-bootstrap", "vault-server-test"}

MCListeners ==
    {Listener("proxy", "agent-mcp", 8443, Proxy, {"authenticated-agents"}, {"any"}),
     Plain(Listener("proxy", "health", 8080, Proxy,
                    {"assurance", "simulator", "kubelet", "prometheus"},
                    {"assurance", "simulator", "prometheus"})),
     Plain(Listener("ledger", "public-read", 8083, Ledger,
                    LedgerCallers \cup {"kubelet", "prometheus"},
                    LedgerCallers \cup {"prometheus"})),
     Listener("ledger", "internal-mtls", 8183, Ledger \cup {On("tls")},
              LedgerCallers \cup {"website", "configured-ledger-trusted-proxy-peers"},
              LedgerCallers \cup {"configured-ledger-trusted-proxy-peers"}),
     Listener("console", "operator-ui", 8085, Console \cup {On("console.operatorMtls.enabled")},
              {"registered-operators", "configured-console-operator-peers"},
              {"configured-console-operator-peers"}),
     Listener("console", "primary-demo", 8085,
              Console \cup {Equals("console.auth.mode", "demo-only")},
              {"anonymous-demo-visitors", "configured-console-demo-peers"},
              {"configured-console-demo-peers"}),
     Listener("console", "passkey-ui", 8085,
              Console \cup {Equals("console.auth.mode", "webauthn")},
              {"controlled-passkey-identities", "configured-console-passkey-peers"},
              {"configured-console-passkey-peers"}),
     Plain(Listener("console", "diagnostics", 9185, Console, {"kubelet", "prometheus"},
                    {"prometheus"})),
     Listener("brain", "application", 8081, Brain, {"proxy", "policy-engine", "console"},
              {"proxy", "policy-engine", "console"}),
     Plain(Listener("brain", "health", 9081, Brain, {"proxy", "console", "kubelet", "prometheus"},
                    {"proxy", "console", "prometheus"})),
     Listener("policy-engine", "application", 8082, PolicyEngine, {"proxy", "console"},
              {"proxy", "console"}),
     Plain(Listener("policy-engine", "health", 9082, PolicyEngine,
                    {"proxy", "console", "kubelet", "prometheus"},
                    {"proxy", "console", "prometheus"})),
     Listener("assurance", "control-mtls", 8088, Assurance, {"console"}, {"console"}),
     Plain(Listener("assurance", "diagnostics", 9088, Assurance, {"console", "kubelet"},
                    {"console"})),
     Listener("exec", "mcp", 9001, {On("exec")}, {"proxy"}, {"proxy"}),
     Inner(Plain(Listener("exec", "health", 9002, {On("exec")}, {"kubelet"}, {}))),
     Plain(Listener("upstream-stub", "mcp", 9000, {On("upstreamStub")},
                    {"proxy", "exec", "simulator", "kubelet"}, {"proxy", "exec", "simulator"})),
     Listener("nats", "client", 4222, Nats,
              NatsCallers \cup {"demo-mint", "configured-nats-demo-mint-peers"},
              NatsCallers \cup {"configured-nats-demo-mint-peers"}),
     Plain(Listener("nats", "monitor", 8222, Nats,
                    NatsCallers \cup {"kubelet", "prometheus"}, NatsCallers \cup {"prometheus"})),
     Listener("vault", "api", 8200, Vault, VaultCallers, VaultCallers),
     Listener("vault", "cluster", 8201, Vault, {"vault"}, {"vault"}),
     Inner(Listener("vault", "replication", 8202, Vault, {"vault-enterprise-replicas"}, {}))}

Rule(listener, peers, when, unless) ==
    [listener |-> listener, peers |-> peers, enabledWhen |-> when, disabledWhen |-> unless]
Always(listener, peers) == Rule(listener, peers, {}, {})
Metrics(listener) == Rule(listener, {"prometheus"}, {On("prometheusNamespace")}, {})

Contract(service, when, rules, egress) ==
    [service |-> service, owner |-> "core", enabledWhen |-> when, disabledWhen |-> {},
     rules |-> rules, egress |-> egress]

MCPolicies ==
    {Contract("proxy", Proxy,
        {Always("agent-mcp", {"any"}), Always("health", {"assurance", "simulator"}),
         Metrics("health")}, {}),
     Contract("ledger", Ledger,
        {Always("public-read", {"console", "deep-review"}),
         Rule("public-read", {"proxy", "simulator"}, {}, {{On("tls")}}),
         Rule("internal-mtls", LedgerCallers, {On("tls")}, {}),
         Rule("internal-mtls", {"configured-ledger-trusted-proxy-peers"},
              {On("tls"), On("ledger.trustedProxy")}, {}),
         Rule("internal-mtls", {"configured-demo-reset-peers"},
              {On("tls"), On("demoReset")}, {}),
         Always("public-read", {"proxy", "console"}), Metrics("public-read")}, {}),
     Contract("console", Console,
        {Rule("operator-ui", {"configured-console-operator-peers"},
              {On("console.operatorMtls.enabled"), On("console.operatorMtls")}, {}),
         Rule("passkey-ui", {"configured-console-passkey-peers"},
              {Equals("console.auth.mode", "webauthn"), On("console.passkey")}, {}),
         Rule("primary-demo", {"configured-console-demo-peers"},
              {Equals("console.auth.mode", "demo-only"), On("console.demo")}, {}),
         Metrics("diagnostics")}, {}),
     Contract("brain", Brain,
        {Always("application", {"proxy", "policy-engine", "console"}),
         Always("health", {"proxy", "console"}), Metrics("health")}, {}),
     Contract("policy-engine", PolicyEngine,
        {Always("application", {"proxy", "console"}), Always("health", {"proxy", "console"}),
         Metrics("health")}, {}),
     Contract("assurance", Assurance,
        {Always("control-mtls", {"console"}), Always("diagnostics", {"console"})}, {}),
     Contract("exec", {On("exec")}, {Always("mcp", {"proxy"})},
        {[peers |-> {"cluster-dns"}, ports |-> {<<"UDP", 53>>, <<"TCP", 53>>}],
         [peers |-> {"upstream-stub"}, ports |-> {<<"TCP", 9000>>}]}),
     Contract("upstream-stub", {On("upstreamStub")},
        {Rule("mcp", {"proxy", "simulator"}, {}, {{On("exec")}}),
         Rule("mcp", {"proxy", "exec", "simulator"}, {On("exec")}, {})}, {}),
     Contract("nats", Nats,
        {Always("client", NatsCallers),
         Rule("client", {"configured-nats-demo-mint-peers"}, {On("nats.demoMint")}, {}),
         Always("monitor", NatsCallers), Metrics("monitor")}, {}),
     Contract("vault", Vault,
        {Always("api", VaultCallers), Always("cluster", {"vault"})}, {})}

VaultTestLabel == <<"clavenar.io/network-client", "vault-server-test">>
Absent(key) == [key |-> key, operator |-> "DoesNotExist"]

Port(name, n) ==
    [name |-> name, port |-> n, target |-> PortName(name), app |-> {},
     enabledWhen |-> {}, disabledWhen |-> {}]
Numbered(p) == [p EXCEPT !.target = PortNumber(p.port)]
When(p, cond) == [p EXCEPT !.enabledWhen = cond]

Object(id, owner, when, ports, tlsPorts) ==
    [id |-> id, selectorOwner |-> owner, enabledWhen |-> when, name |-> <<Release, id>>,
     type |-> "ClusterIP", ports |-> ports, tlsPorts |-> tlsPorts, headless |-> FALSE,
     notReadyWhen |-> {}, external |-> {}]

Alias(id, service, when, name, port) ==
    [Object(id, "none", when, {Numbered(Port(name, port))}, {})
        EXCEPT !.name = <<service>>, !.type = "ExternalName",
               !.external = {<<Release, service, Home>>}]

MCObjects ==
    {Object("proxy", "core", Proxy, {Port("http", 8443), Port("health", 8080)}, {}),
     Object("ledger", "core", Ledger, {Port("http", 8083)}, {Port("mtls", 8183)}),
     Object("console", "core", Console,
        {When(Port("demo", 8085), {Equals("console.auth.mode", "demo-only")}),
         When(Port("passkey", 8085), {Equals("console.auth.mode", "webauthn")}),
         When(Port("operator-mtls", 8085), {On("console.operatorMtls.enabled")}),
         Port("diagnostics", 9185)}, {}),
     Object("exec", "core", {On("exec")}, {Port("mtls", 9001)}, {}),
     Object("upstream-stub", "core", {On("upstreamStub")}, {Port("http", 9000)}, {}),
     Object("brain", "core", Brain, {Port("http", 8081), Port("health", 9081)}, {}),
     Object("policy-engine", "core", PolicyEngine,
            {Port("http", 8082), Port("health", 9082)}, {}),
     Object("assurance", "core", Assurance,
            {Port("control-mtls", 8088), Port("diagnostics", 9088)}, {}),
     Alias("proxy-alias", "proxy", {On("proxyAlias")}, "mtls", 8443),
     Alias("brain-alias", "brain", Aliased, "mtls", 8081),
     Alias("policy-engine-alias", "policy-engine", Aliased, "mtls", 8082),
     Alias("ledger-alias", "ledger", Aliased, "mtls", 8183),
     Alias("assurance-alias", "assurance", Assurance \cup Aliased, "control-mtls", 8088),
     Object("nats", "nats", Nats,
        {[Port("nats", 4222) EXCEPT !.app = {"tlsWhenTlsElseTcp"}], Port("monitor", 8222)}, {}),
     [Object("nats-headless", "nats", Nats,
             {[Port("nats", 4222) EXCEPT !.app = {"tlsWhenTlsElseTcp"}],
              Port("monitor", 8222)}, {})
        EXCEPT !.headless = TRUE, !.notReadyWhen = {{}}],
     [Object("vault", "vault", Vault,
             {Numbered(Port("http", 8200)), Numbered(Port("https-internal", 8201))}, {})
        EXCEPT !.notReadyWhen = {{}}]}

MCMatrix0 ==
    [listeners |-> MCListeners, policies |-> MCPolicies, objects |-> MCObjects,
     ownership |-> {"core"},
     peerSelectors |-> [t \in {"vault-server-test"} |->
        [pods |-> {[labels |-> {VaultTestLabel},
                    expressions |-> {Absent("app.kubernetes.io/component"),
                                     Absent("component")}]},
         spaces |-> {}, block |-> FALSE]]]

----------------------------------------------------------------------------
(* Workloads. *)

CPort(name, n) == [name |-> name, port |-> n, host |-> FALSE]
Probe(ref) == [kind |-> "readinessProbe", path |-> "/readyz", port |-> ref]
Liveness(ref) == [kind |-> "livenessProbe", path |-> "/health", port |-> ref]
Diagnostics(n) == {Liveness(PortNumber(n)), Probe(PortNumber(n))}
Container(name, ports, probes) ==
    [name |-> name, field |-> "containers", ports |-> ports, probes |-> probes]

Workload(when, name, labels, ports, probes) ==
    [enabledWhen |-> when,
     pod |-> [name |-> name, first |-> name, labels |-> labels, hostNetwork |-> FALSE,
              kind |-> IF name \in {"nats", "vault"} THEN "StatefulSet" ELSE "Deployment",
              scrape |-> {}, containers |-> {Container(name, ports, probes)}]]

Core(when, name, ports, probes) ==
    Workload(when, name, WorkloadSelector(name), ports, probes)

Scraped(w, n) == [w EXCEPT !.pod.scrape = {n}]

MCWorkloads ==
    {Core(Proxy, "proxy", {CPort("http", 8443), CPort("health", 8080)},
          {Probe(PortName("health"))}),
     Core(Ledger \cup {On("tls")}, "ledger", {CPort("http", 8083), CPort("mtls", 8183)},
          {Probe(PortName("http"))}),
     Core(Ledger \cup {On("plain")}, "ledger", {CPort("http", 8083)}, {Probe(PortName("http"))}),
     Scraped(Core(Console \cup {Equals("console.auth.mode", "demo-only")}, "console",
                  {CPort("demo", 8085), CPort("diagnostics", 9185)}, Diagnostics(9185)), 9185),
     Scraped(Core(Console \cup {Equals("console.auth.mode", "operator-mtls")}, "console",
                  {CPort("operator-mtls", 8085), CPort("diagnostics", 9185)},
                  Diagnostics(9185)), 9185),
     Scraped(Core(Console \cup {Equals("console.auth.mode", "webauthn")}, "console",
                  {CPort("passkey", 8085), CPort("diagnostics", 9185)},
                  Diagnostics(9185)), 9185),
     Scraped(Core(Brain, "brain", {CPort("http", 8081), CPort("health", 9081)},
                  Diagnostics(9081)), 9081),
     Core(PolicyEngine, "policy-engine", {CPort("http", 8082), CPort("health", 9082)},
          {Probe(PortName("health"))}),
     Core(Assurance, "assurance", {CPort("control-mtls", 8088), CPort("diagnostics", 9088)},
          Diagnostics(9088)),
     Core({On("exec")}, "exec", {CPort("mtls", 9001), CPort("health", 9002)},
          {Probe(PortName("health"))}),
     Core({On("upstreamStub")}, "upstream-stub", {CPort("http", 9000)}, {Probe(PortName("http"))}),
     Core(Nats, "nats", {CPort("nats", 4222), CPort("monitor", 8222)}, {Probe(PortName("monitor"))}),
     Workload(Vault, "vault", WorkloadSelector("vault") \cup {VaultTestLabel},
          {CPort("http", 8200), CPort("https-internal", 8201), CPort("http-rep", 8202)}, {})}

SeedJob == [name |-> "vault-agent-seed", labels |-> WorkloadSelector("vault-agent-seed"),
            hostNetwork |-> FALSE, containers |-> {Container("seed", {}, {})}]

VaultTest == [labels |-> {VaultTestLabel}, hook |-> TRUE, address |-> <<Release, Home, 8200>>]

Bundle == [canonical |-> TRUE, matrix |-> "m1", ledgerCallers |-> {"service-proxy"}]
OlderBundle == [Bundle EXCEPT !.matrix = "m0"]

MCWorkloads0 == [workloads |-> MCWorkloads, others |-> {SeedJob}, vaultTests |-> {VaultTest},
                 bundle |-> Bundle, drift |-> {}]

\* Drifts of the workloads: a port more, another label, a port on the host,
\* another kind, a sidecar that comes first, a probe elsewhere, a Job on the host's network, a test Pod like the server, a
\* URL, a digest or an enforcement flag that is written out or repeated.
Of(name) == {w \in MCWorkloads : w.pod.name = name}
With(name, f(_)) ==
    [MCWorkloads0 EXCEPT !.workloads = (@ \ Of(name)) \cup {[w EXCEPT !.pod = f(@)] : w \in Of(name)}]
WithContainers(name, f(_)) ==
    LET g(p) == [p EXCEPT !.containers = {f(c) : c \in @}] IN With(name, g)

Override(workload, name, contents) ==
    [MCWorkloads0 EXCEPT !.drift = {[workload |-> workload, name |-> name,
                                     entries |-> {<<name, x>> : x \in contents}]}]

MorePorts(c) == [c EXCEPT !.ports = @ \cup {CPort("debug", 6553)}]
HostPort(c) == [c EXCEPT !.ports = {[p EXCEPT !.host = TRUE] : p \in @}]
ProbeMain(c) == [c EXCEPT !.probes = {Probe(PortNumber(8443))}]
Unlabelled(p) == [p EXCEPT !.labels = {l \in @ : l[1] # "app.kubernetes.io/component"}]
AsLedger(p) == [p EXCEPT !.labels = WorkloadSelector("ledger")]
OtherKind(p) ==
    [p EXCEPT !.kind = IF @ = "Deployment" THEN "StatefulSet" ELSE "Deployment"]
SidecarFirst(p) ==
    [p EXCEPT !.first = "mesh", !.containers = @ \cup {Container("mesh", {}, {})}]
BrainUrl == "CLAVENAR_POLICY_ENGINE_BRAIN_URL"
PeerSpiffe == "CLAVENAR_POLICY_EXPECTED_PEER_SPIFFE"

\* The sidecar of policy-engine carries the environment the check looks for,
\* policy-engine itself another URL.
SidecarCarries ==
    [With("policy-engine", SidecarFirst) EXCEPT
        !.drift = {[workload |-> "mesh", name |-> BrainUrl,
                    entries |-> {<<BrainUrl, <<<<"brain">>, 8081>>>>,
                                 <<PeerSpiffe, "identity,brain">>}],
                   [workload |-> "policy-engine", name |-> BrainUrl,
                    entries |-> {<<BrainUrl, <<<<Release, "brain">>, 9081>>>>}]}]

SwapNames(c) ==
    [c EXCEPT !.ports = {[p EXCEPT !.name = IF @ = "http" THEN "health" ELSE "http"] : p \in @}]

MCWorkloadEdits ==
    {With("nats", Unlabelled), With("exec", AsLedger),
     WithContainers("ledger", MorePorts), WithContainers("nats", HostPort),
     WithContainers("proxy", ProbeMain),
     With("console", OtherKind), With("vault", OtherKind),
     With("policy-engine", SidecarFirst), SidecarCarries,
     Override("console", "CLAVENAR_ASSURANCE_URL", {<<<<"assurance">>, 9088>>}),
     Override("policy-engine", "CLAVENAR_POLICY_ENGINE_BRAIN_URL", {<<<<Release, "brain">>, 9081>>}),
     Override("policy-engine", "CLAVENAR_WORKLOAD_CAPABILITY_BUNDLE_SHA256", {OlderBundle}),
     Override("ledger", "CLAVENAR_LEDGER_REQUIRE_TRUSTED_PROXY", {"false"}),
     Override("proxy", "CLAVENAR_PROXY_HEALTH_ADDR", {"8080", "9090"}),
     [MCWorkloads0 EXCEPT !.bundle = [Bundle EXCEPT !.ledgerCallers = @ \cup {"service-website"}]],
     [MCWorkloads0 EXCEPT !.others = {[SeedJob EXCEPT !.hostNetwork = TRUE]}],
     [MCWorkloads0 EXCEPT !.vaultTests =
        {[VaultTest EXCEPT !.labels = WorkloadSelector("vault") \cup {VaultTestLabel}]}]}

MCSwappedNames == {WithContainers("proxy", SwapNames), MCWorkloads0}

----------------------------------------------------------------------------
(* Values. *)

Defaults ==
    [p \in PeerPaths \cup {"prometheusNamespace"} |-> {}]
        @@ [p \in {"proxy", "ledger", "console", "brain", "policy-engine", "assurance",
                   "networkPolicy", "upstreamStub", "plain"} |-> TRUE]
        @@ [p \in {"tls", "tls.autoMint", "exec", "nats", "vault", "workloadIdentity", "proxyAlias",
                   "hil", "identity", "console.operatorMtls.enabled", "console.demo.enabled",
                   "ledger.requireTrusted", "authSecret"} |-> FALSE]
        @@ [p \in {"ledger.trustedSpiffe", "console.operatorTrust",
                   "console.mutationOrigins"} |-> ""]
        @@ ("console.auth.mode" :> "demo-only") @@ ("deploymentProfile" :> "evaluation")
        @@ ("ledger.ports" :> <<8083, 8183>>)
        @@ ("brain.explainCaller" :> "policy-engine") @@ ("brain.narrateCaller" :> "console")

TlsOn == ("tls" :> TRUE) @@ ("plain" :> FALSE) @@ ("workloadIdentity" :> TRUE)
            @@ ("proxyAlias" :> TRUE)
Bundled == ("nats" :> TRUE) @@ ("vault" :> TRUE)
Peers(path, p) == path :> {p}
From(labels, space) ==
    [pods |-> {MatchLabels(labels)}, spaces |-> {Namespace(space)}, block |-> FALSE]
Named(app) == {<<"app.kubernetes.io/name", app>>}

Operator == ("console.auth.mode" :> "operator-mtls") @@ ("console.operatorMtls.enabled" :> TRUE)
               @@ ("console.operatorTrust" :> "operator-trust")
               @@ ("console.mutationOrigins" :> "https://console")
               @@ Peers("console.operatorMtls", From(Named("traefik"), "ingress"))
Passkey == ("console.auth.mode" :> "webauthn")
              @@ Peers("console.passkey", From(Named("tunnel"), "ingress"))
Trusted == ("ledger.requireTrusted" :> TRUE) @@ ("ledger.trustedSpiffe" :> Website)
Production == TlsOn @@ Operator @@ Trusted @@ ("deploymentProfile" :> "production")
                 @@ ("authSecret" :> TRUE) @@ ("prometheusNamespace" :> {"monitoring"})
                 @@ ("upstreamStub" :> FALSE)
                 @@ Peers("ledger.trustedProxy", From(Named("clavenar-website"), "web"))

MCValues0 ==
    {Defaults, Merge(Defaults, Production),
     Merge(Defaults, TlsOn @@ Bundled @@ ("exec" :> TRUE) @@ ("prometheusNamespace" :> {"monitoring"}))}
    \cup {Merge(Defaults, TlsOn @@ o) :
            o \in {"workloadIdentity" :> FALSE, Operator, "assurance" :> FALSE,
                   Peers("simulator", From(Named("clavenar-simulator"), "demo")),
                   Bundled @@ Peers("nats.demoMint", From(Named("clavenar-demo-mint"), "demo"))}}

MCOverlays ==
    {TlsOn, Bundled, "networkPolicy" :> FALSE, "upstreamStub" :> FALSE,
     "prometheusNamespace" :> {"web"},
     Operator, Passkey, "assurance" :> FALSE, "workloadIdentity" :> FALSE,
     "console.operatorTrust" :> MCTlsSecret,
     Peers("console.demo", From(Named("traefik"), "ingress")),
     Peers("console.demo", NamespacePeer("ingress")),
     Peers("console.demo", [PodPeer(Named("traefik")) EXCEPT !.block = TRUE]),
     Trusted @@ Peers("ledger.trustedProxy", From(Named("clavenar-website"), "web")),
     Trusted @@ Peers("ledger.trustedProxy", PodPeer(Named("clavenar-website"))),
     Peers("nats.demoMint", From(Named("clavenar-demo-mint"), "demo")),
     Peers("simulator", From(Named("clavenar-simulator"), "demo")),
     Peers("simulator", From(Named("clavenar-simulator"), Home)),
     Peers("demoReset", PodPeer(Named("clavenar-demo-reset"))),
     Peers("demoReset", From(Named("clavenar-demo-reset"), "web"))}

----------------------------------------------------------------------------
(* Edits and pods. *)

E(kind, service, listener, token) ==
    [kind |-> kind, service |-> service, listener |-> listener, token |-> token]

MCMatrixEdits ==
    {E("admit", "ledger", "internal-mtls", "assurance"),
     E("admit", "nats", "monitor", "configured-nats-demo-mint-peers"),
     E("admit", "nats", "monitor", "any"),
     E("admit", "proxy", "health", "any"),
     E("admit", "ledger", "public-read", "configured-ledger-trusted-proxy-peers"),
     E("dropRule", "nats", "client", ""), E("dropRule", "brain", "application", ""),
     E("renumber", "assurance", "control-mtls", 8089),
     E("always", "ledger", "public-read", ""),
     E("move", "ledger", "internal-mtls", "public-read"),
     E("renumber", "ledger", "internal-mtls", 8184),
     E("unpublish", "proxy", "health", ""),
     E("trust", "proxy", "agent-mcp", ""),
     E("forget", "ledger", "public-read", ""),
     E("type", "proxy", "", "NodePort"),
     E("loosen", "vault", "api", "")}

InHome(labels) == [space |-> Home, labels |-> labels]
There(space, labels) == [space |-> space, labels |-> labels]

MCPods ==
    {InHome(WorkloadSelector(c)) :
        c \in {"proxy", "ledger", "console", "brain", "exec", "deep-review", "assurance",
               "simulator", "nats", "vault-bootstrap"}}
    \cup {InHome(WorkloadSelector("vault") \cup {VaultTestLabel}), InHome({VaultTestLabel}),
          InHome({}), InHome(Named("clavenar-website")), InHome(Named("clavenar-simulator")),
          InHome(Named("clavenar-demo-reset")), There("web", Named("clavenar-demo-reset")),
          There("web", Named("clavenar-website")), There("demo", Named("clavenar-demo-mint")),
          There("demo", Named("clavenar-simulator")), There("demo", {}),
          There("ingress", Named("traefik")), There("ingress", Named("tunnel")),
          There("ingress", {}),
          There("monitoring", {}), There("web", WorkloadSelector("proxy"))}
============================================================================

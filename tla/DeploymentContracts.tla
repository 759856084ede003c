------------------------- MODULE DeploymentContracts -------------------------
(***************************************************************************)
(* What check-listener-matrix.py demands of single Deployments: the        *)
(* profile, the generated workload capabilities, the ledger's trusted      *)
(* proxy, and the environment, ports, probes and key material of console,  *)
(* brain and assurance.                                                    *)
(*                                                                         *)
(* Abstractions as in ListenerServices.  The environment of a container is *)
(* a set of <<name, value>>, so that a variable listed twice with one      *)
(* value is one entry; entries with a constant value that nothing else     *)
(* depends on (bind addresses, rate limits, timeouts) are left out.  Of the *)
(* order of a pod's containers only the first one's name is kept.          *)
(* A URL is <<host, port>>.  "sealed" stands for mode, mount path, memory  *)
(* volume and read-only flag of a mount.  A workload's name lacks the      *)
(* release prefix.                                                         *)
(***************************************************************************)
EXTENDS ListenerServices, Sequences

CONSTANTS TlsSecret     \* tlsBundle.secretName, where it is set

Website == "spiffe://clavenar.local/service/website"

----------------------------------------------------------------------------
(* Deployments and their environment. *)

DeploymentsOf(docs, name) ==
    {w \in docs.workloads : w.name = name /\ w.kind = "Deployment"}

Main(w) == {c \in w.containers : c.field = "containers" /\ c.name = w.name}

\* containers[0]
First(w) == {c \in w.containers : c.field = "containers" /\ c.name = w.first}

Single(docs, name) ==
    /\ Cardinality(DeploymentsOf(docs, name)) = 1
    /\ \A w \in DeploymentsOf(docs, name) : Cardinality(Main(w)) = 1

\* A governed service renders one Deployment when enabled, and none otherwise.
Rendered(v, docs, name) ==
    IF v[name] THEN Single(docs, name) ELSE DeploymentsOf(docs, name) = {}

Env(c, name) == {e[2] : e \in {x \in c.env : x[1] = name}}
Governed(c, names) == {e \in c.env : e[1] \in names}
NamedPorts(c) == {<<p.name, p.port>> : p \in c.ports}

ServiceContainers == {"proxy", "brain", "policy-engine", "ledger", "hil",
                      "identity", "deep-review", "assurance", "console"}

\* validate_service_env_uniqueness
EnvUnique(docs) ==
    \A w \in {x \in docs.workloads : x.kind = "Deployment"} : \A c \in w.containers :
        c.name \in ServiceContainers /\ c.field = "containers" =>
            \A e, f \in c.env : e[1] = f[1] => e = f

\* With workload identities the SANs are bare service names, which the
\* ExternalName aliases lead to the release's Services.
Https(v, service, port) ==
    <<IF v["tls"] /\ v["workloadIdentity"] THEN <<service>> ELSE <<Release, service>>,
      port>>

\* Both probes on the diagnostics port, each with its own path.
ProbesOn(c, port) ==
    \A probe \in {<<"livenessProbe", "/health">>, <<"readinessProbe", "/readyz">>} :
        \E p \in c.probes : p = [kind |-> probe[1], path |-> probe[2],
                                 port |-> PortNumber(port)]

\* A Secret volume of a pod, with the keys it projects.
Mount(volume, secret, keys) ==
    [volume |-> volume, secret |-> secret, keys |-> keys, sealed |-> TRUE]

MountsAt(w, volume) == {m \in w.mounts : m.volume = volume}

CertMounts(v, service) ==
    IF v["tls"]
    THEN {Mount("certs", TlsSecret,
                {"ca.crt", "service-" \o service \o ".crt", "service-" \o service \o ".key"})}
    ELSE {}

----------------------------------------------------------------------------
(* validate_deployment_profile *)

ProductionProfile(v) ==
    /\ v["authSecret"]
    /\ v["networkPolicy"]
    /\ v["tls"] /\ ~v["tls.autoMint"]
    /\ v["console"] /\ v["console.operatorMtls.enabled"]
    /\ v["console.auth.mode"] = "operator-mtls"
    /\ v["console.operatorTrust"] \notin {"", TlsSecret}
    /\ v["ledger"] /\ v["ledger.requireTrusted"]

\* The ledger's trusted proxy: its identity and one peer, or neither.
TrustedProxyProfile(v) ==
    /\ v["ledger.trustedSpiffe"] \in {"", Website}
    /\ v["ledger.requireTrusted"] <=> v["ledger.trustedSpiffe"] # ""
    /\ v["ledger.requireTrusted"] => v["tls"]
    /\ v["ledger.requireTrusted"] <=> v["ledger.trustedProxy"] # {}
    /\ Cardinality(v["ledger.trustedProxy"]) <= 1

ProfileContract(v) ==
    /\ v["deploymentProfile"] \in {"evaluation", "production"}
    /\ v["ledger.ports"] = <<8083, 8183>>
    /\ TrustedProxyProfile(v)
    /\ v["deploymentProfile"] = "production" => ProductionProfile(v)

----------------------------------------------------------------------------
(* validate_workload_capability_contract *)

CapabilityServices == {"ledger", "policy-engine", "hil", "identity"}
CapabilityNames == {"CLAVENAR_WORKLOAD_CAPABILITY_BUNDLE",
                    "CLAVENAR_WORKLOAD_CAPABILITY_BUNDLE_SHA256",
                    "CLAVENAR_ENDPOINT_CAPABILITY_MATRIX_SHA256"}

\* A content-addressed name: the release and the digest of the bundle.
BundleName(bundle) == <<Release, bundle>>

CapabilityEnv(v, bundle) ==
    IF v["tls"]
    THEN {<<"CLAVENAR_WORKLOAD_CAPABILITY_BUNDLE", "/etc/clavenar">>,
          <<"CLAVENAR_WORKLOAD_CAPABILITY_BUNDLE_SHA256", bundle>>,
          <<"CLAVENAR_ENDPOINT_CAPABILITY_MATRIX_SHA256", bundle.matrix>>}
    ELSE {}

CapabilityMounts(v, bundle) == IF v["tls"] THEN {BundleName(bundle)} ELSE {}

\* Mutant of CapabilityContract: the digests of the environment are not compared.
CapabilityContractMounts(v, docs) ==
    /\ Cardinality(docs.bundles) = 1
    /\ \A b \in docs.bundles :
          /\ b.immutable
          /\ b.name = BundleName(b.bundle)
          /\ b.bundle.canonical
          /\ "service-website" \notin b.bundle.ledgerCallers
          /\ \A s \in {x \in CapabilityServices : v[x]} :
                /\ Single(docs, s)
                /\ \A w \in DeploymentsOf(docs, s) :
                      w.capabilities = CapabilityMounts(v, b.bundle)

CapabilityContract(v, docs) ==
    /\ Cardinality(docs.bundles) = 1
    /\ \A b \in docs.bundles :
          /\ b.immutable
          /\ b.name = BundleName(b.bundle)
          /\ b.bundle.canonical
          /\ "service-website" \notin b.bundle.ledgerCallers
          /\ \A s \in {x \in CapabilityServices : v[x]} :
                /\ Single(docs, s)
                /\ \A w \in DeploymentsOf(docs, s) :
                      /\ w.capabilities = CapabilityMounts(v, b.bundle)
                      /\ \A c \in Main(w) :
                            Governed(c, CapabilityNames) = CapabilityEnv(v, b.bundle)

----------------------------------------------------------------------------
(* validate_ledger_trusted_proxy_contract *)

LedgerEnv(v) ==
    {<<"CLAVENAR_LEDGER_REQUIRE_TRUSTED_PROXY",
       IF v["ledger.requireTrusted"] THEN "true" ELSE "false">>}
    \cup {<<"CLAVENAR_LEDGER_TRUSTED_PROXY_SPIFFE", s>> :
            s \in {v["ledger.trustedSpiffe"]} \ {""}}

TrustedRule(v, r) == r.port = 8183 /\ r.from = {v["ledger.trustedProxy"]}

\* Mutant of LedgerTrustedProxyContract: no search for the peers in other rules.
LedgerTrustedProxyContractOneRule(v, docs) ==
    v["ledger"] =>
        /\ Single(docs, "ledger")
        /\ \A w \in DeploymentsOf(docs, "ledger") : \A c \in Main(w) :
              Governed(c, {"CLAVENAR_LEDGER_REQUIRE_TRUSTED_PROXY",
                           "CLAVENAR_LEDGER_TRUSTED_PROXY_SPIFFE"}) = LedgerEnv(v)
        /\ v["ledger.trustedProxy"] # {} =>
              \A p \in {q \in docs.policies : q.name = "ledger"} :
                 Cardinality({r \in p.spec.ingress : TrustedRule(v, r)}) = 1

LedgerTrustedProxyContract(v, docs) ==
    v["ledger"] =>
        /\ Single(docs, "ledger")
        /\ \A w \in DeploymentsOf(docs, "ledger") : \A c \in Main(w) :
              Governed(c, {"CLAVENAR_LEDGER_REQUIRE_TRUSTED_PROXY",
                           "CLAVENAR_LEDGER_TRUSTED_PROXY_SPIFFE"}) = LedgerEnv(v)
        /\ v["ledger.trustedProxy"] # {} =>
              LET ledgers == {p \in docs.policies : p.name = "ledger"} IN
              /\ Cardinality(ledgers) = 1
              /\ \A p \in ledgers :
                    /\ Cardinality({r \in p.spec.ingress : TrustedRule(v, r)}) = 1
                    /\ \A r \in p.spec.ingress : \A S \in r.from :
                          TrustedRule(v, r) \/ S \cap v["ledger.trustedProxy"] = {}

----------------------------------------------------------------------------
(* validate_console_contract *)

PrimaryPort(v) ==
    CASE v["console.auth.mode"] = "operator-mtls" -> "operator-mtls"
      [] v["console.auth.mode"] = "webauthn" -> "passkey"
      [] v["console.auth.mode"] = "demo-only" -> "demo"
      [] OTHER -> "invalid"

\* The listener of the demo takes the name from a primary demo.
ConsolePorts(v) ==
    {<<"diagnostics", 9185>>}
    \cup (IF v["console.demo.enabled"] THEN {<<"demo", 9085>>} ELSE {})
    \cup {<<n, 8085>> : n \in {PrimaryPort(v)} \
            (IF v["console.demo.enabled"] THEN {"demo"} ELSE {})}

ConsoleNames == {"CLAVENAR_CONSOLE_AUTH", "CLAVENAR_CONSOLE_BRAIN_URL",
                 "CLAVENAR_CONSOLE_COOKIE_SECURE", "CLAVENAR_CONSOLE_MUTATION_ORIGINS",
                 "CLAVENAR_ASSURANCE_URL", "CLAVENAR_CONSOLE_OPERATOR_CLIENT_CA_PATH",
                 "CLAVENAR_CONSOLE_DEMO_ADDR", "CLAVENAR_CONSOLE_TLS_DIR"}

ConsoleEnv(v) ==
    LET operator == v["console.operatorMtls.enabled"]
        mode == v["console.auth.mode"]
        when(condition, entry) == IF condition THEN {entry} ELSE {} IN
    {<<"CLAVENAR_CONSOLE_AUTH", mode>>,
     <<"CLAVENAR_CONSOLE_BRAIN_URL", Https(v, "brain", 8081)>>}
    \cup when(mode = "webauthn", <<"CLAVENAR_CONSOLE_COOKIE_SECURE", "false">>)
    \cup when(mode # "demo-only",
              <<"CLAVENAR_CONSOLE_MUTATION_ORIGINS", v["console.mutationOrigins"]>>)
    \cup when(mode # "demo-only" /\ v["assurance"] /\ v["tls"],
              <<"CLAVENAR_ASSURANCE_URL", Https(v, "assurance", 8088)>>)
    \cup when(operator, <<"CLAVENAR_CONSOLE_OPERATOR_CLIENT_CA_PATH",
                          "/operator-trust/ca.crt">>)
    \cup when(operator /\ v["console.demo.enabled"],
              <<"CLAVENAR_CONSOLE_DEMO_ADDR", 9085>>)
    \cup when(v["tls"], <<"CLAVENAR_CONSOLE_TLS_DIR", "/certs">>)

OperatorTrust(v) ==
    IF v["console.operatorMtls.enabled"]
    THEN {Mount("operator-trust", v["console.operatorTrust"], {"ca.crt", "operators.json"})}
    ELSE {}

ConsoleContract(v, docs) ==
    /\ Rendered(v, docs, "console")
    /\ \A w \in DeploymentsOf(docs, "console") :
          /\ \A c \in Main(w) :
                /\ NamedPorts(c) = ConsolePorts(v)
                /\ Governed(c, ConsoleNames) = ConsoleEnv(v)
                /\ Env(c, "CLAVENAR_HIL_DECIDE_TOKEN") # {}
                      <=> v["console.operatorMtls.enabled"]
                /\ ProbesOn(c, 9185)
          /\ w.scrape = {9185}
          /\ MountsAt(w, "certs") = CertMounts(v, "console")
          /\ MountsAt(w, "operator-trust") = OperatorTrust(v)

----------------------------------------------------------------------------
(* validate_brain_auxiliary_contract *)

BrainNames == {"CLAVENAR_BRAIN_REQUIRE_AUX_CONTROLS", "CLAVENAR_BRAIN_EXPLAIN_CALLER_SPIFFE",
               "CLAVENAR_BRAIN_NARRATE_CALLER_SPIFFE", "CLAVENAR_BRAIN_TLS_DIR",
               "CLAVENAR_BRAIN_ALLOWED_CALLERS", "CLAVENAR_BRAIN_PLAIN_ADDR"}

BrainEnv(v) ==
    {<<"CLAVENAR_BRAIN_REQUIRE_AUX_CONTROLS", "true">>,
     <<"CLAVENAR_BRAIN_EXPLAIN_CALLER_SPIFFE", v["brain.explainCaller"]>>,
     <<"CLAVENAR_BRAIN_NARRATE_CALLER_SPIFFE", v["brain.narrateCaller"]>>}
    \cup IF v["tls"] THEN {<<"CLAVENAR_BRAIN_TLS_DIR", "/certs">>,
                           <<"CLAVENAR_BRAIN_ALLOWED_CALLERS", "proxy">>}
                     ELSE {}

\* The two clients of brain, with what their first containers must know of it.
BrainClients == {"policy-engine", "console"}

BrainClientEnv(v, client) ==
    IF client = "console" THEN {<<"CLAVENAR_CONSOLE_BRAIN_URL", Https(v, "brain", 8081)>>}
    ELSE {<<"CLAVENAR_POLICY_ENGINE_BRAIN_URL", Https(v, "brain", 8081)>>,
          <<"CLAVENAR_POLICY_EXPECTED_PEER_SPIFFE", "identity,brain">>}

\* Mutant of BrainClientsMatch: the variables are there, whatever they say.
BrainClientsMatchNames(v, docs) ==
    \A client \in BrainClients : \A w \in DeploymentsOf(docs, client) : \A c \in First(w) :
        {e[1] : e \in BrainClientEnv(v, client)} \subseteq {e[1] : e \in c.env}

BrainClientsMatch(v, docs) ==
    \A client \in BrainClients : \A w \in DeploymentsOf(docs, client) : \A c \in First(w) :
        Governed(c, {e[1] : e \in BrainClientEnv(v, client)}) = BrainClientEnv(v, client)

BrainContract(v, docs) ==
    /\ Rendered(v, docs, "brain")
    /\ \A w \in DeploymentsOf(docs, "brain") :
          /\ \A c \in Main(w) :
                /\ NamedPorts(c) = {<<"http", 8081>>, <<"health", 9081>>}
                /\ Governed(c, BrainNames) = BrainEnv(v)
                /\ ProbesOn(c, 9081)
          /\ w.scrape = {9081}
    /\ v["brain"] => BrainClientsMatch(v, docs)

----------------------------------------------------------------------------
(* validate_assurance_contract *)

AssuranceNames == {"CLAVENAR_ASSURANCE_ADMIN_PORT", "CLAVENAR_ASSURANCE_ALLOWED_CALLERS",
                   "CLAVENAR_ASSURANCE_TLS_DIR"}

AssuranceEnv ==
    {<<"CLAVENAR_ASSURANCE_ADMIN_PORT", 8088>>,
     <<"CLAVENAR_ASSURANCE_ALLOWED_CALLERS", "console">>,
     <<"CLAVENAR_ASSURANCE_TLS_DIR", "/certs">>}

AssuranceContract(v, docs) ==
    /\ Rendered(v, docs, "assurance")
    /\ \A w \in DeploymentsOf(docs, "assurance") :
          /\ \A c \in Main(w) :
                /\ NamedPorts(c) = {<<"control-mtls", 8088>>, <<"diagnostics", 9088>>}
                /\ Governed(c, AssuranceNames) = AssuranceEnv
                /\ ProbesOn(c, 9088)
          /\ w.scrape = {}
          /\ MountsAt(w, "certs") = CertMounts(v, "assurance")

----------------------------------------------------------------------------
(* What the application does with a URL (cluster DNS). *)

\* The Service a host name leads to, across an ExternalName.
ServicesAt(docs, host) ==
    LET named == {s \in docs.services : s.name = host} IN
    {s \in named : s.type # "ExternalName"}
    \cup {s \in docs.services : \E n \in named :
            n.type = "ExternalName" /\ n.external = {s.name \o <<Home>>}}

\* The <<workload, container port>> pairs a connection to it may end at.
Backends(docs, url) ==
    UNION {UNION {Endpoints(docs, s, p) : p \in {q \in s.ports : q.port = url[2]}} :
            s \in ServicesAt(docs, url[1])}
=============================================================================

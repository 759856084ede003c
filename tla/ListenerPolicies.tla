--------------------------- MODULE ListenerPolicies ---------------------------
(***************************************************************************)
(* The network policies of the listener matrix: how check-listener-matrix  *)
(* .py reads the values and listeners.yaml, the policies it expects, what  *)
(* it demands of the peers an operator configures, and what a cluster      *)
(* does with policies once they are rendered.                              *)
(*                                                                         *)
(* Abstractions.  Values are a function of their paths.  A condition is    *)
(* the set of its terms.  Labels are sets of <<key, value>>.  A field that *)
(* may be missing is a set of at most one element.  Lists whose order has  *)
(* no effect in a cluster are sets.  A digest is what it is the digest of. *)
(***************************************************************************)
EXTENDS Naturals, FiniteSets

CONSTANTS
    Home,       \* the namespace of the release
    Release     \* its name

----------------------------------------------------------------------------
(* Values and conditions. *)

\* merge: an overlay replaces the paths it names.
Merge(values, overlay) ==
    [p \in DOMAIN values |->
        IF p \in DOMAIN overlay THEN overlay[p] ELSE values[p]]

PeerPaths == {"console.operatorMtls", "console.passkey", "console.demo",
              "ledger.trustedProxy", "nats.demoMint", "simulator", "demoReset"}

Truthy(v, path) ==
    IF path \in PeerPaths \cup {"prometheusNamespace"} THEN v[path] # {}
                                                      ELSE v[path]

\* condition_enabled: every term "path" or "path=expected" holds.
ConditionEnabled(expression, v) ==
    \A t \in expression :
        IF t.is = {} THEN Truthy(v, t.path) ELSE v[t.path] \in t.is

\* contract_enabled; disabledWhen is a set of at most one condition.
ContractEnabled(item, v) ==
    /\ ConditionEnabled(item.enabledWhen, v)
    /\ \A e \in item.disabledWhen : ~ConditionEnabled(e, v)

----------------------------------------------------------------------------
(* Selectors. *)

Component(name, key, value) ==
    {<<"app.kubernetes.io/name", name>>,
     <<"app.kubernetes.io/instance", Release>>, <<key, value>>}

WorkloadSelector(service) ==
    CASE service = "nats" -> Component("nats", "app.kubernetes.io/component", "nats")
      [] service = "vault" -> Component("vault", "component", "server")
      [] OTHER -> Component("clavenar", "app.kubernetes.io/component", service)

MatchLabels(labels) == [labels |-> labels, expressions |-> {}]
Namespace(n) == MatchLabels({<<"kubernetes.io/metadata.name", n>>})

\* A peer of a rule: a pod selector, a namespace selector, both, or an
\* address block.
PodPeer(labels) == [pods |-> {MatchLabels(labels)}, spaces |-> {}, block |-> FALSE]
NamespacePeer(n) == [pods |-> {}, spaces |-> {Namespace(n)}, block |-> FALSE]

\* pod_selector_matches: an operator it does not know matches nothing.
PodSelectorMatches(sel, labels) ==
    /\ sel.labels \subseteq labels
    /\ \A e \in sel.expressions :
          LET has == \E l \in labels : l[1] = e.key IN
          \/ e.operator = "DoesNotExist" /\ ~has
          \/ e.operator = "Exists" /\ has

----------------------------------------------------------------------------
(* expected_policies. *)

ConfiguredPath(token) ==
    CASE token = "configured-console-operator-peers" -> {"console.operatorMtls"}
      [] token = "configured-console-passkey-peers" -> {"console.passkey"}
      [] token = "configured-console-demo-peers" -> {"console.demo"}
      [] token = "configured-ledger-trusted-proxy-peers" -> {"ledger.trustedProxy"}
      [] token = "configured-nats-demo-mint-peers" -> {"nats.demoMint"}
      [] token = "configured-demo-reset-peers" -> {"demoReset"}
      [] OTHER -> {}

\* The peers one token stands for in the policy of a service.
Sources(m, v, service, token) ==
    CASE token = "prometheus" -> {NamespacePeer(n) : n \in v["prometheusNamespace"]}
      [] ConfiguredPath(token) # {} -> UNION {v[p] : p \in ConfiguredPath(token)}
      [] token = "simulator" /\ v["simulator"] # {} -> v["simulator"]
      [] token = "vault" -> {PodPeer(WorkloadSelector(service))}
      [] OTHER -> IF token \in DOMAIN m.peerSelectors THEN {m.peerSelectors[token]}
                  ELSE {PodPeer(Component("clavenar", "app.kubernetes.io/component", token))}

\* from is missing for "any".
ExpectedRule(m, v, service, r) ==
    LET listener == CHOOSE l \in m.listeners : l.service = service /\ l.id = r.listener IN
    [port |-> listener.containerPort,
     from |-> IF "any" \in r.peers THEN {}
              ELSE {UNION {Sources(m, v, service, t) : t \in r.peers}}]

ExpectedEgress(r) ==
    [to |-> {IF t = "cluster-dns" THEN NamespacePeer("kube-system")
             ELSE PodPeer(Component("clavenar", "app.kubernetes.io/component", t)) :
             t \in r.peers},
     ports |-> r.ports]

EnabledContracts(m, v) == {c \in m.policies : ContractEnabled(c, v)}
EnabledRules(c, v) == {r \in c.rules : ContractEnabled(r, v)}

ExpectedPolicies(m, v) ==
    IF ~v["networkPolicy"] THEN {}
    ELSE {[name |-> c.service, target |-> WorkloadSelector(c.service),
           ingress |-> {ExpectedRule(m, v, c.service, r) : r \in EnabledRules(c, v)},
           egress |-> {ExpectedEgress(r) : r \in c.egress}] :
          c \in EnabledContracts(m, v)}

\* Where expected_policies raises ValueError.
PoliciesUndefined(m, v) ==
    v["networkPolicy"] /\ \E c \in EnabledContracts(m, v) : \E r \in EnabledRules(c, v) :
        \/ ~\E l \in m.listeners : l.service = c.service /\ l.id = r.listener
        \/ "any" \in r.peers /\ r.peers # {"any"}
        \/ "prometheus" \in r.peers /\ v["prometheusNamespace"] = {}

----------------------------------------------------------------------------
(* The peers an operator configures. *)

\* validate_exact_positive_peers
ExactPositive(p) ==
    /\ ~p.block
    /\ p.pods # {}
    /\ \A s \in p.pods \cup p.spaces : s.labels # {} /\ s.expressions = {}

SelectsPods(p, app) ==
    \E s \in p.pods : <<"app.kubernetes.io/name", app>> \in s.labels

SelectedSpaces(p) ==
    {l[2] : l \in {x \in UNION {s.labels : s \in p.spaces} :
                   x[1] = "kubernetes.io/metadata.name"}}

\* Mutant of ForeignPeer: the namespace of the release is not excluded.
ForeignPeerAnywhere(v, p, app) ==
    /\ SelectsPods(p, app)
    /\ SelectedSpaces(p) # {}
    /\ SelectedSpaces(p) \cap v["prometheusNamespace"] = {}

\* One named application in one other namespace, which is not Prometheus'.
ForeignPeer(v, p, app) ==
    /\ SelectsPods(p, app)
    /\ SelectedSpaces(p) # {}
    /\ SelectedSpaces(p) \cap ({Home} \cup v["prometheusNamespace"]) = {}

LedgerTrustedProxyPeer(v) ==
    \A p \in v["ledger.trustedProxy"] : ForeignPeer(v, p, "clavenar-website")

NatsDemoMintPeer(v) ==
    /\ v["nats.demoMint"] # {} => v["networkPolicy"] /\ v["nats"]
    /\ Cardinality(v["nats.demoMint"]) <= 1
    /\ \A p \in v["nats.demoMint"] : ForeignPeer(v, p, "clavenar-demo-mint")

SimulatorPeer(v) ==
    /\ v["simulator"] # {} => v["networkPolicy"] /\ v["tls"]
    /\ Cardinality(v["simulator"]) <= 1
    /\ \A p \in v["simulator"] : ForeignPeer(v, p, "clavenar-simulator")

DemoResetPeer(v) ==
    /\ v["demoReset"] # {} => v["networkPolicy"] /\ v["tls"]
    /\ Cardinality(v["demoReset"]) <= 1
    /\ \A p \in v["demoReset"] : p.spaces = {} /\ SelectsPods(p, "clavenar-demo-reset")

ConfiguredPeers(v) ==
    /\ \A path \in PeerPaths : \A p \in v[path] : ExactPositive(p)
    /\ LedgerTrustedProxyPeer(v)
    /\ NatsDemoMintPeer(v)
    /\ SimulatorPeer(v)
    /\ DemoResetPeer(v)

----------------------------------------------------------------------------
(* validate, on the policies. *)

\* The policy section agrees with the listeners; the demo-reset Job counts
\* as the console.
AllowedByContracts(m, l) ==
    UNION {{IF t = "configured-demo-reset-peers" THEN "console" ELSE t : t \in r.peers} :
            r \in UNION {{x \in c.rules : c.service = l.service /\ x.listener = l.id} :
                          c \in m.policies}}

PolicyContracts(m) ==
    /\ \A c, d \in m.policies : c.service = d.service => c = d
    /\ \A c \in m.policies : c.owner \in m.ownership
    /\ \A c \in m.policies : \A r \in c.rules :
          \E l \in m.listeners : l.service = c.service /\ l.id = r.listener
    /\ \A l \in m.listeners :
          /\ l.allowed = AllowedByContracts(m, l)
          /\ l.allowed \ {"any"} \subseteq l.authorized
          /\ "any" \in l.allowed => l.authenticated

\* The rendered policies are the expected ones, each of them with the digest
\* of the matrix and a workload it selects.
PoliciesMatch(m, v, docs) ==
    /\ \A p, q \in docs.policies : p.name = q.name => p = q
    /\ ~PoliciesUndefined(m, v)
    /\ {p.spec : p \in docs.policies} = ExpectedPolicies(m, v)
    /\ \A p \in docs.policies :
          /\ p.name = p.spec.name
          /\ p.digest = m
          /\ \E w \in docs.workloads : p.spec.target \subseteq w.labels

\* validate_vault_test_hook: the Pod of `helm test` has its own label only,
\* and the selector that admits it does not admit the server.
VaultTestHook(m, v, docs) ==
    IF ~v["vault"] THEN docs.vaultTests = {}
    ELSE /\ Cardinality(docs.vaultTests) = 1
         /\ \A t \in docs.vaultTests :
               /\ t.labels = {<<"clavenar.io/network-client", "vault-server-test">>}
               /\ t.hook /\ t.address = <<Release, Home, 8200>>
               /\ \E s \in m.peerSelectors["vault-server-test"].pods :
                     /\ PodSelectorMatches(s, t.labels)
                     /\ LET servers == {w \in docs.workloads :
                                        w.name = "vault" /\ w.kind = "StatefulSet"} IN
                        /\ Cardinality(servers) = 1
                        /\ \A w \in servers : ~PodSelectorMatches(s, w.labels)
         /\ \E p \in ExpectedPolicies(m, v) : p.name = "vault" /\ \E r \in p.ingress :
               r.port = 8200 /\ \E S \in r.from : m.peerSelectors["vault-server-test"] \in S

----------------------------------------------------------------------------
(* What a cluster does with the policies (Kubernetes). *)

Admits(p, pod) ==
    \/ p.block
    \/ /\ IF p.spaces = {} THEN pod.space = Home
          ELSE \A s \in p.spaces :
                  PodSelectorMatches(s, {<<"kubernetes.io/metadata.name", pod.space>>})
       /\ \A s \in p.pods : PodSelectorMatches(s, pod.labels)

\* A rule without "from", or with an empty one, admits every source.
RuleAdmits(r, pod) ==
    r.from \in {{}, {{}}} \/ \E S \in r.from : \E p \in S : Admits(p, pod)

PoliciesOn(docs, labels) == {p \in docs.policies : p.spec.target \subseteq labels}

\* A pod no policy selects is open; policies that select it add up.
Reaches(docs, pod, labels, port) ==
    \/ PoliciesOn(docs, labels) = {}
    \/ \E p \in PoliciesOn(docs, labels) : \E r \in p.spec.ingress :
          r.port = port /\ RuleAdmits(r, pod)
=============================================================================

--------------------------- MODULE ListenerServices ---------------------------
(***************************************************************************)
(* The Services and the listening workloads of the listener matrix: the    *)
(* Service objects check-listener-matrix.py expects, and what it demands   *)
(* of rendered Services, containers, probes and host publication.          *)
(*                                                                         *)
(* Abstractions as in ListenerPolicies.  A reference to a port, by name or *)
(* by number, is a record with the one that is used.  The documents of a   *)
(* manifest are its Services, its workloads (Deployment, StatefulSet,      *)
(* DaemonSet), its other pods (Pod, Job, CronJob), its network policies    *)
(* and the Pod of `helm test`.                                             *)
(***************************************************************************)
EXTENDS ListenerPolicies

PortNumber(n) == [number |-> {n}, name |-> {}]
PortName(n) == [number |-> {}, name |-> {n}]

----------------------------------------------------------------------------
(* expected_services. *)

\* The ports a Service object publishes under the values.
EnabledPorts(o, v) ==
    {p \in o.ports \cup (IF v["tls"] THEN o.tlsPorts ELSE {}) : ContractEnabled(p, v)}

ExpectedPort(p, v) ==
    [name |-> p.name, port |-> p.port, target |-> p.target,
     app |-> IF p.app = {"tlsWhenTlsElseTcp"}
             THEN IF v["tls"] THEN {"tls"} ELSE {"tcp"}
             ELSE p.app]

ServiceSelector(o) ==
    CASE o.selectorOwner = "none" -> {}
      [] o.selectorOwner \in {"nats", "vault"} -> {WorkloadSelector(o.selectorOwner)}
      [] OTHER -> {Component("clavenar", "app.kubernetes.io/component", o.id)}

EnabledObjects(m, v) == {o \in m.objects : ConditionEnabled(o.enabledWhen, v)}

ExpectedService(o, v) ==
    [name |-> o.name, type |-> o.type, selector |-> ServiceSelector(o),
     ports |-> {ExpectedPort(p, v) : p \in EnabledPorts(o, v)},
     headless |-> o.headless,
     notReady |-> \E e \in o.notReadyWhen : ConditionEnabled(e, v),
     external |-> o.external]

ExpectedServices(m, v) == {ExpectedService(o, v) : o \in EnabledObjects(m, v)}

ServicesUndefined(m, v) ==
    \E o, p \in EnabledObjects(m, v) : o # p /\ o.name = p.name

----------------------------------------------------------------------------
(* validate, on the matrix, the Services and what they publish. *)

ListenerInventory(m) ==
    /\ \A k, l \in m.listeners : k.service = l.service /\ k.id = l.id => k = l
    /\ \A l \in m.listeners : l.owner \in m.ownership /\ l.missing = {}

ObjectInventory(m) ==
    /\ \A o, p \in m.objects : o.id = p.id => o = p
    /\ \A o \in m.objects :
          /\ o.selectorOwner \in {"core", "none", "nats", "vault"}
          /\ o.type \in {"ClusterIP", "ExternalName"}

ActiveListeners(m, v) == {l \in m.listeners : ContractEnabled(l, v)}

AliasOf(id) ==
    CASE id = "proxy-alias" -> "proxy" [] id = "ledger-alias" -> "ledger"
      [] id = "brain-alias" -> "brain" [] id = "assurance-alias" -> "assurance"
      [] id = "policy-engine-alias" -> "policy-engine"
      [] id = "identity-alias" -> "identity" [] id = "hil-alias" -> "hil"
      [] id = "nats-headless" -> "nats" [] id = "vault-internal" -> "vault"
      [] OTHER -> id

\* Published listeners and the ports of Service objects are the same.
PublicationsMatch(m, v) ==
    {<<l.service, l.servicePort>> : l \in {x \in ActiveListeners(m, v) : x.published}}
        = UNION {{<<AliasOf(o.id), p.port>> : p \in EnabledPorts(o, v)} :
                  o \in EnabledObjects(m, v)}

ServicesMatch(m, v, docs) ==
    /\ \A s, t \in docs.services : s.name = t.name => s = t
    /\ ~ServicesUndefined(m, v)
    /\ docs.services = ExpectedServices(m, v)
    /\ \A s \in docs.services : s.type \notin {"LoadBalancer", "NodePort"}

----------------------------------------------------------------------------
(* validate, on the workloads. *)

NoHostPublication(docs) ==
    \A w \in docs.workloads \cup docs.others :
        /\ ~w.hostNetwork
        /\ \A c \in w.containers : \A p \in c.ports : ~p.host

\* Every container port of a workload, init containers included, with the
\* container that declares it.
ExposedPorts(w) ==
    UNION {{<<w.name, c.name, p.name, p.port>> : p \in c.ports} : c \in w.containers}

MatchingServices(m, v, w) ==
    {s \in {l.service : l \in ActiveListeners(m, v)} : WorkloadSelector(s) \subseteq w.labels}

Resolved(c, ref) ==
    ref.number \cup {p.port : p \in {x \in c.ports : x.name \in ref.name}}

\* The kubelet probes a port with an active listener that authorizes it.
ProbesGoverned(m, v, w, service) ==
    \A c \in {x \in w.containers : x.field = "containers"} : \A probe \in c.probes :
        \E n \in Resolved(c, probe.port) : \E l \in ActiveListeners(m, v) :
            l.service = service /\ l.containerPort = n /\ "kubelet" \in l.authorized

\* Mutant of PortsAreListeners: counted per service, without the numbers.
PortsAreListenersCounted(m, v, docs) ==
    \A s \in {l.service : l \in ActiveListeners(m, v)} :
        Cardinality(UNION {ExposedPorts(w) : w \in {x \in docs.workloads :
                                          WorkloadSelector(s) \subseteq x.labels}})
            = Cardinality({l \in ActiveListeners(m, v) : l.service = s})

\* Per service and number, as many container ports as active listeners.
PortsAreListeners(m, v, docs) ==
    \A s \in {l.service : l \in ActiveListeners(m, v)} :
        LET rendered == UNION {ExposedPorts(w) : w \in {x \in docs.workloads :
                                          WorkloadSelector(s) \subseteq x.labels}}
            governed == {l \in ActiveListeners(m, v) : l.service = s} IN
        \A n \in {p[4] : p \in rendered} \cup {l.containerPort : l \in governed} :
            Cardinality({p \in rendered : p[4] = n})
                = Cardinality({l \in governed : l.containerPort = n})

WorkloadsMatch(m, v, docs) ==
    /\ NoHostPublication(docs)
    /\ \A w \in docs.workloads :
          /\ ExposedPorts(w) # {} => MatchingServices(m, v, w) # {}
          /\ Cardinality(MatchingServices(m, v, w)) <= 1
          /\ \A s \in MatchingServices(m, v, w) : ProbesGoverned(m, v, w, s)
    /\ PortsAreListeners(m, v, docs)

----------------------------------------------------------------------------
(* What a cluster does with a Service (Kubernetes). *)

\* The <<workload, container port>> pairs a Service port leads to.
Endpoints(docs, s, p) ==
    UNION {{<<w, n>> : n \in p.target.number
                \cup UNION {Resolved(c, p.target) : c \in w.containers}} :
            w \in {x \in docs.workloads : \E sel \in s.selector : sel \subseteq x.labels}}
============================================================================

------------------------- MODULE ListenerMatrix_proofs -------------------------
(***************************************************************************)
(* What an accepted manifest promises, for any matrix, workloads, values   *)
(* and edits: who reaches a port, what the website reaches, and that the   *)
(* capability services start.                                              *)
(***************************************************************************)
EXTENDS ListenerMatrix, FiniteSetTheorems, TLAPS

(***************************************************************************)
(* The invariant.                                                          *)
(***************************************************************************)
\* A verdict is about the files and values as they are.
PassedValid == passed => Validate(matrix, reviewed, values, docs)

TemplatesInv ==
    \E R, D : D \in Deployments /\ templates = [rules |-> R, deployed |-> D]

DocsInv ==
    /\ IsFiniteSet(UNION {ExposedPorts(w) : w \in docs.workloads})
    /\ \A w \in docs.workloads : w.name \in OwnServices => OwnComponent(w)

ValuesInv == ConsolePaths \subseteq DOMAIN values /\ ConsoleApart(values)

IInv == PassedValid /\ Standing(matrix) /\ TemplatesInv /\ DocsInv /\ ValuesInv

\* What a function makes of a finite set is finite.
LEMMA FiniteImage ==
  ASSUME NEW f, IsFiniteSet(DOMAIN f)
  PROVE  IsFiniteSet({f[x] : x \in DOMAIN f})
<1> DEFINE g == [x \in DOMAIN f |-> f[x]]
<1>1. g \in Surjection(DOMAIN f, {f[x] : x \in DOMAIN f})
  BY DEF Surjection
<1> HIDE DEF g
<1> QED  BY <1>1, FS_Surjection

\* An edit leaves the standing parts of the matrix.
LEMMA EditStands ==
  ASSUME NEW m, Standing(m), NEW e
  PROVE  Standing(Edited(e, m))
<1> DEFINE n == Edited(e, m)
<1>1. DOMAIN n = DOMAIN m
  BY DEF Edited
<1>2. n.listeners = {IF l.service = e.service /\ l.id = e.listener
                     THEN EditedListener(e, l) ELSE l : l \in m.listeners}
  BY DEF Edited, Standing
<1>3. n.policies = {IF c.service = e.service
                    THEN [c EXCEPT !.rules = EditedRules(e, @)] ELSE c : c \in m.policies}
  BY DEF Edited, Standing
<1>4. n.peerSelectors = IF e.kind = "loosen"
                        THEN [t \in DOMAIN m.peerSelectors |-> Loosened(m.peerSelectors[t])]
                        ELSE m.peerSelectors
  BY DEF Edited, Standing
<1>5. ASSUME NEW k \in n.listeners
      PROVE  /\ {"service", "enabledWhen"} \subseteq DOMAIN k
             /\ k.service \in CapabilityServices =>
                   [path |-> k.service, is |-> {}] \in k.enabledWhen
  <2>1. PICK l \in m.listeners : k = l \/ k = EditedListener(e, l)
    BY <1>2
  <2>2. /\ DOMAIN l \subseteq DOMAIN EditedListener(e, l)
        /\ {"service", "enabledWhen"} \subseteq DOMAIN l
    BY DEF Standing, EditedListener
  <2>3. k.service = l.service /\ k.enabledWhen = l.enabledWhen
    BY <2>1, <2>2 DEF EditedListener
  <2> QED  BY <2>1, <2>2, <2>3 DEF Standing
<1>6. \E c \in n.policies :
        /\ {"service", "enabledWhen", "disabledWhen"} \subseteq DOMAIN c
        /\ c.service = "ledger" /\ c.disabledWhen = {}
        /\ c.enabledWhen \subseteq {[path |-> "ledger", is |-> {}]}
  <2>1. PICK c \in m.policies :
          /\ {"service", "enabledWhen", "disabledWhen"} \subseteq DOMAIN c
          /\ c.service = "ledger" /\ c.disabledWhen = {}
          /\ c.enabledWhen \subseteq {[path |-> "ledger", is |-> {}]}
    BY DEF Standing
  <2> DEFINE d == IF c.service = e.service
                  THEN [c EXCEPT !.rules = EditedRules(e, @)] ELSE c
  <2>2. /\ DOMAIN d = DOMAIN c
        /\ d.service = c.service /\ d.enabledWhen = c.enabledWhen
        /\ d.disabledWhen = c.disabledWhen
    BY <2>1
  <2>3. d \in n.policies
    BY <1>3
  <2> QED  BY <2>1, <2>2, <2>3
<1>7. \A t \in DOMAIN n.peerSelectors :
        /\ {"spaces", "block"} \subseteq DOMAIN n.peerSelectors[t]
        /\ n.peerSelectors[t].spaces = {} /\ ~n.peerSelectors[t].block
  <2>1. CASE e.kind # "loosen"
    BY <1>4, <2>1 DEF Standing
  <2>2. ASSUME e.kind = "loosen", NEW t \in DOMAIN n.peerSelectors
        PROVE  /\ {"spaces", "block"} \subseteq DOMAIN n.peerSelectors[t]
               /\ n.peerSelectors[t].spaces = {} /\ ~n.peerSelectors[t].block
    <3>1. t \in DOMAIN m.peerSelectors /\ n.peerSelectors[t] = Loosened(m.peerSelectors[t])
      BY <1>4, <2>2
    <3>2. /\ {"spaces", "block"} \subseteq DOMAIN m.peerSelectors[t]
          /\ m.peerSelectors[t].spaces = {} /\ ~m.peerSelectors[t].block
      BY <3>1 DEF Standing
    <3> QED  BY <3>1, <3>2 DEF Loosened
  <2> QED  BY <2>1, <2>2
<1>8. {"listeners", "policies", "peerSelectors"} \subseteq DOMAIN n
  BY <1>1 DEF Standing
<1>9. IsFiniteSet(n.listeners)
  <2> DEFINE f == [l \in m.listeners |-> IF l.service = e.service /\ l.id = e.listener
                                        THEN EditedListener(e, l) ELSE l]
  <2>1. n.listeners = {f[x] : x \in DOMAIN f}
    BY <1>2
  <2>2. DOMAIN f = m.listeners
    OBVIOUS
  <2> HIDE DEF f
  <2> QED  BY <2>1, <2>2, FiniteImage DEF Standing
<1> HIDE DEF n
<1>10. Standing(n)
  BY <1>5, <1>6, <1>7, <1>8, <1>9 DEF Standing
<1> QED  BY <1>10 DEF n

LEMMA DeclaredStands ==
  ASSUME NEW m, Standing(m)
  PROVE  Standing(Declared(m))
<1> DEFINE n == Declared(m)
<1>1. DOMAIN n = DOMAIN m /\ n.policies = m.policies /\ n.peerSelectors = m.peerSelectors
  BY DEF Declared, Standing
<1>2. n.listeners =
        {[l EXCEPT !.allowed = AllowedByContracts(m, l),
                   !.authorized = @ \cup (AllowedByContracts(m, l) \ {"any"})] :
            l \in m.listeners}
  BY DEF Declared, Standing
<1>3. ASSUME NEW k \in n.listeners
      PROVE  /\ {"service", "enabledWhen"} \subseteq DOMAIN k
             /\ k.service \in CapabilityServices =>
                   [path |-> k.service, is |-> {}] \in k.enabledWhen
  <2>1. PICK l \in m.listeners :
          k = [l EXCEPT !.allowed = AllowedByContracts(m, l),
                        !.authorized = @ \cup (AllowedByContracts(m, l) \ {"any"})]
    BY <1>2
  <2>2. {"service", "enabledWhen"} \subseteq DOMAIN l
    BY DEF Standing
  <2>3. DOMAIN k = DOMAIN l /\ k.service = l.service /\ k.enabledWhen = l.enabledWhen
    BY <2>1, <2>2
  <2> QED  BY <2>2, <2>3 DEF Standing
<1>4. IsFiniteSet(n.listeners)
  <2> DEFINE f == [l \in m.listeners |->
                     [l EXCEPT !.allowed = AllowedByContracts(m, l),
                               !.authorized = @ \cup (AllowedByContracts(m, l) \ {"any"})]]
  <2>1. n.listeners = {f[x] : x \in DOMAIN f}
    BY <1>2
  <2>2. DOMAIN f = m.listeners
    OBVIOUS
  <2> HIDE DEF f
  <2> QED  BY <2>1, <2>2, FiniteImage DEF Standing
<1> HIDE DEF n
<1>5. Standing(n)
  BY <1>1, <1>3, <1>4 DEF Standing
<1> QED  BY <1>5 DEF n

\* What helm template writes are the deployed workloads.
LEMMA RenderPorts ==
  ASSUME NEW t, NEW v, NEW pod
  PROVE  ExposedPorts(RenderedPod(t, v, pod)) = ExposedPorts(pod)
<1> DEFINE w == RenderedPod(t, v, pod)
<1>1. /\ w.name = pod.name
      /\ w.containers = {[name |-> c.name, field |-> c.field, ports |-> c.ports,
                          probes |-> c.probes, env |-> Drifted(t, v, c.name)] :
                            c \in pod.containers}
  BY DEF RenderedPod
<1> HIDE DEF w
<1>2. ASSUME NEW c \in w.containers
      PROVE  \E x \in pod.containers : c.name = x.name /\ c.ports = x.ports
  BY <1>1
<1>3. ASSUME NEW x \in pod.containers
      PROVE  \E c \in w.containers : c.name = x.name /\ c.ports = x.ports
  <2> DEFINE c == [name |-> x.name, field |-> x.field, ports |-> x.ports,
                   probes |-> x.probes, env |-> Drifted(t, v, x.name)]
  <2>1. c \in w.containers
    BY <1>1
  <2>2. c.name = x.name /\ c.ports = x.ports
    OBVIOUS
  <2> HIDE DEF c
  <2> QED  BY <2>1, <2>2
<1> QED
  <2>1. ASSUME NEW e \in ExposedPorts(w) PROVE e \in ExposedPorts(pod)
    <3>1. PICK c \in w.containers : e \in {<<w.name, c.name, p.name, p.port>> : p \in c.ports}
      BY DEF ExposedPorts
    <3>2. PICK x \in pod.containers : c.name = x.name /\ c.ports = x.ports
      BY <1>2
    <3> QED  BY <1>1, <3>1, <3>2 DEF ExposedPorts
  <2>2. ASSUME NEW e \in ExposedPorts(pod) PROVE e \in ExposedPorts(w)
    <3>1. PICK x \in pod.containers :
            e \in {<<pod.name, x.name, p.name, p.port>> : p \in x.ports}
      BY DEF ExposedPorts
    <3>2. PICK c \in w.containers : c.name = x.name /\ c.ports = x.ports
      BY <1>3
    <3> QED  BY <1>1, <3>1, <3>2 DEF ExposedPorts
  <2> QED  BY <2>1, <2>2 DEF w

LEMMA RenderOwn ==
  ASSUME NEW R, NEW D \in Deployments, NEW m, NEW v
  PROVE  LET d == Render([rules |-> R, deployed |-> D], m, v)
         IN  /\ IsFiniteSet(UNION {ExposedPorts(w) : w \in d.workloads})
             /\ \A w \in d.workloads : w.name \in OwnServices => OwnComponent(w)
<1> DEFINE t == [rules |-> R, deployed |-> D]
           W == Render(t, m, v).workloads
<1>1. ASSUME NEW w \in W
      PROVE  \E x \in D.workloads :
                /\ w.name = x.pod.name /\ w.labels = x.pod.labels
                /\ ExposedPorts(w) = ExposedPorts(x.pod)
  <2>1. PICK x \in D.workloads : w = RenderedPod(t, v, x.pod)
    BY DEF Render
  <2>2. w.name = x.pod.name /\ w.labels = x.pod.labels
    BY <2>1 DEF RenderedPod
  <2> QED  BY <2>1, <2>2, RenderPorts
<1> HIDE DEF W
<1> DEFINE P == UNION {ExposedPorts(x.pod) : x \in D.workloads}
<1>2. UNION {ExposedPorts(w) : w \in W} \subseteq P
  BY <1>1
<1>3. IsFiniteSet(P)
  BY DeploymentsAssumption
<1> HIDE DEF P
<1>4. IsFiniteSet(UNION {ExposedPorts(w) : w \in W})
  BY <1>2, <1>3, FS_Subset
<1>5. ASSUME NEW w \in W, w.name \in OwnServices PROVE OwnComponent(w)
  <2>1. PICK x \in D.workloads : /\ w.name = x.pod.name /\ w.labels = x.pod.labels
                                 /\ ExposedPorts(w) = ExposedPorts(x.pod)
    BY <1>1
  <2>2. OwnComponent(x.pod)
    BY <1>5, <2>1, DeploymentsAssumption
  <2> QED  BY <2>1, <2>2 DEF OwnComponent
<1> QED  BY <1>4, <1>5 DEF W

LEMMA InitInv == Init => IInv
<1> SUFFICES ASSUME Init PROVE IInv
  OBVIOUS
<1>1. PassedValid
  BY DEF Init, PassedValid
<1>2. Standing(matrix)
  BY MatrixAssumption DEF Init
<1>3. Workloads0 \in Deployments
  BY DEF Deployments
<1>4. TemplatesInv
  BY <1>3 DEF Init, TemplatesInv
<1>5. DocsInv
  BY <1>3, RenderOwn DEF Init, DocsInv
<1>6. ValuesInv
  BY ValuesAssumption DEF Init, ValuesInv
<1> QED  BY <1>1, <1>2, <1>4, <1>5, <1>6 DEF IInv

LEMMA Inductive == IInv /\ [Next]_vars => IInv'
<1> SUFFICES ASSUME IInv, [Next]_vars PROVE IInv'
  OBVIOUS
<1> USE DEF IInv
<1>1. CASE UNCHANGED vars
  BY <1>1 DEF vars, PassedValid, TemplatesInv, DocsInv, ValuesInv
<1>2. CASE EditMatrix
  <2>1. Standing(matrix')
    BY <1>2, EditStands, DeclaredStands DEF EditMatrix
  <2>2. ~passed'
    BY <1>2 DEF EditMatrix, Edit
  <2> QED  BY <1>2, <2>1, <2>2
           DEF EditMatrix, PassedValid, TemplatesInv, DocsInv, ValuesInv
<1>3. CASE EditBoth
  <2>1. PICK e \in MatrixEdits :
          /\ Edit
          /\ matrix' = Declared(Edited(e, matrix))
          /\ templates' = [templates EXCEPT !.rules = Edited(e, @)]
          /\ UNCHANGED <<values, docs>>
    BY <1>3 DEF EditBoth
  <2>2. Standing(matrix')
    BY <2>1, EditStands, DeclaredStands
  <2>3. TemplatesInv'
    <3>1. PICK R, D : D \in Deployments /\ templates = [rules |-> R, deployed |-> D]
      BY DEF TemplatesInv
    <3>2. templates' = [rules |-> Edited(e, R), deployed |-> D]
      BY <2>1, <3>1
    <3> QED  BY <3>1, <3>2 DEF TemplatesInv
  <2>4. ~passed'
    BY <2>1 DEF Edit
  <2> QED  BY <2>1, <2>2, <2>3, <2>4 DEF PassedValid, DocsInv, ValuesInv
<1>4. CASE EditTemplates
  <2>1. TemplatesInv'
    <3>0. PICK R, D : D \in Deployments /\ templates = [rules |-> R, deployed |-> D]
      BY DEF TemplatesInv
    <3>1. ASSUME NEW e \in MatrixEdits, templates' = [templates EXCEPT !.rules = Edited(e, @)]
          PROVE  TemplatesInv'
      <4>1. templates' = [rules |-> Edited(e, R), deployed |-> D]
        BY <3>0, <3>1
      <4> QED  BY <3>0, <4>1 DEF TemplatesInv
    <3>2. ASSUME NEW d \in WorkloadEdits, templates' = [templates EXCEPT !.deployed = d]
          PROVE  TemplatesInv'
      <4>1. templates' = [rules |-> R, deployed |-> d]
        BY <3>0, <3>2
      <4> QED  BY <4>1 DEF TemplatesInv, Deployments
    <3> QED  BY <1>4, <3>1, <3>2 DEF EditTemplates
  <2>2. ~passed'
    BY <1>4 DEF EditTemplates, Edit
  <2> QED  BY <1>4, <2>1, <2>2 DEF EditTemplates, PassedValid, DocsInv, ValuesInv
<1>5. CASE EditValues
  <2>1. PICK o \in Overlays : values' = Merge(values, o)
    BY <1>5 DEF EditValues
  <2>2. DOMAIN values' = DOMAIN values
    BY <2>1 DEF Merge
  <2>3. \A path \in DOMAIN values :
          values'[path] = IF path \in DOMAIN o THEN o[path] ELSE values[path]
    BY <2>1 DEF Merge
  <2>4. ValuesInv'
    BY <2>2, <2>3, ValuesAssumption DEF ValuesInv, ConsoleApart
  <2>5. ~passed'
    BY <1>5 DEF EditValues, Edit
  <2> QED  BY <1>5, <2>4, <2>5 DEF EditValues, PassedValid, TemplatesInv, DocsInv
<1>6. CASE Review
  BY <1>6 DEF Review, PassedValid, TemplatesInv, DocsInv, ValuesInv
<1>7. CASE HelmTemplate
  <2>1. DocsInv'
    BY <1>7, RenderOwn DEF HelmTemplate, DocsInv, TemplatesInv
  <2> QED  BY <1>7, <2>1 DEF HelmTemplate, PassedValid, TemplatesInv, ValuesInv
<1>8. CASE Check
  BY <1>8 DEF Check, PassedValid, TemplatesInv, DocsInv, ValuesInv
<1> QED  BY <1>1, <1>2, <1>3, <1>4, <1>5, <1>6, <1>7, <1>8 DEF Next

THEOREM Invariance == Spec => []IInv
BY InitInv, Inductive, PTL DEF Spec

(***************************************************************************)
(* The capability services start.                                          *)
(***************************************************************************)
\* No other service selects the pods of one that has its own component.
LEMMA OnlySelector ==
  ASSUME NEW name \in OwnServices, NEW labels, IsMap(labels),
         WorkloadSelector(name) \subseteq labels,
         NEW service, WorkloadSelector(service) \subseteq labels
  PROVE  service = name
<1>1. WorkloadSelector(name) = Component("clavenar", "app.kubernetes.io/component", name)
  BY DEF WorkloadSelector, OwnServices, CapabilityServices
<1>2. /\ <<"app.kubernetes.io/name", "clavenar">> \in labels
      /\ <<"app.kubernetes.io/component", name>> \in labels
  BY <1>1 DEF Component
<1>3. \A x : /\ <<"app.kubernetes.io/name", x>> \in labels => x = "clavenar"
             /\ <<"app.kubernetes.io/component", x>> \in labels => x = name
  BY <1>2 DEF IsMap
<1>4. CASE service = "nats"
  BY <1>3, <1>4 DEF WorkloadSelector, Component
<1>5. CASE service = "vault"
  BY <1>3, <1>5 DEF WorkloadSelector, Component
<1>6. CASE service \notin {"nats", "vault"}
  BY <1>3, <1>6 DEF WorkloadSelector, Component
<1> QED  BY <1>4, <1>5, <1>6

\* An accepted manifest holds no capability service that the values disable:
\* its port has a listener, and the listener goes with the service.
LEMMA CapabilityEnabled ==
  ASSUME IInv, passed, NEW w \in docs.workloads, w.name \in CapabilityServices
  PROVE  values[w.name]
<1>1. OwnComponent(w) /\ WorkloadsMatch(matrix, values, docs)
  BY DEF IInv, PassedValid, Validate, DocsInv, OwnServices
<1>2. PICK s \in MatchingServices(matrix, values, w) : TRUE
  BY <1>1 DEF WorkloadsMatch, OwnComponent
<1>3. PICK l \in ActiveListeners(matrix, values) : l.service = s
  BY <1>2 DEF MatchingServices
<1>4. s = w.name
  BY <1>1, <1>2, OnlySelector DEF MatchingServices, OwnComponent, OwnServices
<1>5. [path |-> w.name, is |-> {}] \in l.enabledWhen
  BY <1>3, <1>4 DEF IInv, Standing, ActiveListeners
<1>6. Truthy(values, w.name)
  BY <1>3, <1>5 DEF ActiveListeners, ContractEnabled, ConditionEnabled
<1>7. w.name \notin PeerPaths \cup {"prometheusNamespace"}
  BY DEF CapabilityServices, PeerPaths
<1> QED  BY <1>6, <1>7 DEF Truthy

\* What the check compares of a variable is all the container has of it.
LEMMA GovernedEnv ==
  ASSUME NEW c, NEW names, NEW name \in names, NEW E, Governed(c, names) = E,
         NEW x, <<name, x>> \in E, \A e \in E : e[1] = name => e = <<name, x>>
  PROVE  Env(c, name) = {x}
<1>1. \A e \in c.env : e[1] = name => e = <<name, x>>
  BY DEF Governed
<1>2. <<name, x>> \in c.env
  BY DEF Governed
<1> QED  BY <1>1, <1>2 DEF Env

\* With workload TLS every capability Deployment of an accepted manifest finds
\* the bundle its environment names in the ConfigMap it mounts, and the
\* website is no caller in it (validate_workload_capability_contract).
THEOREM CapabilitiesStart == Spec => []CapabilitiesBound
<1>1. IInv => CapabilitiesBound
  <2> SUFFICES ASSUME IInv, passed, values["tls"],
                      NEW s \in CapabilityServices, NEW w \in DeploymentsOf(docs, s)
               PROVE  \E b \in docs.bundles :
                        /\ b.name \in w.capabilities
                        /\ "service-website" \notin b.bundle.ledgerCallers
                        /\ \A c \in Main(w) :
                              /\ Env(c, "CLAVENAR_WORKLOAD_CAPABILITY_BUNDLE_SHA256")
                                    = {b.bundle}
                              /\ Env(c, "CLAVENAR_ENDPOINT_CAPABILITY_MATRIX_SHA256")
                                    = {b.bundle.matrix}
    BY DEF CapabilitiesBound
  <2>1. CapabilityContract(values, docs)
    BY DEF IInv, PassedValid, Validate
  <2>2. PICK b \in docs.bundles : TRUE
    BY <2>1, FS_EmptySet DEF CapabilityContract
  <2>3. w \in docs.workloads /\ w.name \in CapabilityServices
        /\ w \in DeploymentsOf(docs, w.name)
    BY DEF DeploymentsOf
  <2>4. values[w.name]
    BY <2>3, CapabilityEnabled
  <2>5. /\ b.name = BundleName(b.bundle)
        /\ "service-website" \notin b.bundle.ledgerCallers
        /\ w.capabilities = CapabilityMounts(values, b.bundle)
        /\ \A c \in Main(w) :
              Governed(c, CapabilityNames) = CapabilityEnv(values, b.bundle)
    BY <2>1, <2>2, <2>3, <2>4 DEF CapabilityContract
  <2>6. b.name \in w.capabilities
    BY <2>5 DEF CapabilityMounts
  <2>7. ASSUME NEW c \in Main(w)
        PROVE  /\ Env(c, "CLAVENAR_WORKLOAD_CAPABILITY_BUNDLE_SHA256") = {b.bundle}
               /\ Env(c, "CLAVENAR_ENDPOINT_CAPABILITY_MATRIX_SHA256")
                     = {b.bundle.matrix}
    <3> DEFINE E == {<<"CLAVENAR_WORKLOAD_CAPABILITY_BUNDLE", "/etc/clavenar">>,
                     <<"CLAVENAR_WORKLOAD_CAPABILITY_BUNDLE_SHA256", b.bundle>>,
                     <<"CLAVENAR_ENDPOINT_CAPABILITY_MATRIX_SHA256", b.bundle.matrix>>}
    <3>1. Governed(c, CapabilityNames) = E
      BY <2>5 DEF CapabilityEnv
    <3>2. /\ <<"CLAVENAR_WORKLOAD_CAPABILITY_BUNDLE_SHA256", b.bundle>> \in E
          /\ <<"CLAVENAR_ENDPOINT_CAPABILITY_MATRIX_SHA256", b.bundle.matrix>> \in E
      OBVIOUS
    <3>3. \A e \in E :
            /\ e[1] = "CLAVENAR_WORKLOAD_CAPABILITY_BUNDLE_SHA256" =>
                  e = <<"CLAVENAR_WORKLOAD_CAPABILITY_BUNDLE_SHA256", b.bundle>>
            /\ e[1] = "CLAVENAR_ENDPOINT_CAPABILITY_MATRIX_SHA256" =>
                  e = <<"CLAVENAR_ENDPOINT_CAPABILITY_MATRIX_SHA256", b.bundle.matrix>>
      OBVIOUS
    <3> HIDE DEF E
    <3> QED  BY <3>1, <3>2, <3>3, GovernedEnv DEF CapabilityNames
  <2> QED  BY <2>2, <2>5, <2>6, <2>7
<1> QED  BY <1>1, Invariance, PTL

(***************************************************************************)
(* How a cluster reads the peers of an accepted manifest.                  *)
(***************************************************************************)
\* An admitted pod has the labels of every selector of the peer, and lives
\* where the peer says.
LEMMA AdmittedPod ==
  ASSUME NEW p, NEW pod, Admits(p, pod), ~p.block
  PROVE  /\ \A s \in p.pods : s.labels \subseteq pod.labels
         /\ p.spaces = {} => pod.space = Home
         /\ \A s \in p.spaces :
               s.labels \subseteq {<<"kubernetes.io/metadata.name", pod.space>>}
BY DEF Admits, PodSelectorMatches

\* A peer that is one application elsewhere admits nobody else.
LEMMA ForeignAdmitted ==
  ASSUME NEW v, NEW p, NEW app, ExactPositive(p), ForeignPeer(v, p, app),
         NEW pod, Admits(p, pod)
  PROVE  IsForeign(v, pod, app)
<1>1. ~p.block
  BY DEF ExactPositive
<1>2. <<"app.kubernetes.io/name", app>> \in pod.labels
  BY <1>1, AdmittedPod DEF ForeignPeer, SelectsPods
<1>3. PICK y : y \in SelectedSpaces(p)
  BY DEF ForeignPeer
<1>4. PICK x \in UNION {s.labels : s \in p.spaces} :
        x[1] = "kubernetes.io/metadata.name" /\ y = x[2]
  BY <1>3 DEF SelectedSpaces
<1>5. PICK s \in p.spaces : x \in s.labels
  BY <1>4
<1>6. x = <<"kubernetes.io/metadata.name", pod.space>>
  BY <1>1, <1>5, AdmittedPod
<1>7. y = pod.space
  BY <1>4, <1>6
<1> QED  BY <1>2, <1>3, <1>7 DEF ForeignPeer, IsForeign

LEMMA NamedAdmitted ==
  ASSUME NEW v, NEW path, NEW p \in v[path], ExactPositive(p), NEW pod, Admits(p, pod)
  PROVE  IsNamed(v, pod, path)
<1>1. PICK s \in p.pods : s.labels # {}
  BY DEF ExactPositive
<1>2. s.labels \subseteq pod.labels
  BY <1>1, AdmittedPod DEF ExactPositive
<1> QED  BY <1>1, <1>2 DEF IsNamed

LEMMA PodPeerAdmits ==
  ASSUME NEW labels, NEW pod, Admits(PodPeer(labels), pod)
  PROVE  pod.space = Home /\ labels \subseteq pod.labels
<1> DEFINE p == PodPeer(labels)
<1>1. ~p.block /\ p.spaces = {} /\ p.pods = {MatchLabels(labels)}
  BY DEF PodPeer
<1>2. MatchLabels(labels).labels = labels
  BY DEF MatchLabels
<1> HIDE DEF p
<1>3. Admits(p, pod)
  BY DEF p
<1> QED  BY <1>1, <1>2, <1>3, AdmittedPod

LEMMA NamespaceAdmits ==
  ASSUME NEW n, NEW pod, Admits(NamespacePeer(n), pod)
  PROVE  pod.space = n
<1> DEFINE p == NamespacePeer(n)
<1>1. ~p.block /\ p.spaces = {Namespace(n)}
  BY DEF NamespacePeer
<1>2. Namespace(n).labels = {<<"kubernetes.io/metadata.name", n>>}
  BY DEF Namespace, MatchLabels
<1> HIDE DEF p
<1>3. Admits(p, pod)
  BY DEF p
<1>4. <<"kubernetes.io/metadata.name", n>>
        \in {<<"kubernetes.io/metadata.name", pod.space>>}
  BY <1>1, <1>2, <1>3, AdmittedPod
<1> QED  BY <1>4

(***************************************************************************)
(* Who reaches a port.                                                     *)
(***************************************************************************)
\* Every service with an active listener is isolated.
Isolated(m, v) ==
    \A l \in ActiveListeners(m, v) : \E c \in EnabledContracts(m, v) : c.service = l.service

\* A rule is in force only with its listener.
RulesServed(m, v) ==
    \A c \in EnabledContracts(m, v) : \A r \in EnabledRules(c, v) : \A l \in m.listeners :
        l.service = c.service /\ l.id = r.listener => l \in ActiveListeners(m, v)

\* A token means the caller it is called after: the pods of vault are a peer
\* of vault only, and a shared selector selects nobody else.
TokensExact(m, v) ==
    \A c \in EnabledContracts(m, v) : \A r \in EnabledRules(c, v) :
        /\ "vault" \in r.peers => c.service = "vault"
        /\ "vault-server-test" \in r.peers => "vault-server-test" \in DOMAIN m.peerSelectors
        /\ \A t \in r.peers \cap DOMAIN m.peerSelectors : \A pod \in Pods :
              Admits(m.peerSelectors[t], pod) => Is(v, pod, t)

\* What the check leaves to whoever reviews the matrix.
Reviewed(m, v) == Isolated(m, v) /\ RulesServed(m, v) /\ TokensExact(m, v)

\* The caller a token is authorized as.
CallerOf(t) == IF t = "configured-demo-reset-peers" THEN "console" ELSE t

LEMMA SourceIs ==
  ASSUME NEW m, NEW v, ConfiguredPeers(v), NEW service, NEW t,
         t = "vault" => service = "vault",
         t = "vault-server-test" => t \in DOMAIN m.peerSelectors,
         NEW p \in Sources(m, v, service, t), NEW pod, Admits(p, pod),
         t \in DOMAIN m.peerSelectors /\ Admits(m.peerSelectors[t], pod) => Is(v, pod, t)
  PROVE  Is(v, pod, CallerOf(t))
<1>1. ASSUME NEW path \in PeerPaths, NEW q \in v[path] PROVE ExactPositive(q)
  BY DEF ConfiguredPeers
<1>2. CASE t = "prometheus"
  <2>1. PICK n \in v["prometheusNamespace"] : p = NamespacePeer(n)
    BY <1>2 DEF Sources, ConfiguredPath
  <2> QED  BY <1>2, <2>1, NamespaceAdmits DEF Is, CallerOf
<1>3. CASE t = "configured-console-operator-peers"
  <2>1. p \in v["console.operatorMtls"]
    BY <1>3 DEF Sources, ConfiguredPath
  <2> QED  BY <1>1, <1>3, <2>1, NamedAdmitted DEF Is, CallerOf, PeerPaths
<1>4. CASE t = "configured-console-passkey-peers"
  <2>1. p \in v["console.passkey"]
    BY <1>4 DEF Sources, ConfiguredPath
  <2> QED  BY <1>1, <1>4, <2>1, NamedAdmitted DEF Is, CallerOf, PeerPaths
<1>5. CASE t = "configured-console-demo-peers"
  <2>1. p \in v["console.demo"]
    BY <1>5 DEF Sources, ConfiguredPath
  <2> QED  BY <1>1, <1>5, <2>1, NamedAdmitted DEF Is, CallerOf, PeerPaths
<1>6. CASE t = "configured-ledger-trusted-proxy-peers"
  <2>1. p \in v["ledger.trustedProxy"]
    BY <1>6 DEF Sources, ConfiguredPath
  <2>2. ExactPositive(p) /\ ForeignPeer(v, p, "clavenar-website")
    BY <1>1, <2>1 DEF PeerPaths, ConfiguredPeers, LedgerTrustedProxyPeer
  <2> QED  BY <1>6, <2>2, ForeignAdmitted DEF Is, CallerOf
<1>7. CASE t = "configured-nats-demo-mint-peers"
  <2>1. p \in v["nats.demoMint"]
    BY <1>7 DEF Sources, ConfiguredPath
  <2>2. ExactPositive(p) /\ ForeignPeer(v, p, "clavenar-demo-mint")
    BY <1>1, <2>1 DEF PeerPaths, ConfiguredPeers, NatsDemoMintPeer
  <2> QED  BY <1>7, <2>2, ForeignAdmitted DEF Is, CallerOf
<1>8. CASE t = "configured-demo-reset-peers"
  <2>1. p \in v["demoReset"]
    BY <1>8 DEF Sources, ConfiguredPath
  <2>2. ExactPositive(p) /\ p.spaces = {} /\ SelectsPods(p, "clavenar-demo-reset")
    BY <1>1, <2>1 DEF PeerPaths, ConfiguredPeers, DemoResetPeer
  <2>3. /\ pod.space = Home
        /\ <<"app.kubernetes.io/name", "clavenar-demo-reset">> \in pod.labels
    BY <2>2, AdmittedPod DEF ExactPositive, SelectsPods
  <2> QED  BY <1>8, <2>3 DEF Is, CallerOf
<1>9. CASE /\ t \notin {"prometheus", "configured-console-operator-peers",
                        "configured-console-passkey-peers",
                        "configured-console-demo-peers",
                        "configured-ledger-trusted-proxy-peers",
                        "configured-nats-demo-mint-peers", "configured-demo-reset-peers"}
  <2>1. ConfiguredPath(t) = {} /\ CallerOf(t) = t
    BY <1>9 DEF ConfiguredPath, CallerOf
  <2>2. CASE t = "simulator" /\ v["simulator"] # {}
    <3>1. p \in v["simulator"]
      BY <2>1, <2>2 DEF Sources
    <3>2. ExactPositive(p) /\ ForeignPeer(v, p, "clavenar-simulator")
      BY <1>1, <3>1 DEF PeerPaths, ConfiguredPeers, SimulatorPeer
    <3> QED  BY <2>1, <2>2, <3>2, ForeignAdmitted DEF Is
  <2>3. CASE t = "vault"
    <3>1. p = PodPeer(WorkloadSelector("vault"))
      BY <2>1, <2>3 DEF Sources
    <3> QED  BY <2>1, <2>3, <3>1, PodPeerAdmits DEF Is
  <2>4. CASE /\ ~(t = "simulator" /\ v["simulator"] # {}) /\ t # "vault"
             /\ t \in DOMAIN m.peerSelectors
    <3>1. p = m.peerSelectors[t]
      BY <1>9, <2>1, <2>4 DEF Sources
    <3> QED  BY <2>1, <2>4, <3>1
  <2>5. CASE /\ ~(t = "simulator" /\ v["simulator"] # {}) /\ t # "vault"
             /\ t \notin DOMAIN m.peerSelectors
    <3>1. p = PodPeer(Component("clavenar", "app.kubernetes.io/component", t))
      BY <1>9, <2>1, <2>5 DEF Sources
    <3>2. IsComponent(pod, t)
      BY <3>1, PodPeerAdmits DEF IsComponent
    <3> QED  BY <1>9, <2>1, <2>5, <3>2 DEF Is
  <2> QED  BY <2>2, <2>3, <2>4, <2>5
<1> QED  BY <1>2, <1>3, <1>4, <1>5, <1>6, <1>7, <1>8, <1>9

\* Whom a policy of an accepted manifest lets through on a port: there is a
\* rule of its contract for that port with a token that admits the pod, or for
\* anybody.
LEMMA PolicyAdmits ==
  ASSUME Validate(matrix, reviewed, values, docs), NoEmptySource(matrix, values),
         NEW p \in docs.policies, NEW r \in p.spec.ingress, NEW pod, RuleAdmits(r, pod)
  PROVE  \E c \in EnabledContracts(matrix, values) :
            /\ p.spec.target = WorkloadSelector(c.service) /\ p.name = c.service
            /\ \E x \in EnabledRules(c, values) : \E l \in matrix.listeners :
                  /\ l.service = c.service /\ l.id = x.listener
                  /\ l.containerPort = r.port
                  /\ \/ "any" \in x.peers
                     \/ \E t \in x.peers : \E q \in Sources(matrix, values, c.service, t) :
                           Admits(q, pod) /\ \E S \in r.from : q \in S
<1>1. /\ p.spec \in ExpectedPolicies(matrix, values) /\ p.name = p.spec.name
  BY DEF Validate, PoliciesMatch
<1>2. PICK c \in EnabledContracts(matrix, values) :
        p.spec = [name |-> c.service, target |-> WorkloadSelector(c.service),
                  ingress |-> {ExpectedRule(matrix, values, c.service, x) :
                                  x \in EnabledRules(c, values)},
                  egress |-> {ExpectedEgress(x) : x \in c.egress}]
  BY <1>1 DEF ExpectedPolicies
<1>3. PICK x \in EnabledRules(c, values) :
        r = ExpectedRule(matrix, values, c.service, x)
  BY <1>2
<1>4. \E l \in matrix.listeners : l.service = c.service /\ l.id = x.listener
  BY <1>3 DEF Validate, PolicyContracts, EnabledContracts, EnabledRules
<1> DEFINE l == CHOOSE k \in matrix.listeners : k.service = c.service /\ k.id = x.listener
<1>5. l \in matrix.listeners /\ l.service = c.service /\ l.id = x.listener
  BY <1>4
<1>6. /\ r.port = l.containerPort
      /\ r.from = IF "any" \in x.peers THEN {}
                  ELSE {UNION {Sources(matrix, values, c.service, t) : t \in x.peers}}
  BY <1>3 DEF ExpectedRule
<1> HIDE DEF l
<1>7. r.from # {{}}
  BY <1>1 DEF NoEmptySource
<1>8. \/ "any" \in x.peers
      \/ \E t \in x.peers : \E q \in Sources(matrix, values, c.service, t) :
            Admits(q, pod) /\ \E S \in r.from : q \in S
  <2>1. SUFFICES ASSUME "any" \notin x.peers
                 PROVE  \E t \in x.peers : \E q \in Sources(matrix, values, c.service, t) :
                           Admits(q, pod) /\ \E S \in r.from : q \in S
    OBVIOUS
  <2>2. r.from = {UNION {Sources(matrix, values, c.service, t) : t \in x.peers}}
    BY <1>6, <2>1
  <2>3. PICK S \in r.from : \E q \in S : Admits(q, pod)
    BY <1>7, <2>2 DEF RuleAdmits
  <2>4. PICK q \in S : Admits(q, pod)
    BY <2>3
  <2>5. q \in UNION {Sources(matrix, values, c.service, t) : t \in x.peers}
    BY <2>2, <2>4
  <2>6. PICK t \in x.peers : q \in Sources(matrix, values, c.service, t)
    BY <2>5
  <2> QED  BY <2>3, <2>4, <2>6
<1> QED  BY <1>1, <1>2, <1>5, <1>6, <1>8

\* A pod network policy lets through to a
\* workload of an accepted manifest is, by its own identity, a caller whom an
\* active listener on that port authorizes, if the review has seen to what the
\* check does not compare (validate, over matrix, values and manifest).
THEOREM Authorised == Spec => [](Reviewed(matrix, values) => OnlyAuthorised)
<1>1. IInv /\ Reviewed(matrix, values) => OnlyAuthorised
  <2> SUFFICES ASSUME IInv, Reviewed(matrix, values), passed, values["networkPolicy"],
                      NoEmptySource(matrix, values),
                      NEW w \in docs.workloads, NEW port \in ExposedPorts(w),
                      NEW pod \in Pods, Reaches(docs, pod, w.labels, port[4])
               PROVE  \E l \in ActiveListeners(matrix, values) :
                        /\ WorkloadSelector(l.service) \subseteq w.labels
                        /\ l.containerPort = port[4]
                        /\ \/ "any" \in l.allowed /\ l.authenticated
                           \/ \E caller \in l.authorized : Is(values, pod, caller)
    BY DEF OnlyAuthorised
  <2>1. Validate(matrix, reviewed, values, docs)
    BY DEF IInv, PassedValid
  <2>2. PoliciesOn(docs, w.labels) # {}
    <3>1. PICK s \in MatchingServices(matrix, values, w) : TRUE
      BY <2>1 DEF Validate, WorkloadsMatch
    <3>2. PICK k \in ActiveListeners(matrix, values) : k.service = s
      BY <3>1 DEF MatchingServices
    <3>3. PICK c \in EnabledContracts(matrix, values) : c.service = s
      BY <3>2 DEF Reviewed, Isolated
    <3> DEFINE spec == [name |-> c.service, target |-> WorkloadSelector(c.service),
                        ingress |-> {ExpectedRule(matrix, values, c.service, x) :
                                        x \in EnabledRules(c, values)},
                        egress |-> {ExpectedEgress(x) : x \in c.egress}]
    <3>4. spec \in ExpectedPolicies(matrix, values)
      BY DEF ExpectedPolicies
    <3>5. spec.target = WorkloadSelector(s)
      BY <3>3
    <3> HIDE DEF spec
    <3>6. PICK p \in docs.policies : p.spec = spec
      BY <2>1, <3>4 DEF Validate, PoliciesMatch
    <3>7. p.spec.target \subseteq w.labels
      BY <3>1, <3>5, <3>6 DEF MatchingServices
    <3> QED  BY <3>7 DEF PoliciesOn
  <2>3. PICK p \in PoliciesOn(docs, w.labels) : \E r \in p.spec.ingress :
          r.port = port[4] /\ RuleAdmits(r, pod)
    BY <2>2 DEF Reaches
  <2>4. PICK r \in p.spec.ingress : r.port = port[4] /\ RuleAdmits(r, pod)
    BY <2>3
  <2>5. p \in docs.policies /\ p.spec.target \subseteq w.labels
    BY DEF PoliciesOn
  <2>6. PICK c \in EnabledContracts(matrix, values) :
          /\ p.spec.target = WorkloadSelector(c.service)
          /\ \E x \in EnabledRules(c, values) : \E l \in matrix.listeners :
                /\ l.service = c.service /\ l.id = x.listener
                /\ l.containerPort = r.port
                /\ \/ "any" \in x.peers
                   \/ \E t \in x.peers : \E q \in Sources(matrix, values, c.service, t) :
                         Admits(q, pod)
    BY <2>1, <2>4, <2>5, PolicyAdmits
  <2>7. PICK x \in EnabledRules(c, values), l \in matrix.listeners :
          /\ l.service = c.service /\ l.id = x.listener /\ l.containerPort = r.port
          /\ \/ "any" \in x.peers
             \/ \E t \in x.peers : \E q \in Sources(matrix, values, c.service, t) :
                   Admits(q, pod)
    BY <2>6
  <2>8. l \in ActiveListeners(matrix, values)
    BY <2>7 DEF Reviewed, RulesServed
  <2>9. ASSUME NEW t \in x.peers PROVE CallerOf(t) \in l.allowed
    <3>1. x \in c.rules /\ c \in matrix.policies
      BY DEF EnabledRules, EnabledContracts
    <3>2. CallerOf(t) \in AllowedByContracts(matrix, l)
      BY <2>7, <3>1 DEF AllowedByContracts, CallerOf
    <3> QED  BY <2>1, <3>2 DEF Validate, PolicyContracts
  <2>10. CASE "any" \in x.peers
    <3>1. "any" \in l.allowed
      BY <2>9, <2>10 DEF CallerOf
    <3>2. l.authenticated
      BY <2>1, <3>1 DEF Validate, PolicyContracts
    <3> QED  BY <2>4, <2>5, <2>6, <2>7, <2>8, <3>1, <3>2
  <2>11. CASE "any" \notin x.peers
    <3>1. PICK t \in x.peers : \E q \in Sources(matrix, values, c.service, t) : Admits(q, pod)
      BY <2>7, <2>11
    <3>2. Is(values, pod, CallerOf(t))
      BY <2>1, <3>1, SourceIs DEF Validate, Reviewed, TokensExact
    <3>3. CallerOf(t) \in l.authorized
      <4>1. CallerOf(t) # "any"
        BY <2>11 DEF CallerOf
      <4> QED  BY <2>1, <2>9, <4>1 DEF Validate, PolicyContracts
    <3> QED  BY <2>4, <2>5, <2>6, <2>7, <2>8, <3>2, <3>3
  <2> QED  BY <2>10, <2>11
<1> QED  BY <1>1, Invariance, PTL

(***************************************************************************)
(* What the website reaches.                                               *)
(***************************************************************************)
WebsiteLabel == <<"app.kubernetes.io/name", "clavenar-website">>

\* A token lets the website in only as the trusted proxy of the ledger.
LEMMA WebsiteSource ==
  ASSUME IInv, ConfiguredPeers(values), NEW service, NEW t,
         NEW p \in Sources(matrix, values, service, t),
         NEW pod \in Pods, IsForeign(values, pod, "clavenar-website"), Admits(p, pod)
  PROVE  p \in values["ledger.trustedProxy"]
<1>1. /\ WebsiteLabel \in pod.labels /\ pod.space # Home
      /\ pod.space \notin values["prometheusNamespace"]
  BY DEF IsForeign, WebsiteLabel
<1>2. \A x : <<"app.kubernetes.io/name", x>> \in pod.labels => x = "clavenar-website"
  BY <1>1, PodsAssumption DEF IsMap, WebsiteLabel
<1>3. ASSUME NEW path \in PeerPaths, NEW q \in values[path] PROVE ExactPositive(q)
  BY DEF ConfiguredPeers
<1>4. ASSUME NEW path \in ConsolePaths, p \in values[path] PROVE FALSE
  <2>1. path \in DOMAIN values /\ ConsoleApart(values)
    BY DEF IInv, ValuesInv
  <2>2. ExactPositive(p)
    BY <1>3, <1>4 DEF ConsolePaths, PeerPaths
  <2> QED  BY <1>1, <1>4, <2>1, <2>2 DEF ConsoleApart, WebsiteLabel
<1>5. ASSUME NEW app, ExactPositive(p), ForeignPeer(values, p, app)
      PROVE  app = "clavenar-website"
  BY <1>2, <1>5, ForeignAdmitted DEF IsForeign
<1>6. ASSUME NEW labels, p = PodPeer(labels) PROVE FALSE
  BY <1>1, <1>6, PodPeerAdmits
<1>7. CASE t = "prometheus"
  <2>1. PICK n \in values["prometheusNamespace"] : p = NamespacePeer(n)
    BY <1>7 DEF Sources, ConfiguredPath
  <2> QED  BY <1>1, <2>1, NamespaceAdmits
<1>8. CASE t \in {"configured-console-operator-peers", "configured-console-passkey-peers",
                  "configured-console-demo-peers"}
  <2>1. \E path \in ConsolePaths : p \in values[path]
    BY <1>8 DEF Sources, ConfiguredPath, ConsolePaths
  <2> QED  BY <1>4, <2>1
<1>9. CASE t = "configured-ledger-trusted-proxy-peers"
  BY <1>9 DEF Sources, ConfiguredPath
<1>10. CASE t = "configured-nats-demo-mint-peers"
  <2>1. p \in values["nats.demoMint"]
    BY <1>10 DEF Sources, ConfiguredPath
  <2>2. ExactPositive(p) /\ ForeignPeer(values, p, "clavenar-demo-mint")
    BY <1>3, <2>1 DEF PeerPaths, ConfiguredPeers, NatsDemoMintPeer
  <2> QED  BY <1>5, <2>2
<1>11. CASE t = "configured-demo-reset-peers"
  <2>1. p \in values["demoReset"]
    BY <1>11 DEF Sources, ConfiguredPath
  <2>2. ExactPositive(p) /\ p.spaces = {}
    BY <1>3, <2>1 DEF PeerPaths, ConfiguredPeers, DemoResetPeer
  <2> QED  BY <1>1, <2>2, AdmittedPod DEF ExactPositive
<1>12. CASE t \notin {"prometheus", "configured-console-operator-peers",
                      "configured-console-passkey-peers", "configured-console-demo-peers",
                      "configured-ledger-trusted-proxy-peers",
                      "configured-nats-demo-mint-peers", "configured-demo-reset-peers"}
  <2>1. ConfiguredPath(t) = {}
    BY <1>12 DEF ConfiguredPath
  <2>2. CASE t = "simulator" /\ values["simulator"] # {}
    <3>1. p \in values["simulator"]
      BY <2>1, <2>2 DEF Sources
    <3>2. ExactPositive(p) /\ ForeignPeer(values, p, "clavenar-simulator")
      BY <1>3, <3>1 DEF PeerPaths, ConfiguredPeers, SimulatorPeer
    <3> QED  BY <1>5, <3>2
  <2>3. CASE t = "vault"
    BY <1>6, <2>1, <2>3 DEF Sources
  <2>4. CASE ~(t = "simulator" /\ values["simulator"] # {}) /\ t # "vault"
    <3>1. CASE t \in DOMAIN matrix.peerSelectors
      <4>1. p = matrix.peerSelectors[t]
        BY <1>12, <2>1, <2>4, <3>1 DEF Sources
      <4>2. p.spaces = {} /\ ~p.block
        BY <3>1, <4>1 DEF IInv, Standing
      <4> QED  BY <1>1, <4>2, AdmittedPod
    <3>2. CASE t \notin DOMAIN matrix.peerSelectors
      BY <1>6, <1>12, <2>1, <2>4, <3>2 DEF Sources
    <3> QED  BY <3>1, <3>2
  <2> QED  BY <2>2, <2>3, <2>4
<1> QED  BY <1>7, <1>8, <1>9, <1>10, <1>11, <1>12

\* The ledger of an accepted manifest is isolated.
LEMMA LedgerIsolated ==
  ASSUME IInv, passed, values["networkPolicy"], NEW w \in docs.workloads, w.name = "ledger"
  PROVE  PoliciesOn(docs, w.labels) # {}
<1>1. Validate(matrix, reviewed, values, docs) /\ OwnComponent(w) /\ values["ledger"]
  BY CapabilityEnabled
  DEF IInv, PassedValid, DocsInv, OwnServices, CapabilityServices
<1>2. PICK c \in matrix.policies :
        /\ c.service = "ledger" /\ c.disabledWhen = {}
        /\ c.enabledWhen \subseteq {[path |-> "ledger", is |-> {}]}
  BY DEF IInv, Standing
<1>3. Truthy(values, "ledger")
  BY <1>1 DEF Truthy, PeerPaths
<1>4. c \in EnabledContracts(matrix, values)
  BY <1>2, <1>3 DEF EnabledContracts, ContractEnabled, ConditionEnabled
<1> DEFINE spec == [name |-> c.service, target |-> WorkloadSelector(c.service),
                    ingress |-> {ExpectedRule(matrix, values, c.service, x) :
                                    x \in EnabledRules(c, values)},
                    egress |-> {ExpectedEgress(x) : x \in c.egress}]
<1>5. spec \in ExpectedPolicies(matrix, values)
  BY <1>4 DEF ExpectedPolicies
<1>6. spec.target = WorkloadSelector(w.name)
  BY <1>2
<1> HIDE DEF spec
<1>7. PICK p \in docs.policies : p.spec = spec
  BY <1>1, <1>5 DEF Validate, PoliciesMatch
<1>8. p.spec.target \subseteq w.labels
  BY <1>1, <1>6, <1>7 DEF OwnComponent
<1> QED  BY <1>8 DEF PoliciesOn

\* Peers of the trusted proxy need its enforcement.
LEMMA TrustedProfile ==
  ASSUME NEW v, ProfileContract(v), v["ledger.trustedProxy"] # {}
  PROVE  v["ledger.requireTrusted"] /\ v["ledger.trustedSpiffe"] = Website
<1>1. TrustedProxyProfile(v)
  BY DEF ProfileContract
<1>2. v["ledger.requireTrusted"]
  BY <1>1 DEF TrustedProxyProfile
<1>3. v["ledger.trustedSpiffe"] # "" /\ v["ledger.trustedSpiffe"] \in {"", Website}
  BY <1>1, <1>2 DEF TrustedProxyProfile
<1> QED  BY <1>2, <1>3

\* The website reaches the ledger of an accepted manifest on its mTLS port
\* only, and only while that ledger, a Deployment, enforces the trusted proxy
\* under the website's identity, whatever the matrix was changed to admit
\* (validate_deployment_profile, validate_ledger_trusted_proxy_contract).
THEOREM WebsiteContained == Spec => []WebsiteBounded
<1>1. IInv => WebsiteBounded
  <2> SUFFICES ASSUME IInv, passed, values["networkPolicy"],
                      NoEmptySource(matrix, values),
                      NEW w \in docs.workloads, NEW port \in ExposedPorts(w),
                      NEW pod \in Pods, w.name = "ledger",
                      IsForeign(values, pod, "clavenar-website"),
                      Reaches(docs, pod, w.labels, port[4]),
                      \A l \in matrix.listeners : l.service = "ledger" => "any" \notin l.allowed
               PROVE  /\ port[4] = 8183
                      /\ w.kind = "Deployment" => \A c \in Main(w) :
                            /\ Env(c, "CLAVENAR_LEDGER_REQUIRE_TRUSTED_PROXY") = {"true"}
                            /\ Env(c, "CLAVENAR_LEDGER_TRUSTED_PROXY_SPIFFE") = {Website}
    BY DEF WebsiteBounded
  <2>1. /\ Validate(matrix, reviewed, values, docs) /\ OwnComponent(w) /\ values["ledger"]
        /\ w.name \in CapabilityServices
    BY CapabilityEnabled
  DEF IInv, PassedValid, DocsInv, OwnServices, CapabilityServices
  <2>2. PICK p \in PoliciesOn(docs, w.labels) : \E r \in p.spec.ingress :
          r.port = port[4] /\ RuleAdmits(r, pod)
    BY LedgerIsolated DEF Reaches
  <2>3. PICK r \in p.spec.ingress : r.port = port[4] /\ RuleAdmits(r, pod)
    BY <2>2
  <2>4. p \in docs.policies /\ p.spec.target \subseteq w.labels
    BY DEF PoliciesOn
  <2>5. PICK c \in EnabledContracts(matrix, values) :
          /\ p.spec.target = WorkloadSelector(c.service) /\ p.name = c.service
          /\ \E x \in EnabledRules(c, values) : \E l \in matrix.listeners :
                /\ l.service = c.service /\ l.id = x.listener
                /\ \/ "any" \in x.peers
                   \/ \E t \in x.peers : \E q \in Sources(matrix, values, c.service, t) :
                         Admits(q, pod) /\ \E S \in r.from : q \in S
    BY <2>1, <2>3, <2>4, PolicyAdmits
  <2>6. c.service = "ledger"
    BY <2>1, <2>4, <2>5, OnlySelector DEF OwnComponent, OwnServices
  <2>7. PICK x \in EnabledRules(c, values), l \in matrix.listeners :
          /\ l.service = c.service /\ l.id = x.listener
          /\ \/ "any" \in x.peers
             \/ \E t \in x.peers : \E q \in Sources(matrix, values, c.service, t) :
                   Admits(q, pod) /\ \E S \in r.from : q \in S
    BY <2>5
  <2>8. "any" \notin x.peers
    <3>1. x \in c.rules /\ c \in matrix.policies
      BY DEF EnabledRules, EnabledContracts
    <3>2. "any" \in x.peers => "any" \in AllowedByContracts(matrix, l)
      BY <2>7, <3>1 DEF AllowedByContracts
    <3> QED  BY <2>1, <2>6, <2>7, <3>2 DEF Validate, PolicyContracts
  <2>9. PICK t \in x.peers : \E q \in Sources(matrix, values, c.service, t) :
          Admits(q, pod) /\ \E S \in r.from : q \in S
    BY <2>7, <2>8
  <2>10. PICK q \in Sources(matrix, values, c.service, t) :
           Admits(q, pod) /\ \E S \in r.from : q \in S
    BY <2>9
  <2>11. q \in values["ledger.trustedProxy"]
    BY <2>1, <2>10, WebsiteSource DEF Validate
  <2>12. /\ LedgerTrustedProxyContract(values, docs) /\ ProfileContract(values)
         /\ p \in {z \in docs.policies : z.name = "ledger"}
    BY <2>1, <2>4, <2>5, <2>6 DEF Validate
  <2>13. TrustedRule(values, r)
    BY <2>1, <2>10, <2>11, <2>12 DEF LedgerTrustedProxyContract
  <2>14. port[4] = 8183
    BY <2>3, <2>13 DEF TrustedRule
  <2>15. values["ledger.requireTrusted"] /\ values["ledger.trustedSpiffe"] = Website
    BY <2>11, <2>12, TrustedProfile
  <2>16. ASSUME w.kind = "Deployment", NEW k \in Main(w)
         PROVE  /\ Env(k, "CLAVENAR_LEDGER_REQUIRE_TRUSTED_PROXY") = {"true"}
                /\ Env(k, "CLAVENAR_LEDGER_TRUSTED_PROXY_SPIFFE") = {Website}
    <3> DEFINE names == {"CLAVENAR_LEDGER_REQUIRE_TRUSTED_PROXY",
                         "CLAVENAR_LEDGER_TRUSTED_PROXY_SPIFFE"}
               E == {<<"CLAVENAR_LEDGER_REQUIRE_TRUSTED_PROXY", "true">>,
                     <<"CLAVENAR_LEDGER_TRUSTED_PROXY_SPIFFE", Website>>}
    <3>1. w \in DeploymentsOf(docs, "ledger")
      BY <2>1, <2>16 DEF DeploymentsOf
    <3>2. Governed(k, names) = LedgerEnv(values)
      BY <2>1, <2>12, <3>1 DEF LedgerTrustedProxyContract
    <3>3. Website # ""
      BY DEF Website
    <3>4. LedgerEnv(values) = E
      BY <2>15, <3>3 DEF LedgerEnv
    <3>5. /\ <<"CLAVENAR_LEDGER_REQUIRE_TRUSTED_PROXY", "true">> \in E
          /\ <<"CLAVENAR_LEDGER_TRUSTED_PROXY_SPIFFE", Website>> \in E
          /\ \A e \in E :
                /\ e[1] = "CLAVENAR_LEDGER_REQUIRE_TRUSTED_PROXY" =>
                      e = <<"CLAVENAR_LEDGER_REQUIRE_TRUSTED_PROXY", "true">>
                /\ e[1] = "CLAVENAR_LEDGER_TRUSTED_PROXY_SPIFFE" =>
                      e = <<"CLAVENAR_LEDGER_TRUSTED_PROXY_SPIFFE", Website>>
      OBVIOUS
    <3>6. /\ "CLAVENAR_LEDGER_REQUIRE_TRUSTED_PROXY" \in names
          /\ "CLAVENAR_LEDGER_TRUSTED_PROXY_SPIFFE" \in names
      OBVIOUS
    <3> HIDE DEF names, E
    <3> QED  BY <3>2, <3>4, <3>5, <3>6, GovernedEnv
  <2> QED  BY <2>14, <2>16
<1> QED  BY <1>1, Invariance, PTL

(***************************************************************************)
(* Whom the policies of an accepted manifest let in.                       *)
(***************************************************************************)
\* Tokens that do not stand for the component they are called after.
OtherTokens(m) ==
    {"prometheus", "vault", "configured-console-operator-peers",
     "configured-console-passkey-peers", "configured-console-demo-peers",
     "configured-ledger-trusted-proxy-peers", "configured-nats-demo-mint-peers",
     "configured-demo-reset-peers"} \cup DOMAIN m.peerSelectors

LEMMA ComponentAdmits ==
  ASSUME NEW labels, NEW pod, pod.space = Home, labels \subseteq pod.labels
  PROVE  Admits(PodPeer(labels), pod)
<1> DEFINE p == PodPeer(labels)
           s == MatchLabels(labels)
<1>1. ~p.block /\ p.spaces = {} /\ p.pods = {s}
  BY DEF PodPeer
<1>2. s.labels = labels /\ s.expressions = {}
  BY DEF MatchLabels
<1> HIDE DEF p, s
<1>3. PodSelectorMatches(s, pod.labels)
  BY <1>2 DEF PodSelectorMatches
<1>4. Admits(p, pod)
  BY <1>1, <1>3 DEF Admits
<1> QED  BY <1>4 DEF p

LEMMA ComponentSource ==
  ASSUME NEW m, NEW v, NEW service, NEW t, t \notin OtherTokens(m), t # "simulator"
  PROVE  PodPeer(Component("clavenar", "app.kubernetes.io/component", t))
            \in Sources(m, v, service, t)
<1>1. ConfiguredPath(t) = {}
  BY DEF ConfiguredPath, OtherTokens
<1>2. t # "prometheus" /\ t # "vault" /\ t \notin DOMAIN m.peerSelectors
  BY DEF OtherTokens
<1>3. Sources(m, v, service, t)
        = {PodPeer(Component("clavenar", "app.kubernetes.io/component", t))}
  BY <1>1, <1>2 DEF Sources
<1> QED  BY <1>3

\* A component that an enabled rule names reaches the rule's port on every pod
\* of the service, as far as the policies are concerned.
LEMMA RuleReaches ==
  ASSUME Validate(matrix, reviewed, values, docs),
         NEW c \in EnabledContracts(matrix, values), NEW r \in EnabledRules(c, values),
         NEW l \in matrix.listeners, l.service = c.service, l.id = r.listener,
         NEW labels, WorkloadSelector(c.service) \subseteq labels,
         NEW t \in r.peers, t \notin OtherTokens(matrix), t # "simulator",
         NEW pod, IsComponent(pod, t)
  PROVE  Reaches(docs, pod, labels, l.containerPort)
<1>1. /\ {p.spec : p \in docs.policies} = ExpectedPolicies(matrix, values)
      /\ ListenerInventory(matrix)
  BY DEF Validate, PoliciesMatch
<1>2. CASE ~values["networkPolicy"]
  <2>1. ExpectedPolicies(matrix, values) = {}
    BY <1>2 DEF ExpectedPolicies
  <2> QED  BY <1>1, <2>1 DEF Reaches, PoliciesOn
<1>3. CASE values["networkPolicy"]
  <2> DEFINE x == ExpectedRule(matrix, values, c.service, r)
             spec == [name |-> c.service, target |-> WorkloadSelector(c.service),
                      ingress |-> {ExpectedRule(matrix, values, c.service, y) :
                                      y \in EnabledRules(c, values)},
                      egress |-> {ExpectedEgress(y) : y \in c.egress}]
  <2>1. spec \in ExpectedPolicies(matrix, values)
    BY <1>3 DEF ExpectedPolicies
  <2>2. spec.target = WorkloadSelector(c.service) /\ x \in spec.ingress
    OBVIOUS
  <2>3. x.port = l.containerPort
    <3> DEFINE k == CHOOSE y \in matrix.listeners : y.service = c.service /\ y.id = r.listener
    <3>1. k \in matrix.listeners /\ k.service = c.service /\ k.id = r.listener
      OBVIOUS
    <3>2. x.port = k.containerPort
      BY DEF ExpectedRule
    <3> HIDE DEF k, x
    <3>3. k = l
      BY <1>1, <3>1 DEF ListenerInventory
    <3> QED  BY <3>2, <3>3
  <2>4. x.from = IF "any" \in r.peers THEN {}
                 ELSE {UNION {Sources(matrix, values, c.service, y) : y \in r.peers}}
    BY DEF ExpectedRule
  <2> HIDE DEF spec, x
  <2>5. RuleAdmits(x, pod)
    <3>1. CASE "any" \in r.peers
      BY <2>4, <3>1 DEF RuleAdmits
    <3>2. CASE "any" \notin r.peers
      <4> DEFINE q == PodPeer(Component("clavenar", "app.kubernetes.io/component", t))
      <4>1. q \in Sources(matrix, values, c.service, t)
        BY ComponentSource
      <4>2. Admits(q, pod)
        BY ComponentAdmits DEF IsComponent
      <4> HIDE DEF q
      <4>3. q \in UNION {Sources(matrix, values, c.service, y) : y \in r.peers}
        BY <4>1
      <4> QED  BY <2>4, <3>2, <4>2, <4>3 DEF RuleAdmits
    <3> QED  BY <3>1, <3>2
  <2>6. PICK p \in docs.policies : p.spec = spec
    BY <1>1, <2>1
  <2>7. p \in PoliciesOn(docs, labels)
    BY <2>2, <2>6 DEF PoliciesOn
  <2> QED  BY <2>2, <2>3, <2>5, <2>6, <2>7 DEF Reaches
<1> QED  BY <1>2, <1>3

(***************************************************************************)
(* Where a Service of an accepted manifest leads to.                       *)
(***************************************************************************)
\* An active listener's port is a container port of a pod of its service: the
\* check counts them per number.
LEMMA ListenerExposed ==
  ASSUME IInv, Validate(matrix, reviewed, values, docs),
         NEW l \in ActiveListeners(matrix, values)
  PROVE  \E w \in docs.workloads :
            /\ WorkloadSelector(l.service) \subseteq w.labels
            /\ \E c \in w.containers : \E q \in c.ports : q.port = l.containerPort
<1> DEFINE selected == {x \in docs.workloads : WorkloadSelector(l.service) \subseteq x.labels}
           rendered == UNION {ExposedPorts(w) : w \in selected}
           governed == {k \in ActiveListeners(matrix, values) : k.service = l.service}
           listening == {k \in governed : k.containerPort = l.containerPort}
           exposed == {p \in rendered : p[4] = l.containerPort}
<1>0. /\ l.service \in {k.service : k \in ActiveListeners(matrix, values)}
      /\ l.containerPort \in {p[4] : p \in rendered} \cup {k.containerPort : k \in governed}
      /\ PortsAreListeners(matrix, values, docs)
  BY DEF Validate, WorkloadsMatch
<1>1. Cardinality(exposed) = Cardinality(listening)
  BY <1>0, Zenon DEF PortsAreListeners
<1>2. l \in listening /\ listening \in SUBSET matrix.listeners
  BY DEF ActiveListeners
<1>3. IsFiniteSet(matrix.listeners)
  BY DEF IInv, Standing
<1> HIDE DEF listening
<1>4. Cardinality(listening) # 0
  BY <1>2, <1>3, FS_Subset, FS_EmptySet
<1> HIDE DEF exposed
<1>5. PICK e : e \in exposed
  BY <1>1, <1>4, FS_EmptySet
<1>6. e \in rendered /\ e[4] = l.containerPort
  BY <1>5 DEF exposed
<1>7. PICK w \in selected : e \in ExposedPorts(w)
  BY <1>6
<1>8. PICK c \in w.containers : e \in {<<w.name, c.name, p.name, p.port>> : p \in c.ports}
  BY <1>7 DEF ExposedPorts
<1>9. PICK q \in c.ports : e = <<w.name, c.name, q.name, q.port>>
  BY <1>8
<1>10. q.port = l.containerPort
  BY <1>6, <1>9
<1> QED  BY <1>7, <1>10

\* And the other way round.
LEMMA ExposedListened ==
  ASSUME IInv, Validate(matrix, reviewed, values, docs),
         NEW k \in ActiveListeners(matrix, values),
         NEW w \in docs.workloads, WorkloadSelector(k.service) \subseteq w.labels,
         NEW c \in w.containers, NEW q \in c.ports
  PROVE  \E l \in ActiveListeners(matrix, values) :
            l.service = k.service /\ l.containerPort = q.port
<1> DEFINE selected == {x \in docs.workloads : WorkloadSelector(k.service) \subseteq x.labels}
           rendered == UNION {ExposedPorts(x) : x \in selected}
           governed == {l \in ActiveListeners(matrix, values) : l.service = k.service}
           listening == {l \in governed : l.containerPort = q.port}
           exposed == {p \in rendered : p[4] = q.port}
           e == <<w.name, c.name, q.name, q.port>>
<1>1. e \in ExposedPorts(w) /\ e[4] = q.port
  BY DEF ExposedPorts
<1> HIDE DEF e
<1>2. e \in exposed /\ q.port \in {p[4] : p \in rendered}
  BY <1>1
<1>0. /\ k.service \in {l.service : l \in ActiveListeners(matrix, values)}
      /\ q.port \in {p[4] : p \in rendered} \cup {l.containerPort : l \in governed}
      /\ PortsAreListeners(matrix, values, docs)
  BY <1>2 DEF Validate, WorkloadsMatch
<1>3. Cardinality(exposed) = Cardinality(listening)
  BY <1>0, Zenon DEF PortsAreListeners
<1>4. exposed \in SUBSET UNION {ExposedPorts(x) : x \in docs.workloads}
  OBVIOUS
<1>5. IsFiniteSet(UNION {ExposedPorts(x) : x \in docs.workloads})
  BY DEF IInv, DocsInv
<1> HIDE DEF exposed
<1>6. Cardinality(exposed) # 0
  BY <1>2, <1>4, <1>5, FS_Subset, FS_EmptySet
<1> HIDE DEF listening
<1>7. PICK l : l \in listening
  BY <1>3, <1>6, FS_EmptySet
<1> QED  BY <1>7 DEF listening

\* A port of a Service object leads to the container ports it means.
LEMMA ServiceLeads ==
  ASSUME Validate(matrix, reviewed, values, docs),
         NEW o \in EnabledObjects(matrix, values), NEW p \in EnabledPorts(o, values),
         NEW w \in docs.workloads, \E sel \in ServiceSelector(o) : sel \subseteq w.labels,
         NEW c \in w.containers, NEW q \in c.ports,
         q.port \in p.target.number \/ q.name \in p.target.name
  PROVE  LET s == ExpectedService(o, values)
             x == ExpectedPort(p, values)
         IN  /\ s \in docs.services /\ s.name = o.name /\ s.type = o.type
             /\ s.external = o.external
             /\ x \in s.ports /\ x.port = p.port
             /\ <<w, q.port>> \in Endpoints(docs, s, x)
<1> DEFINE s == ExpectedService(o, values)
           x == ExpectedPort(p, values)
<1>1. s \in docs.services
  BY DEF Validate, ServicesMatch, ExpectedServices
<1>2. /\ s.name = o.name /\ s.type = o.type /\ s.external = o.external
      /\ s.selector = ServiceSelector(o) /\ x \in s.ports
  BY DEF ExpectedService
<1>3. x.port = p.port /\ x.target = p.target
  BY DEF ExpectedPort
<1> HIDE DEF s, x
<1>4. q.port \in x.target.number \cup UNION {Resolved(k, x.target) : k \in w.containers}
  BY <1>3 DEF Resolved
<1>5. <<w, q.port>> \in Endpoints(docs, s, x)
  BY <1>2, <1>4 DEF Endpoints
<1>6. /\ s \in docs.services /\ s.name = o.name /\ s.type = o.type /\ s.external = o.external
      /\ x \in s.ports /\ x.port = p.port /\ <<w, q.port>> \in Endpoints(docs, s, x)
  BY <1>1, <1>2, <1>3, <1>5
<1> QED  BY <1>6 DEF s, x

\* A port of a service that a Service object publishes, a Service with the
\* service's own selector publishes: aliases only add names.
Fronted(m, v) ==
    \A a \in EnabledObjects(m, v) : \A q \in EnabledPorts(a, v) :
        \E o \in EnabledObjects(m, v) : \E p \in EnabledPorts(o, v) :
            /\ AliasOf(o.id) = AliasOf(a.id) /\ p.port = q.port
            /\ ServiceSelector(o) = {WorkloadSelector(AliasOf(o.id))}

\* The containers call a listener's port what the Service objects call it.
TargetsNamed(m, v, d) ==
    \A o \in EnabledObjects(m, v) : \A p \in EnabledPorts(o, v) :
        \A l \in ActiveListeners(m, v) :
            l.published /\ l.service = AliasOf(o.id) /\ l.servicePort = p.port =>
                \A w \in d.workloads : WorkloadSelector(l.service) \subseteq w.labels =>
                    \A c \in w.containers : \A q \in c.ports : q.port = l.containerPort =>
                        q.port \in p.target.number \/ q.name \in p.target.name

\* No component is called like a token that stands for somebody else.
TokensApart(m) ==
    /\ BrainClients \cap DOMAIN m.peerSelectors = {}
    /\ \A t \in OtherTokens(m) : \A pod \in Pods : ~IsComponent(pod, t)

\* What the check leaves to whoever reviews Service objects and port names.
Wired(m, v, d) == Fronted(m, v) /\ TargetsNamed(m, v, d) /\ TokensApart(m)

LEMMA ListenerFronted ==
  ASSUME Validate(matrix, reviewed, values, docs), Fronted(matrix, values),
         NEW l \in ActiveListeners(matrix, values), l.published
  PROVE  \E o \in EnabledObjects(matrix, values) : \E p \in EnabledPorts(o, values) :
            /\ AliasOf(o.id) = l.service /\ p.port = l.servicePort
            /\ ServiceSelector(o) = {WorkloadSelector(l.service)}
<1>1. PublicationsMatch(matrix, values)
  BY DEF Validate
<1>2. <<l.service, l.servicePort>> \in
        UNION {{<<AliasOf(o.id), p.port>> : p \in EnabledPorts(o, values)} :
                 o \in EnabledObjects(matrix, values)}
  BY <1>1 DEF PublicationsMatch
<1>3. PICK a \in EnabledObjects(matrix, values) :
        <<l.service, l.servicePort>> \in
          {<<AliasOf(a.id), p.port>> : p \in EnabledPorts(a, values)}
  BY <1>2
<1>4. PICK q \in EnabledPorts(a, values) : AliasOf(a.id) = l.service /\ q.port = l.servicePort
  BY <1>3
<1>5. PICK o \in EnabledObjects(matrix, values) : \E p \in EnabledPorts(o, values) :
        /\ AliasOf(o.id) = AliasOf(a.id) /\ p.port = q.port
        /\ ServiceSelector(o) = {WorkloadSelector(AliasOf(o.id))}
  BY DEF Fronted
<1>6. AliasOf(o.id) = l.service
  BY <1>4, <1>5
<1>7. ServiceSelector(o) = {WorkloadSelector(l.service)}
  BY <1>5, <1>6
<1> QED  BY <1>4, <1>5, <1>6, <1>7

\* A component that an enabled rule of an accepted manifest names finds the
\* rule's published listener behind a Service of the release, on a pod whose
\* policies let it in, if Service objects and containers agree on the names of
\* ports (validate: Services, publications, counted ports and policies).
THEOREM CallersReached == Spec => [](Wired(matrix, values, docs) => CallersServed)
<1>1. IInv /\ Wired(matrix, values, docs) => CallersServed
  <2> SUFFICES ASSUME IInv, Wired(matrix, values, docs), passed,
                      NEW c \in EnabledContracts(matrix, values),
                      NEW r \in EnabledRules(c, values),
                      NEW l \in ActiveListeners(matrix, values),
                      l.service = c.service, l.id = r.listener, l.published
               PROVE  \E s \in docs.services : \E p \in s.ports :
                        /\ p.port = l.servicePort
                        /\ \E e \in Endpoints(docs, s, p) :
                              /\ e[2] = l.containerPort
                              /\ \A pod \in Pods :
                                    (\E t \in r.peers \ {"simulator"} : IsComponent(pod, t)) =>
                                        Reaches(docs, pod, e[1].labels, e[2])
    BY DEF CallersServed
  <2>1. Validate(matrix, reviewed, values, docs) /\ l \in matrix.listeners
    BY DEF IInv, PassedValid, ActiveListeners
  <2>2. Fronted(matrix, values) /\ TargetsNamed(matrix, values, docs) /\ TokensApart(matrix)
    BY DEF Wired
  <2> PICK o \in EnabledObjects(matrix, values) : \E p \in EnabledPorts(o, values) :
          /\ AliasOf(o.id) = l.service /\ p.port = l.servicePort
          /\ ServiceSelector(o) = {WorkloadSelector(l.service)}
    BY <2>1, <2>2, ListenerFronted
  <2>3. PICK p \in EnabledPorts(o, values) :
          /\ AliasOf(o.id) = l.service /\ p.port = l.servicePort
          /\ ServiceSelector(o) = {WorkloadSelector(l.service)}
    OBVIOUS
  <2>4. PICK w \in docs.workloads :
          /\ WorkloadSelector(l.service) \subseteq w.labels
          /\ \E k \in w.containers : \E q \in k.ports : q.port = l.containerPort
    BY <2>1, ListenerExposed
  <2>5. PICK k \in w.containers : \E q \in k.ports : q.port = l.containerPort
    BY <2>4
  <2>6. PICK q \in k.ports : q.port = l.containerPort
    BY <2>5
  <2>7. q.port \in p.target.number \/ q.name \in p.target.name
    BY <2>2, <2>3, <2>4, <2>6 DEF TargetsNamed
  <2>8. \E sel \in ServiceSelector(o) : sel \subseteq w.labels
    BY <2>3, <2>4
  <2> DEFINE s == ExpectedService(o, values)
             x == ExpectedPort(p, values)
             e == <<w, l.containerPort>>
  <2>9. s \in docs.services /\ x \in s.ports /\ x.port = p.port /\ e \in Endpoints(docs, s, x)
    BY <2>1, <2>6, <2>7, <2>8, ServiceLeads
  <2>10. e[1] = w /\ e[2] = l.containerPort
    OBVIOUS
  <2>11. ASSUME NEW pod \in Pods, NEW t \in r.peers \ {"simulator"}, IsComponent(pod, t)
         PROVE  Reaches(docs, pod, w.labels, l.containerPort)
    <3>1. t \notin OtherTokens(matrix)
      BY <2>2, <2>11 DEF TokensApart
    <3> QED  BY <2>1, <2>4, <2>11, <3>1, RuleReaches
  <2> HIDE DEF s, x, e
  <2> QED  BY <2>3, <2>9, <2>10, <2>11
<1> QED  BY <1>1, Invariance, PTL

(***************************************************************************)
(* Where the URLs of brain's and assurance's clients end.                  *)
(***************************************************************************)
\* The ports that the clients of brain and assurance are given.
Controls == {<<"brain", 8081>>, <<"assurance", 8088>>}

\* The matrix calls them authenticated and publishes them under their number.
ControlsListed(m, v) ==
    \A l \in ActiveListeners(m, v) : <<l.service, l.containerPort>> \in Controls =>
        l.authenticated /\ l.published /\ l.servicePort = l.containerPort

\* The Services behind them have the host names of the URLs: their own, or
\* that of an alias which leads to it.
HostsLead(m, v) ==
    \A o \in EnabledObjects(m, v) : \A control \in Controls :
        ServiceSelector(o) = {WorkloadSelector(control[1])} =>
            /\ o.type # "ExternalName"
            /\ IF v["workloadIdentity"]
               THEN \E a \in EnabledObjects(m, v) :
                       /\ a.name = <<control[1]>> /\ a.type = "ExternalName"
                       /\ a.external = {o.name \o <<Home>>}
               ELSE o.name = <<Release, control[1]>>

\* A client that the matrix allows there is in a rule that is enabled.
ClientsRuled(m, v) ==
    \A l \in ActiveListeners(m, v) : \A t \in BrainClients \cap l.allowed :
        <<l.service, l.containerPort>> \in Controls =>
            \E c \in EnabledContracts(m, v) : \E r \in EnabledRules(c, v) :
                c.service = l.service /\ r.listener = l.id /\ t \in r.peers

\* Only the clients themselves are given the variables.
UrlsOwned(d) ==
    \A w \in d.workloads : \A c \in Main(w) :
        /\ Env(c, "CLAVENAR_CONSOLE_BRAIN_URL") \cup Env(c, "CLAVENAR_ASSURANCE_URL") # {}
              => w.name = "console"
        /\ Env(c, "CLAVENAR_POLICY_ENGINE_BRAIN_URL") # {} => w.name = "policy-engine"

\* What the check leaves to whoever reviews the two controls.
ClientsWired(m, v, d) ==
    ControlsListed(m, v) /\ HostsLead(m, v) /\ ClientsRuled(m, v) /\ UrlsOwned(d)

\* The container of a control is there, with its port, if the control is.
LEMMA ControlDeployed ==
  ASSUME Validate(matrix, reviewed, values, docs),
         NEW control \in Controls, values[control[1]]
  PROVE  \E w \in docs.workloads : \E c \in w.containers : \E q \in c.ports :
            w.name = control[1] /\ q.port = control[2]
<1> DEFINE s == control[1]
<1>1. /\ Single(docs, s)
      /\ \A w \in DeploymentsOf(docs, s) : \A c \in Main(w) :
            \E x \in NamedPorts(c) : x[2] = control[2]
  <2>1. CASE control = <<"brain", 8081>>
    <3>1. BrainContract(values, docs) /\ values["brain"]
      BY <2>1 DEF Validate
    <3>2. s = "brain" /\ control[2] = 8081
      BY <2>1
    <3> HIDE DEF s
    <3>3. Single(docs, s)
      BY <3>1, <3>2 DEF BrainContract, Rendered
    <3>4. ASSUME NEW w \in DeploymentsOf(docs, s), NEW c \in Main(w)
          PROVE  <<"http", 8081>> \in NamedPorts(c)
      BY <3>1, <3>2 DEF BrainContract
    <3>5. <<"http", 8081>>[2] = 8081
      OBVIOUS
    <3> QED  BY <3>2, <3>3, <3>4, <3>5
  <2>2. CASE control = <<"assurance", 8088>>
    <3>1. AssuranceContract(values, docs) /\ values["assurance"]
      BY <2>2 DEF Validate
    <3>2. s = "assurance" /\ control[2] = 8088
      BY <2>2
    <3> HIDE DEF s
    <3>3. Single(docs, s)
      BY <3>1, <3>2 DEF AssuranceContract, Rendered
    <3>4. ASSUME NEW w \in DeploymentsOf(docs, s), NEW c \in Main(w)
          PROVE  <<"control-mtls", 8088>> \in NamedPorts(c)
      BY <3>1, <3>2 DEF AssuranceContract
    <3>5. <<"control-mtls", 8088>>[2] = 8088
      OBVIOUS
    <3> QED  BY <3>2, <3>3, <3>4, <3>5
  <2> QED  BY <2>1, <2>2 DEF Controls
<1>2. PICK w \in DeploymentsOf(docs, s) : Cardinality(Main(w)) = 1
  <2>1. DeploymentsOf(docs, s) # {}
    BY <1>1, FS_EmptySet DEF Single
  <2> QED  BY <1>1, <2>1 DEF Single
<1>3. PICK c : c \in Main(w)
  BY <1>2, FS_EmptySet
<1>4. PICK x \in NamedPorts(c) : x[2] = control[2]
  BY <1>1, <1>3
<1>5. PICK q \in c.ports : x = <<q.name, q.port>>
  BY DEF NamedPorts
<1> QED  BY <1>3, <1>4, <1>5 DEF DeploymentsOf, Main

\* The URL of a control ends at the port of its authenticated listener.
LEMMA ControlBacked ==
  ASSUME IInv, Validate(matrix, reviewed, values, docs), Wired(matrix, values, docs),
         ControlsListed(matrix, values), HostsLead(matrix, values), values["tls"],
         NEW control \in Controls, values[control[1]]
  PROVE  \E w \in docs.workloads : \E l \in ActiveListeners(matrix, values) :
            /\ <<w, control[2]>> \in Backends(docs, Https(values, control[1], control[2]))
            /\ w.name = control[1] /\ WorkloadSelector(control[1]) \subseteq w.labels
            /\ l.service = control[1] /\ l.containerPort = control[2] /\ l.authenticated
<1> DEFINE service == control[1]
           n == control[2]
           url == Https(values, service, n)
<1>0. control = <<service, n>> /\ service \in OwnServices
  BY DEF Controls, OwnServices
<1> PICK w \in docs.workloads : \E c \in w.containers : \E q \in c.ports :
           w.name = service /\ q.port = n
  BY ControlDeployed
<1> PICK c \in w.containers : \E q \in c.ports : w.name = service /\ q.port = n
  OBVIOUS
<1>1. PICK q \in c.ports : w.name = service /\ q.port = n
  OBVIOUS
<1>2. OwnComponent(w)
  BY <1>0, <1>1 DEF IInv, DocsInv
<1>3. WorkloadSelector(service) \subseteq w.labels
  BY <1>1, <1>2 DEF OwnComponent
<1> HIDE DEF service, n, url
<1>4. PICK k \in ActiveListeners(matrix, values) : k.service = service
  <2>1. PICK s \in MatchingServices(matrix, values, w) : TRUE
    BY <1>2 DEF Validate, WorkloadsMatch, OwnComponent
  <2>2. PICK k \in ActiveListeners(matrix, values) : k.service = s
    BY DEF MatchingServices
  <2>3. s = service
    BY <1>0, <1>2, <1>3, <2>1, OnlySelector DEF MatchingServices, OwnComponent
  <2> QED  BY <2>2, <2>3
<1>5. PICK l \in ActiveListeners(matrix, values) : l.service = service /\ l.containerPort = n
  BY <1>1, <1>3, <1>4, ExposedListened
<1>6. l.authenticated /\ l.published /\ l.servicePort = n
  BY <1>0, <1>5 DEF ControlsListed
<1> PICK o \in EnabledObjects(matrix, values) : \E p \in EnabledPorts(o, values) :
           /\ AliasOf(o.id) = service /\ p.port = n
           /\ ServiceSelector(o) = {WorkloadSelector(service)}
  BY <1>5, <1>6, ListenerFronted DEF Wired
<1>7. PICK p \in EnabledPorts(o, values) :
        /\ AliasOf(o.id) = service /\ p.port = n
        /\ ServiceSelector(o) = {WorkloadSelector(service)}
  OBVIOUS
<1>8. q.port \in p.target.number \/ q.name \in p.target.name
  BY <1>1, <1>3, <1>5, <1>6, <1>7 DEF Wired, TargetsNamed
<1>9. \E sel \in ServiceSelector(o) : sel \subseteq w.labels
  BY <1>3, <1>7
<1> DEFINE s == ExpectedService(o, values)
           x == ExpectedPort(p, values)
<1>10. /\ s \in docs.services /\ s.name = o.name /\ s.type = o.type
       /\ x \in s.ports /\ x.port = n /\ <<w, n>> \in Endpoints(docs, s, x)
  BY <1>1, <1>7, <1>8, <1>9, ServiceLeads
<1> HIDE DEF s, x
<1>11. s \in ServicesAt(docs, url[1])
  <2>1. /\ o.type # "ExternalName"
        /\ IF values["workloadIdentity"]
           THEN \E a \in EnabledObjects(matrix, values) :
                   /\ a.name = <<service>> /\ a.type = "ExternalName"
                   /\ a.external = {o.name \o <<Home>>}
           ELSE o.name = <<Release, service>>
    BY <1>7 DEF HostsLead, service
  <2>2. CASE values["workloadIdentity"]
    <3>1. url[1] = <<service>>
      BY <2>2 DEF url, Https
    <3>2. PICK a \in EnabledObjects(matrix, values) :
            /\ a.name = <<service>> /\ a.type = "ExternalName"
            /\ a.external = {o.name \o <<Home>>}
      BY <2>1, <2>2
    <3> DEFINE alias == ExpectedService(a, values)
    <3>3. alias \in docs.services
      BY DEF Validate, ServicesMatch, ExpectedServices
    <3>4. alias.name = a.name /\ alias.type = a.type /\ alias.external = a.external
      BY DEF ExpectedService
    <3> HIDE DEF alias
    <3>5. alias.external = {s.name \o <<Home>>}
      BY <1>10, <3>2, <3>4
    <3> QED  BY <1>10, <3>1, <3>2, <3>3, <3>4, <3>5 DEF ServicesAt
  <2>3. CASE ~values["workloadIdentity"]
    <3>1. url[1] = <<Release, service>>
      BY <2>3 DEF url, Https
    <3> QED  BY <1>10, <2>1, <2>3, <3>1 DEF ServicesAt
  <2> QED  BY <2>2, <2>3
<1>12. url[2] = n
  BY DEF url, Https
<1>13. <<w, n>> \in Backends(docs, url)
  BY <1>10, <1>11, <1>12 DEF Backends
<1> QED  BY <1>1, <1>3, <1>5, <1>6, <1>13 DEF service, n, url

\* What the contracts say of the URL of a client that is a Deployment.
LEMMA ClientUrl ==
  ASSUME Validate(matrix, reviewed, values, docs), UrlsOwned(docs), values["brain"],
         NEW w \in docs.workloads, w.kind = "Deployment", ReadByName(w),
         NEW c \in Main(w), NEW url \in Urls(c)
  PROVE  /\ w.name \in BrainClients
         /\ \E control \in Controls :
               values[control[1]] /\ url = Https(values, control[1], control[2])
<1> DEFINE brain == <<"brain", 8081>>
           assurance == <<"assurance", 8088>>
<1>1. brain \in Controls /\ assurance \in Controls
  BY DEF Controls
<1>3. CASE url \in Env(c, "CLAVENAR_POLICY_ENGINE_BRAIN_URL")
  <2>1. w.name = "policy-engine"
    BY <1>3 DEF UrlsOwned
  <2>2. Governed(c, {e[1] : e \in BrainClientEnv(values, "policy-engine")})
          = BrainClientEnv(values, "policy-engine")
    <3>1. w \in DeploymentsOf(docs, "policy-engine")
      BY <2>1 DEF DeploymentsOf
    <3>2. c \in First(w)
      BY <2>1 DEF First, Main, ReadByName
    <3> QED  BY <3>1, <3>2 DEF Validate, BrainContract, BrainClientsMatch, BrainClients
  <2>4. PICK e \in c.env : e[1] = "CLAVENAR_POLICY_ENGINE_BRAIN_URL" /\ e[2] = url
    BY <1>3 DEF Env
  <2> DEFINE y == <<"CLAVENAR_POLICY_ENGINE_BRAIN_URL", Https(values, "brain", 8081)>>
             z == <<"CLAVENAR_POLICY_EXPECTED_PEER_SPIFFE", "identity,brain">>
  <2>5. /\ y[1] = e[1] /\ z[1] # e[1]
        /\ y[2] = Https(values, "brain", 8081)
    <3>1. /\ y[1] = "CLAVENAR_POLICY_ENGINE_BRAIN_URL"
          /\ y[2] = Https(values, "brain", 8081)
          /\ z[1] = "CLAVENAR_POLICY_EXPECTED_PEER_SPIFFE"
      OBVIOUS
    <3> HIDE DEF y, z
    <3> QED  BY <2>4, <3>1
  <2>6. BrainClientEnv(values, "policy-engine") = {y, z}
    BY DEF BrainClientEnv
  <2> HIDE DEF y, z
  <2>7. e \in BrainClientEnv(values, "policy-engine")
    <3>1. y \in BrainClientEnv(values, "policy-engine")
      BY <2>6
    <3>2. e[1] \in {d[1] : d \in BrainClientEnv(values, "policy-engine")}
      BY <3>1, <2>5
    <3> QED  BY <2>2, <2>4, <3>2 DEF Governed
  <2>8. e = y
    BY <2>5, <2>6, <2>7
  <2>9. url = Https(values, "brain", 8081)
    BY <2>4, <2>5, <2>8
  <2> QED  BY <1>1, <2>1, <2>9 DEF BrainClients
<1>4. CASE url \in Env(c, "CLAVENAR_CONSOLE_BRAIN_URL") \cup Env(c, "CLAVENAR_ASSURANCE_URL")
  <2>1. w.name = "console"
    BY <1>4 DEF UrlsOwned
  <2>2. Governed(c, ConsoleNames) = ConsoleEnv(values)
    <3>1. w \in DeploymentsOf(docs, "console")
      BY <2>1 DEF DeploymentsOf
    <3> QED  BY <3>1 DEF Validate, ConsoleContract
  <2>3. PICK e \in c.env :
          /\ e[1] \in {"CLAVENAR_CONSOLE_BRAIN_URL", "CLAVENAR_ASSURANCE_URL"}
          /\ e[2] = url
    BY <1>4 DEF Env
  <2>4. e \in ConsoleEnv(values)
    BY <2>2, <2>3 DEF Governed, ConsoleNames
  <2>5. CASE e[1] = "CLAVENAR_CONSOLE_BRAIN_URL"
    <3>1. e = <<"CLAVENAR_CONSOLE_BRAIN_URL", Https(values, "brain", 8081)>>
      BY <2>4, <2>5 DEF ConsoleEnv
    <3>2. url = Https(values, "brain", 8081)
      BY <2>3, <3>1
    <3> QED  BY <1>1, <2>1, <3>2 DEF BrainClients
  <2>6. CASE e[1] = "CLAVENAR_ASSURANCE_URL"
    <3>1. /\ e = <<"CLAVENAR_ASSURANCE_URL", Https(values, "assurance", 8088)>>
          /\ values["assurance"]
      BY <2>4, <2>6 DEF ConsoleEnv
    <3>2. url = Https(values, "assurance", 8088)
      BY <2>3, <3>1
    <3> QED  BY <1>1, <2>1, <3>1, <3>2 DEF BrainClients
  <2> QED  BY <2>3, <2>5, <2>6
<1> QED  BY <1>3, <1>4 DEF Urls

\* In an accepted manifest with workload TLS every URL that the Deployments
\* console and policy-engine (its container the first one) are given for brain and assurance ends at the port of an
\* authenticated listener, and the policies there let in a client that the
\* matrix allows, if aliases, port names and rules are what Wired and
\* ClientsWired say (the contracts of console, brain and assurance, and the
\* comparisons of Services, ports and policies).
THEOREM ClientsServed ==
    Spec => [](Wired(matrix, values, docs) /\ ClientsWired(matrix, values, docs)
                 => ClientsReach)
<1>1. IInv /\ Wired(matrix, values, docs) /\ ClientsWired(matrix, values, docs)
        => ClientsReach
  <2> SUFFICES ASSUME IInv, Wired(matrix, values, docs), ClientsWired(matrix, values, docs),
                      passed, values["tls"], values["brain"],
                      NEW w \in docs.workloads, w.kind = "Deployment", ReadByName(w),
                      NEW c \in Main(w), NEW url \in Urls(c)
               PROVE  \E e \in Backends(docs, url) :
                        \E l \in ActiveListeners(matrix, values) :
                            /\ l.service = e[1].name /\ l.containerPort = e[2]
                            /\ l.authenticated
                            /\ w.name \in l.allowed =>
                                  Reaches(docs, [space |-> Home, labels |-> w.labels],
                                          e[1].labels, e[2])
    BY DEF ClientsReach
  <2>1. Validate(matrix, reviewed, values, docs)
    BY DEF IInv, PassedValid
  <2>2. /\ ControlsListed(matrix, values) /\ HostsLead(matrix, values)
        /\ ClientsRuled(matrix, values) /\ UrlsOwned(docs)
        /\ TokensApart(matrix)
    BY DEF ClientsWired, Wired
  <2>3. w.name \in BrainClients
    BY <2>1, <2>2, ClientUrl
  <2>4. PICK control \in Controls :
          values[control[1]] /\ url = Https(values, control[1], control[2])
    BY <2>1, <2>2, ClientUrl
  <2> PICK b \in docs.workloads : \E l \in ActiveListeners(matrix, values) :
          /\ <<b, control[2]>> \in Backends(docs, url)
          /\ b.name = control[1] /\ WorkloadSelector(control[1]) \subseteq b.labels
          /\ l.service = control[1] /\ l.containerPort = control[2] /\ l.authenticated
    BY <2>1, <2>2, <2>4, ControlBacked
  <2>5. PICK l \in ActiveListeners(matrix, values) :
          /\ <<b, control[2]>> \in Backends(docs, url)
          /\ b.name = control[1] /\ WorkloadSelector(control[1]) \subseteq b.labels
          /\ l.service = control[1] /\ l.containerPort = control[2] /\ l.authenticated
    OBVIOUS
  <2> DEFINE pod == [space |-> Home, labels |-> w.labels]
  <2>6. ASSUME w.name \in l.allowed
        PROVE  Reaches(docs, pod, b.labels, l.containerPort)
    <3>1. <<l.service, l.containerPort>> \in Controls
      BY <2>5 DEF Controls
    <3> PICK k \in EnabledContracts(matrix, values) : \E r \in EnabledRules(k, values) :
            k.service = l.service /\ r.listener = l.id /\ w.name \in r.peers
      BY <2>2, <2>3, <2>6, <3>1 DEF ClientsRuled
    <3>2. PICK r \in EnabledRules(k, values) :
            k.service = l.service /\ r.listener = l.id /\ w.name \in r.peers
      OBVIOUS
    <3>3. w.name \notin OtherTokens(matrix) /\ w.name # "simulator"
      BY <2>2, <2>3 DEF TokensApart, OtherTokens, BrainClients
    <3>4. OwnComponent(w)
      BY <2>3 DEF IInv, DocsInv, OwnServices, CapabilityServices, BrainClients
    <3>5. WorkloadSelector(w.name)
            = Component("clavenar", "app.kubernetes.io/component", w.name)
      BY <2>3 DEF WorkloadSelector, BrainClients
    <3>6. IsComponent(pod, w.name)
      BY <3>4, <3>5 DEF OwnComponent, IsComponent
    <3>7. l \in matrix.listeners
      BY DEF ActiveListeners
    <3> HIDE DEF pod
    <3> QED  BY <2>1, <2>5, <3>2, <3>3, <3>6, <3>7, RuleReaches
  <2> DEFINE e == <<b, control[2]>>
  <2>7. e[1] = b /\ e[2] = l.containerPort
    BY <2>5
  <2> HIDE DEF e
  <2>8. e \in Backends(docs, url)
    BY <2>5 DEF e
  <2> QED  BY <2>5, <2>6, <2>7, <2>8
<1> QED  BY <1>1, Invariance, PTL
================================================================================

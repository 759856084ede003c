------------------------ MODULE DependencyReadiness ------------------------
(***************************************************************************)
(* The dependency-readiness contract (clavenar.dependency-readiness/v1),   *)
(* its projection by the chart's templates, and the check that the two     *)
(* agree (scripts/check_dependency_readiness.py), run by CI next to the    *)
(* listener check, which pins Service ports and network policies.          *)
(*                                                                         *)
(* Abstractions.  A URL is its host and its endpoint, an endpoint a port   *)
(* and a path.  A gate script is the set of URLs it waits for; a URL is in *)
(* its text when it is one of them or begins one of them.  A network       *)
(* policy is the set of <<destination, port, caller>> it admits.  Byte     *)
(* equality of files and checksums is equality of the contract.            *)
(***************************************************************************)
EXTENDS Naturals, FiniteSets

CONSTANTS
    Applications,    \* APPLICATIONS
    Infrastructure,  \* nats, vault and upstream-stub
    Contract0,       \* files/dependency-readiness-v1.fixture.json
    Templates0,      \* what the templates project
    Cases,           \* VALUES_CASES
    Bundled,         \* case -> the infrastructure it bundles
    GovernedPorts,   \* Service ports of the listener matrix
    GovernedCallers, \* <<destination, port, caller>> of the listener matrix
    GovernedNotReady,\* Services it lets publish pods that are not ready
    NewEdges,        \* startup edges an edit may add: <<service, dependency>>
    Editable,        \* the applications whose entries the edits touch
    OtherEndpoint,   \* another endpoint an edit may use
    Begins,          \* <<e, f>>: the URL of endpoint e begins that of f
    MaxEdits         \* bound on the edits of the repository

Inventory == Applications \cup Infrastructure

ASSUME EditBound == MaxEdits \in Nat

VARIABLES
    contract,   \* the fixture
    mirror,     \* its copy in the specs repository
    templates,  \* what templates/ renders
    accepted,   \* the last CI run accepted the repository as it now is
    edits

repo == <<contract, mirror, templates, accepted, edits>>

----------------------------------------------------------------------------
(* Reading the contract. *)

Service(c, id) == CHOOSE s \in c.services : s.id = id

HelmDependencies(c, id) ==
    {e.service : e \in {x \in Service(c, id).after : x.helm}}

HelmIds(c) == {s.id : s \in {x \in c.services : x.helm}}

\* contract_documents
ContractDocuments(c) ==
    /\ c.name = "clavenar.dependency-readiness/v1"
    /\ c.schemaVersion = 1
    /\ \A s, t \in c.services : s.id = t.id => s = t
    /\ HelmIds(c) = Inventory

BundledAt(d) ==
    CASE d = "nats" -> <<8222, "/healthz?js-enabled-only=true">>
      [] d = "vault" -> <<8200, "/v1/sys/health">>
      [] d = "upstream-stub" -> <<9000, "/readyz">>

External(d) == [host |-> "external", at |-> BundledAt(d)]

\* target_url
TargetUrl(c, d, case) ==
    IF d \notin Infrastructure
    THEN [host |-> d, at |-> Service(c, d).ready]
    ELSE IF d \in Bundled[case]
         THEN [host |-> d, at |-> BundledAt(d)]
         ELSE External(d)

\* clavenar.dependencyReadinessUrl: the templates' own idea of the endpoint.
RenderedUrl(t, d, case) ==
    IF d \in Infrastructure /\ d \notin Bundled[case]
    THEN External(d)
    ELSE [host |-> d, at |-> t.endpoint[d]]

----------------------------------------------------------------------------
(* verify_case. *)

\* Mutant of ProbesMatch: liveness is not compared.
ProbesMatchReady(c, t, a) ==
    t.ready[a] = Service(c, a).ready /\ t.checksums[a] = {"schema", "fixture"}

ProbesMatch(c, t, a) ==
    /\ t.live[a] = Service(c, a).live
    /\ t.ready[a] = Service(c, a).ready
    /\ Service(c, a).live[2] # Service(c, a).ready[2]
    /\ t.checksums[a] = {"schema", "fixture"}

GateTargets(t, a, case) == {RenderedUrl(t, d, case) : d \in t.graph[a]}

\* target_url(...) in script: a substring of the gate's text.
InScript(url, t, a, case) ==
    \E w \in GateTargets(t, a, case) :
        w.host = url.host /\ (w.at = url.at \/ <<url.at, w.at>> \in Begins)

\* Mutant of GateMatches: the script names some dependency.
GateMatchesSome(c, t, a, case) ==
    HelmDependencies(c, a) # {} =>
        \E d \in HelmDependencies(c, a) : InScript(TargetUrl(c, d, case), t, a, case)

\* The templates render a gate exactly for a service with targets.
GateMatches(c, t, a, case) ==
    HelmDependencies(c, a) # {} =>
        /\ t.graph[a] # {}
        /\ t.gate = [timeout |-> 2, attempts |-> 30]
        /\ \A d \in HelmDependencies(c, a) : InScript(TargetUrl(c, d, case), t, a, case)

RuntimeEdges ==
    {e \in ({"proxy"} \X {"brain", "policy-engine", "hil", "ledger",
                          "identity", "upstream-stub"})
           \cup ({"console"} \X {"brain", "policy-engine", "ledger", "hil",
                                 "identity", "assurance"})
           \cup {<<"assurance", "proxy">>} :
        e[1] \in Applications /\ e[2] \in Inventory}

RuntimeUrl(t, e, case) ==
    IF e \in t.runtime THEN RenderedUrl(t, e[2], case) ELSE External("nats")

RuntimeMatches(c, t, case) ==
    /\ \A e \in RuntimeEdges : RuntimeUrl(t, e, case) = TargetUrl(c, e[2], case)
    /\ ~t.simulator

PublishedDestinations ==
    Applications \cap {"brain", "policy-engine", "ledger", "hil", "identity",
                       "proxy", "assurance"}

CheckedCallers ==
    {p \in {<<"nats", "identity">>, <<"vault", "identity">>,
            <<"identity", "brain">>, <<"brain", "proxy">>,
            <<"policy-engine", "proxy">>, <<"ledger", "proxy">>,
            <<"hil", "proxy">>, <<"proxy", "assurance">>,
            <<"assurance", "console">>, <<"upstream-stub", "proxy">>} :
        p[1] \in Inventory /\ p[2] \in Applications}

ReadinessPort(c, d) ==
    CASE d = "nats" -> 8222
      [] d = "vault" -> 8200
      [] OTHER -> Service(c, d).ready[1]

\* network_policy_allows
NetworkPolicyAllows(t, destination, port, caller) ==
    <<destination, port, caller>> \in t.callers

BundledNetwork(c, t) ==
    /\ "nats" \in Infrastructure => 8222 \in t.ports["nats"]
    /\ \A p \in CheckedCallers :
          NetworkPolicyAllows(t, p[1], ReadinessPort(c, p[1]), p[2])

\* verify_configmap: immutable, with the bytes of the contract's files.
ConfigMapMatches(t) == t.immutable /\ t.verbatim

VerifyCase(c, t, case) ==
    /\ ConfigMapMatches(t)
    /\ \A a \in Applications : ProbesMatch(c, t, a) /\ GateMatches(c, t, a, case)
    /\ RuntimeMatches(c, t, case)
    /\ \A d \in PublishedDestinations : Service(c, d).ready[1] \in t.ports[d]
    /\ case = "bundled" => BundledNetwork(c, t)

\* main, with --require-source
ReadinessCheck(c, m, t) ==
    /\ ContractDocuments(c)
    /\ m = c
    /\ \A case \in Cases : VerifyCase(c, t, case)

\* Mutant of ListenerCheck: publishNotReadyAddresses is not compared.
ListenerCheckPorts(t) == t.ports = GovernedPorts /\ t.callers = GovernedCallers

\* What CI runs besides: check-listener-matrix.py admits only the Services
\* and the callers of the listener matrix (modules Listener...).
ListenerCheck(t) ==
    /\ t.ports = GovernedPorts
    /\ t.callers = GovernedCallers
    /\ t.notReady = GovernedNotReady

----------------------------------------------------------------------------
(***************************************************************************)
(* The shapes of the two documents: a fixture also lists services that     *)
(* other topologies run, and what they wait for.                           *)
(***************************************************************************)
Endpoint == Nat \X STRING

ServiceEntry == [id : STRING, helm : BOOLEAN, live : Endpoint, ready : Endpoint,
                 after : SUBSET [service : STRING, helm : BOOLEAN]]
Document == [name : STRING, schemaVersion : Nat, services : SUBSET ServiceEntry]

Projection ==
    [graph : [Applications -> SUBSET Inventory],
     live : [Applications -> Endpoint], ready : [Applications -> Endpoint],
     endpoint : [Inventory -> Endpoint],
     checksums : [Applications -> SUBSET {"schema", "fixture"}],
     gate : [timeout : Nat, attempts : Nat],
     runtime : SUBSET (Applications \X Inventory), simulator : BOOLEAN,
     ports : [Inventory -> SUBSET Nat],
     callers : SUBSET (Inventory \X Nat \X STRING),
     notReady : SUBSET Inventory, immutable : BOOLEAN, verbatim : BOOLEAN]

ASSUME DocumentsAssumption ==
    /\ Inventory \subseteq STRING \ {"external"}
    /\ Infrastructure \subseteq {"nats", "vault", "upstream-stub"} \ Applications
    /\ "bundled" \in Cases
    /\ Contract0 \in Document /\ HelmIds(Contract0) = Inventory
    /\ Templates0 \in Projection /\ Templates0.runtime \subseteq RuntimeEdges
    /\ NewEdges \subseteq Applications \X Inventory
    /\ Editable \subseteq Applications
    /\ OtherEndpoint \in Endpoint
    /\ Begins \subseteq Endpoint \X Endpoint

----------------------------------------------------------------------------
(* The repository over time. *)

RepoInit ==
    /\ contract = Contract0
    /\ mirror = Contract0
    /\ templates = Templates0
    /\ accepted = FALSE
    /\ edits = 0

Edited ==
    /\ edits < MaxEdits
    /\ edits' = edits + 1
    /\ accepted' = FALSE

Replace(c, old, new) == [c EXCEPT !.services = (@ \ {old}) \cup {new}]

\* A new version of the fixture, with or without its copy: another version or
\* endpoint, a startup edge of the chart more or less, an id used twice,
\* readiness answered where liveness is.
EntryEdits(s) ==
    {[s EXCEPT !.ready = OtherEndpoint], [s EXCEPT !.live = s.ready]}
    \cup {[s EXCEPT !.after = @ \ {e}] : e \in {x \in s.after : x.helm}}

Awaiting(s, d) == [s EXCEPT !.after = @ \cup {[service |-> d, helm |-> TRUE]}]

Open(c) == {s \in c.services : s.id \in Editable}

ContractEdits(c) ==
    {[c EXCEPT !.schemaVersion = 2]}
    \cup (UNION {{Replace(c, s, n) : n \in EntryEdits(s)} : s \in Open(c)})
    \cup {[c EXCEPT !.services = @ \cup {[s EXCEPT !.live = OtherEndpoint]}] :
            s \in Open(c)}
    \cup {Replace(c, Service(c, e[1]), Awaiting(Service(c, e[1]), e[2])) :
            e \in NewEdges}

EditContract ==
    \E c \in ContractEdits(contract), m \in BOOLEAN :
        /\ Edited
        /\ contract' = c
        /\ mirror' = IF m THEN c ELSE mirror
        /\ UNCHANGED templates

\* A change of the templates that may or may not follow the contract: of the
\* probes and endpoints, of what waits for what, of the network, of a switch.
ProbeEdits(t, a) ==
    {[t EXCEPT !.live[a] = t.ready[a]], [t EXCEPT !.ready[a] = OtherEndpoint],
     [t EXCEPT !.endpoint[a] = OtherEndpoint], [t EXCEPT !.endpoint[a] = t.live[a]],
     [t EXCEPT !.ready[a] = OtherEndpoint, !.endpoint[a] = OtherEndpoint],
     [t EXCEPT !.checksums[a] = {"schema"}], [t EXCEPT !.ports[a] = {}]}

GateEdits(t, a) == {[t EXCEPT !.graph[a] = @ \ {d}] : d \in t.graph[a]}

EdgeEdits(t) ==
    {[t EXCEPT !.graph[e[1]] = @ \cup {e[2]}] : e \in NewEdges}
    \cup {[t EXCEPT !.runtime = @ \ {e}] : e \in t.runtime}
    \cup {[t EXCEPT !.callers = @ \ {e}] : e \in t.callers}

SwitchEdits(t) ==
    {[t EXCEPT !.gate.attempts = 1], [t EXCEPT !.gate.timeout = 30],
     [t EXCEPT !.notReady = {}], [t EXCEPT !.simulator = TRUE],
     [t EXCEPT !.immutable = FALSE], [t EXCEPT !.verbatim = FALSE]}

TemplateEdits(t) ==
    (UNION {ProbeEdits(t, a) : a \in Editable})
    \cup (UNION {GateEdits(t, a) : a \in Applications})
    \cup EdgeEdits(t) \cup SwitchEdits(t)

EditTemplates ==
    \E t \in TemplateEdits(templates) :
        /\ Edited
        /\ t # templates
        /\ templates' = t
        /\ UNCHANGED <<contract, mirror>>

Ci ==
    /\ ~accepted
    /\ ReadinessCheck(contract, mirror, templates)
    /\ ListenerCheck(templates)
    /\ accepted' = TRUE
    /\ UNCHANGED <<contract, mirror, templates, edits>>

RepoNext == EditContract \/ EditTemplates \/ Ci

RepoSpec == RepoInit /\ [][RepoNext]_repo

----------------------------------------------------------------------------
(* Properties. *)

\* The repository keeps its shape (contract_documents, the rendered maps).
RepoTypeOK ==
    /\ contract \in Document /\ HelmIds(contract) = Inventory
    /\ templates.graph \in [Applications -> SUBSET Inventory]
    /\ templates.runtime \subseteq RuntimeEdges
    /\ accepted \in BOOLEAN
    /\ edits \in 0..MaxEdits
============================================================================

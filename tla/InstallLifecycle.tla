--------------------------- MODULE InstallLifecycle ---------------------------
(***************************************************************************)
(* A bundled release from `helm install --wait --wait-for-jobs` on: the    *)
(* init gates that hold a service back until its dependencies are ready    *)
(* (services.yaml), the probes, the Services and policies that decide what *)
(* a gate can reach, the first enrollment of workload identities, the Job  *)
(* that creates Identity's transit key (vault-bootstrap-job.yaml) and the  *)
(* hook that seeds the lab agent (vault-seed-job.yaml).  What is installed *)
(* is a tree that CI accepted (module DependencyReadiness).                *)
(*                                                                         *)
(* Abstractions.  A readiness answer is the one of the last probe.  The    *)
(* bundled Vault is the set of what is stored in it, in memory.  The       *)
(* attempts of a gate on one target, and of a Job on Vault's status, are   *)
(* one step.  Helm's --timeout expires only where waiting is in vain; that *)
(* it is not needed elsewhere is a property.                               *)
(***************************************************************************)
EXTENDS DependencyReadiness

CONSTANTS
    Checks,        \* application -> dependencies in its readiness answer
    Enrolling,     \* applications with a managed workload identity
    EnrollPort,    \* where Identity issues them
    BackoffLimit,  \* backoffLimit of the Jobs
    MaxFaults,     \* bound on crashes, evictions and failed commands
    MaxRevisions   \* bound on installs and upgrades

ASSUME LifecycleBounds ==
    /\ BackoffLimit \in Nat \ {0}
    /\ MaxFaults \in Nat
    /\ MaxRevisions \in Nat

ASSUME ServicesAssumption ==
    /\ Checks \in [Applications -> SUBSET Inventory]
    /\ Enrolling \subseteq Applications

VARIABLES
    helm,       \* what helm is doing
    revision,
    pod,        \* service -> phase of its pod
    gate,       \* application -> URLs its gate still waits for
    met,        \* application -> dependencies ready while its gate looked
    ready,      \* services whose last readiness probe succeeded
    enrolled,   \* applications with a workload identity on their volume
    store,      \* contents of the bundled Vault
    job,        \* the Job that runs against Vault
    calm,       \* no fault since helm began this revision, and none going on then
    faults

podVars == <<pod, gate, met, ready, enrolled>>
cluster == <<helm, revision, podVars, store, job, calm, faults>>
vars == <<repo, cluster>>

Bootstrap == "vault-bootstrap"
Seed == "vault-agent-seed"

DevVault == {"secret"}  \* a dev-mode Vault mounts secret/ by itself

----------------------------------------------------------------------------
(* Who reaches whom. *)

Targets(a) == GateTargets(templates, a, "bundled")

ReadyAt(d) ==
    IF d \in Infrastructure THEN BundledAt(d) ELSE Service(contract, d).ready

\* A Service leads to its pod when the pod is ready, or the Service
\* publishes pods that are not; the policy must admit the caller.
Connects(caller, d, port) ==
    /\ port \in templates.ports[d]
    /\ NetworkPolicyAllows(templates, d, port, caller)
    /\ pod[d] = "running"
    /\ d \in ready \/ d \in templates.notReady

\* wget succeeds on the readiness endpoint of a ready service, and on the
\* liveness endpoint of a running one.
Responds(caller, u) ==
    /\ u.host \in Inventory
    /\ Connects(caller, u.host, u.at[1])
    /\ \/ u.at = ReadyAt(u.host) /\ u.host \in ready
       \/ u.host \in Applications /\ u.at = Service(contract, u.host).live

\* The application's readiness answer: its dependencies, the transit key it
\* signs with, its workload identity.
Answers(a) ==
    /\ \A d \in Checks[a] :
          IF <<a, d>> \in RuntimeEdges
          THEN Responds(a, RuntimeUrl(templates, <<a, d>>, "bundled"))
          ELSE pod[d] = "running"
    /\ a = "identity" => "key" \in store
    /\ a \in Enrolling => a \in enrolled

\* What the kubelet gets from an endpoint of a pod.
ProbeAnswers(a, endpoint) ==
    CASE endpoint = Service(contract, a).ready -> Answers(a)
      [] endpoint = Service(contract, a).live -> TRUE
      [] OTHER -> FALSE

AllReady == ready = Inventory

----------------------------------------------------------------------------
(* Pods. *)

\* A new pod begins with its init containers, if it has any.
Fresh(s) == IF s \in Applications /\ Targets(s) # {} THEN "gate" ELSE "starting"
FreshGate(s) == IF Fresh(s) = "gate" THEN Targets(s) ELSE {}

\* The gate asks for one target until it answers, then for the next.
GatePasses(a) ==
    /\ pod[a] = "gate" /\ gate[a] # {}
    /\ LET u == CHOOSE x \in gate[a] : TRUE IN
          /\ Responds(a, u)
          /\ gate' = [gate EXCEPT ![a] = @ \ {u}]
    /\ met' = [met EXCEPT ![a] = @ \cup (ready \cap HelmDependencies(contract, a))]
    /\ UNCHANGED <<repo, helm, revision, pod, ready, enrolled, store, job, calm, faults>>

\* Mutant of GateExpires: the init container is not restarted.
GateExpiresForGood(a) ==
    /\ pod[a] = "gate" /\ gate[a] # {}
    /\ ~Responds(a, CHOOSE x \in gate[a] : TRUE)
    /\ pod' = [pod EXCEPT ![a] = "absent"]
    /\ gate' = [gate EXCEPT ![a] = {}]
    /\ UNCHANGED <<repo, helm, revision, met, ready, enrolled, store, job, calm, faults>>

\* templates.gate.attempts without an answer: the init container exits, and
\* its restart begins with the first target.
GateExpires(a) ==
    /\ pod[a] = "gate" /\ gate[a] # {} /\ gate[a] # Targets(a)
    /\ ~Responds(a, CHOOSE x \in gate[a] : TRUE)
    /\ gate' = [gate EXCEPT ![a] = Targets(a)]
    /\ UNCHANGED <<repo, helm, revision, pod, met, ready, enrolled, store, job,
                   calm, faults>>

\* Mutant of GateOpens: one answer is enough.
GateOpensEarly(a) ==
    /\ pod[a] = "gate" /\ gate[a] # Targets(a)
    /\ pod' = [pod EXCEPT ![a] = "starting"]
    /\ UNCHANGED <<repo, helm, revision, gate, met, ready, enrolled, store, job,
                   calm, faults>>

GateOpens(a) ==
    /\ pod[a] = "gate" /\ gate[a] = {}
    /\ pod' = [pod EXCEPT ![a] = "starting"]
    /\ UNCHANGED <<repo, helm, revision, gate, met, ready, enrolled, store, job,
                   calm, faults>>

Starts(s) ==
    /\ pod[s] = "starting"
    /\ pod' = [pod EXCEPT ![s] = "running"]
    /\ UNCHANGED <<repo, helm, revision, gate, met, ready, enrolled, store, job,
                   calm, faults>>

\* Identity issues workload identities before it is ready itself.
Enrolls(a) ==
    /\ pod[a] = "running" /\ a \in Enrolling \ enrolled
    /\ Connects(a, "identity", EnrollPort)
    /\ enrolled' = enrolled \cup {a}
    /\ UNCHANGED <<repo, helm, revision, pod, gate, met, ready, store, job, calm, faults>>

\* The readiness probe.
Probes(s) ==
    LET ok == pod[s] = "running"
                /\ (s \in Applications => ProbeAnswers(s, templates.ready[s])) IN
    /\ ok # (s \in ready)
    /\ ready' = IF ok THEN ready \cup {s} ELSE ready \ {s}
    /\ UNCHANGED <<repo, helm, revision, pod, gate, met, enrolled, store, job, calm, faults>>

\* The liveness probe: a container that does not answer, because it hangs or
\* because it is asked for something else, is restarted, without its gate.
LivenessFails(a) ==
    /\ \/ pod[a] = "hung"
       \/ pod[a] = "running" /\ ~ProbeAnswers(a, templates.live[a])
    /\ pod' = [pod EXCEPT ![a] = "starting"]
    /\ ready' = ready \ {a}
    /\ UNCHANGED <<repo, helm, revision, gate, met, enrolled, store, job, calm, faults>>

----------------------------------------------------------------------------
(* Faults.  Vault's storage does not survive its container. *)

Fault == faults < MaxFaults /\ faults' = faults + 1 /\ calm' = FALSE

Forgets(s) == IF s = "vault" THEN DevVault ELSE store

Crashes(s) ==
    /\ pod[s] = "running"
    /\ Fault
    /\ pod' = [pod EXCEPT ![s] = "starting"]
    /\ ready' = ready \ {s}
    /\ store' = Forgets(s)
    /\ UNCHANGED <<repo, helm, revision, gate, met, enrolled, job>>

\* An application stops answering, and nobody but its liveness probe can tell.
Hangs(a) ==
    /\ pod[a] = "running"
    /\ Fault
    /\ pod' = [pod EXCEPT ![a] = "hung"]
    /\ UNCHANGED <<repo, helm, revision, gate, met, ready, enrolled, store, job>>

\* A node is drained, a Deployment restarted: a new pod.
Replaced(s) ==
    /\ pod[s] = "running"
    /\ Fault
    /\ pod' = [pod EXCEPT ![s] = Fresh(s)]
    /\ gate' = [gate EXCEPT ![s] = FreshGate(s)]
    /\ met' = [met EXCEPT ![s] = {}]
    /\ ready' = ready \ {s}
    /\ store' = Forgets(s)
    /\ UNCHANGED <<repo, helm, revision, enrolled, job>>

----------------------------------------------------------------------------
(* The two Jobs: wait for Vault, enable, write, read back. *)

NoJob == [kind |-> "none", at |-> "done", failures |-> 0]
NewJob(kind) == [kind |-> kind, at |-> "wait", failures |-> 0]

VaultUp == Connects(job.kind, "vault", BundledAt("vault")[1])

JobStep(at) ==
    /\ job.at = at
    /\ UNCHANGED <<repo, helm, revision, podVars>>

JobGoes(at) == job' = [job EXCEPT !.at = at]

AttemptFails ==
    job' = [job EXCEPT !.failures = @ + 1,
                       !.at = IF job.failures + 1 >= BackoffLimit
                              THEN "failed" ELSE "wait"]

JobFindsVault ==
    JobStep("wait") /\ VaultUp /\ JobGoes("enable") /\ UNCHANGED <<store, calm, faults>>

\* Sixty polls without an answer; a Vault that takes that long is a fault.
JobFindsNoVault ==
    JobStep("wait") /\ ~VaultUp /\ Fault /\ AttemptFails /\ UNCHANGED store

Mount == IF job.kind = Bootstrap THEN "transit" ELSE "secret"
Written == IF job.kind = Bootstrap THEN "key" ELSE "agent"

\* Mutant of JobEnables: nothing is mounted.
JobEnablesNothing == JobStep("enable") /\ JobGoes("write") /\ UNCHANGED <<store, calm, faults>>

\* `vault secrets enable ... || true`.  A command fails without Vault, or
\* by a fault.
JobEnables ==
    /\ JobStep("enable")
    /\ JobGoes("write")
    /\ \/ VaultUp /\ store' = store \cup {Mount} /\ UNCHANGED <<calm, faults>>
       \/ ~VaultUp /\ UNCHANGED <<store, calm, faults>>
       \/ Fault /\ UNCHANGED store

\* `vault write ... || true`: the bootstrap ignores a failure; the seed's
\* `vault kv put` does not.
JobWrites ==
    /\ JobStep("write")
    /\ \/ /\ VaultUp /\ Mount \in store
          /\ store' = store \cup {Written}
          /\ JobGoes("read")
          /\ UNCHANGED <<calm, faults>>
       \/ /\ \/ ~(VaultUp /\ Mount \in store) /\ UNCHANGED <<calm, faults>>
             \/ Fault
          /\ IF job.kind = Bootstrap THEN JobGoes("read") ELSE AttemptFails
          /\ UNCHANGED store

JobReads ==
    /\ JobStep("read")
    /\ IF VaultUp /\ Written \in store THEN JobGoes("done") ELSE AttemptFails
    /\ UNCHANGED <<store, calm, faults>>

----------------------------------------------------------------------------
(* Helm. *)

\* helm install of an accepted tree: every object of the manifest at once.
Install ==
    /\ helm = "none" /\ accepted /\ revision < MaxRevisions
    /\ helm' = "waiting"
    /\ revision' = revision + 1
    /\ pod' = [s \in Inventory |-> Fresh(s)]
    /\ gate' = [s \in Inventory |-> FreshGate(s)]
    /\ job' = NewJob(Bootstrap)
    /\ calm' = TRUE
    /\ UNCHANGED <<repo, met, ready, enrolled, store, faults>>

\* Mutant of Upgrade: the bootstrap Job keeps its name, and its result.
UpgradeSameJob ==
    /\ helm \in {"installed", "failed"} /\ revision < MaxRevisions
    /\ helm' = "waiting"
    /\ revision' = revision + 1
    /\ job' = [NewJob(Bootstrap) EXCEPT !.at = "done"]
    /\ calm' = (\A s \in Inventory : pod[s] # "hung")
    /\ UNCHANGED <<repo, podVars, store, faults>>

\* helm upgrade of the same chart: no pod template changes, but the name of
\* the bootstrap Job carries the revision, so that a new one runs.
Upgrade ==
    /\ helm \in {"installed", "failed"} /\ revision < MaxRevisions
    /\ helm' = "waiting"
    /\ revision' = revision + 1
    /\ job' = NewJob(Bootstrap)
    /\ calm' = (\A s \in Inventory : pod[s] # "hung")
    /\ UNCHANGED <<repo, podVars, store, faults>>

\* --wait --wait-for-jobs; then the post-install hook.
HelmSeesReady ==
    /\ helm = "waiting" /\ AllReady /\ job.at = "done"
    /\ helm' = "hooks"
    /\ job' = NewJob(Seed)
    /\ UNCHANGED <<repo, revision, podVars, store, calm, faults>>

HelmSeesHook ==
    /\ helm = "hooks" /\ job.at = "done"
    /\ helm' = "installed"
    /\ UNCHANGED <<repo, revision, podVars, store, job, calm, faults>>

\* A Job failed, or --timeout after Vault lost the key a finished Job made.
HelmFails ==
    /\ \/ helm \in {"waiting", "hooks"} /\ job.at = "failed"
       \/ helm = "waiting" /\ job.at = "done" /\ "key" \notin store
    /\ helm' = "failed"
    /\ UNCHANGED <<repo, revision, podVars, store, job, calm, faults>>

----------------------------------------------------------------------------

Init ==
    /\ RepoInit
    /\ helm = "none" /\ revision = 0
    /\ pod = [s \in Inventory |-> "absent"]
    /\ gate = [s \in Inventory |-> {}]
    /\ met = [s \in Inventory |-> {}]
    /\ ready = {} /\ enrolled = {} /\ store = DevVault
    /\ job = NoJob
    /\ calm = FALSE
    /\ faults = 0

RepoStep == helm = "none" /\ RepoNext /\ UNCHANGED cluster

PodStep(s) ==
    \/ Starts(s) \/ Probes(s)
    \/ s \in Applications /\ (GateOpens(s) \/ Enrolls(s))
JobNext == JobFindsVault \/ JobEnables \/ JobWrites \/ JobReads
HelmNext == HelmSeesReady \/ HelmSeesHook \/ HelmFails

Next ==
    \/ RepoStep
    \/ \E s \in Inventory : PodStep(s) \/ Crashes(s) \/ Replaced(s)
    \/ \E a \in Applications : GatePasses(a) \/ GateExpires(a) \/ LivenessFails(a) \/ Hangs(a)
    \/ JobNext \/ JobFindsNoVault
    \/ Install \/ Upgrade \/ HelmNext

\* The kubelet, the init containers, the Job controller and helm keep going;
\* nobody promises faults, edits, installs or upgrades.
Fairness ==
    /\ \A s \in Inventory : WF_podVars(PodStep(s))
    /\ \A a \in Applications : WF_podVars(GatePasses(a)) /\ WF_podVars(LivenessFails(a))
    /\ WF_job(JobNext)
    /\ WF_helm(HelmNext)

Spec == Init /\ [][Next]_vars /\ Fairness

----------------------------------------------------------------------------
(* Properties. *)

\* Pods, gates and Jobs keep their shapes (services.yaml, the Jobs).
TypeOK ==
    /\ RepoTypeOK
    /\ helm \in {"none", "waiting", "hooks", "installed", "failed"}
    /\ pod \in [Inventory -> {"absent", "gate", "starting", "running", "hung"}]
    /\ \A s \in Inventory : pod[s] # "gate" => gate[s] = {}
    /\ ready \subseteq Inventory /\ enrolled \subseteq Enrolling
    /\ store \subseteq {"transit", "secret", "key", "agent"}
    /\ job.at \in {"wait", "enable", "write", "read", "done", "failed"}
    /\ job.failures \in 0..BackoffLimit
    /\ faults \in 0..MaxFaults

\* A pod's application starts only after every startup dependency of the
\* contract, itself and not just its process, was ready while the pod waited
\* (the init gate, through Services that may publish pods that are not ready).
StartedInOrder ==
    [][\A a \in Applications :
          pod[a] = "gate" /\ pod'[a] = "starting" =>
              HelmDependencies(contract, a) \subseteq met[a]]_pod

\* The outage of a dependency takes no other service down: an application's
\* container is restarted only by a fault of its own, never by its liveness
\* probe (charts/clavenar/README.md:504, probes on /health and /readyz).
OutageDoesNotRestart ==
    [][\A a \in Applications :
          pod[a] = "running" /\ pod'[a] # "running" => faults' = faults + 1]_pod

\* A release that helm reports installed serves, whatever happened before
\* this revision, as long as nothing did since and nothing was hanging then:
\* everything is ready, Vault has Identity's key and the agent's entry (the
\* Jobs' post-conditions, the revisioned name of the bootstrap Job,
\* --wait-for-jobs).
InstalledServes ==
    helm = "installed" /\ calm =>
        AllReady /\ {"key", "agent"} \subseteq store

\* An install or upgrade comes to an end, and not by its timeout unless Vault
\* lost its key: no gate waits for a service that waits for it, for the
\* bootstrap Job or for a hook (vault-bootstrap-job.yaml:4-8,
\* services.yaml:797). It ends well unless there were faults, and a Job gives
\* up only after as many of them as it has retries.
HelmFinishes ==
    helm = "waiting" ~>
        \/ helm = "installed"
        \/ helm = "failed" /\ faults >= (IF job.at = "failed" THEN BackoffLimit ELSE 1)

\* After its faults an installed release becomes ready again by itself, as
\* long as Vault has its key; otherwise an upgrade brings it back
\* (HelmFinishes).
Recovers ==
    helm = "installed" ~> AllReady \/ "key" \notin store \/ helm # "installed"
============================================================================

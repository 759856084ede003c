# A verification of the clavenar chart in TLA+

The repository is a Helm chart, the hook Jobs it installs, and the programs that decide
whether a change of the chart may be released. Two kinds of things can go wrong in time:
the hook Jobs change Kubernetes objects one call at a time while the workloads keep
running, and contracts, templates, values and rendered manifests change one file at a
time, so that a check may accept what a cluster then reads differently. This project
models six subsystems, checks them with TLC and proves part of what is checked with
TLAPS:

* the **TLS rotation hook** (`templates/tls-automint-job.yaml`,
  `files/tls-rotation/{snapshot,mint,apply}.sh`), which replaces the certificates
  of every workload of a running release without an instant in which two of them
  refuse each other;
* the **SQLite upgrade transaction** (`templates/stateful-upgrade-jobs.yaml`), which
  backs every database up before an upgrade and restores it before a rollback;
* the **NATS authorization contract** (`scripts/check-nats-authorization.py`,
  `templates/validate.yaml`), from the fixture over the generated permissions and their
  pinned digest to the broker;
* **dependency readiness and the install** (`scripts/check_dependency_readiness.py`,
  `templates/_helpers.tpl`, `templates/services.yaml`, the two Vault Jobs): a readiness
  contract, its projection, the gates and probes it becomes, and Helm waiting for all of it;
* the **listener matrix** (`scripts/check-listener-matrix.py`): who may reach which port,
  declared in one file, written out in the templates, compared in a rendered manifest;
* the **shared tokens** (`templates/shared-tokens-secret.yaml`): credentials minted while the
  chart is rendered, reused or rotated over upgrades, rollbacks and failures.

Paths below are relative to the repository; `templates/` and `files/` are under
`charts/clavenar/`.

## 1. Inventory

| component | state it keeps | operations | modelled |
|---|---|---|---|
| `snapshot.sh` | copy of the Secret in `previous/`, metadata shape | read, classify (absent, legacy, canonical), refuse | `TlsRotation`, `TlsBundle` |
| `mint.sh` | candidate in `new/` | validate existing bytes, admit or refuse the request, generate a fresh / dns / profile bundle | `TlsBundle`, `TlsRotation` |
| `apply.sh` | the Secret (data, label, 13 annotations), pod templates, the history Secrets, `rollback_enabled` | initialize, migrate, rotate with one or two signers, roll workloads out, retire, record, commit, roll back | `TlsRotation` |
| hook Job and pod | memory `emptyDir`s, restarts | restart a container, give up, start another pod | `TlsRotation` |
| workload controllers (external) | pods | start, stop, reschedule; a pod copies the Secret when it starts | `TlsRotation` |
| backup Jobs | `generation` directories, manifests, `current.json` on the PVC | wait for one ready writer, copy online, seal, point, force Recreate | `StatefulUpgrade` |
| restore Jobs | the database file, its journal, temporary files, the last-restore receipt | load and verify, scale to zero, wait, stage, unlink journals, replace | `StatefulUpgrade` |
| Helm (external) | the release revision | run the hooks by weight, apply the Deployments, stop at the first failure | `StatefulUpgrade`, in part `TlsRotation` |
| services with SQLite (external) | the open database | open and migrate, commit, checkpoint | `StatefulUpgrade` |
| NATS authorization checker (`check-nats-authorization.py`) | `values.yaml`, the digest in `validate.yaml` | generate permissions, write values, pin the digest, check the repository | `NatsAuthorization` |
| dependency readiness checker (`check_dependency_readiness.py`) | none; reads fixture, mirror, rendered cases | compare probes, gates, runtime URLs, ports, policies with the contract | `DependencyReadiness` |
| service pods (`services.yaml`, `_helpers.tpl`) | per service: gate, started, ready, enrolled | wait in the gate, start, enroll, answer probes, be restarted | `InstallLifecycle` |
| Vault bootstrap and seed Jobs | the transit engine, its key and the seeded entry of an in-memory Vault | wait, enable, write, read back | `InstallLifecycle` |
| listener matrix checker (`check-listener-matrix.py`) | none; reads matrix, values, manifest | compute the expected Services and policies, compare, check single Deployments | `ListenerPolicies`, `ListenerServices`, `DeploymentContracts`, `ListenerMatrix` |
| repository and CI (`ci.yml`, authors; external) | the working tree, a manifest file, the last verdict | edit, review, render, check, install | the last three rows, one machine each |
| shared tokens (`shared-tokens-secret.yaml`) | the credentials Secret, a copy in every revision of Helm, a copy in every pod | reuse from the live Secret, re-mint on a new rotation id, apply, roll back, keep | `SharedTokens` |
| `kind-environment-install.sh` | none | a linear script around helm and kubectl | no |
| render gate (`validate.yaml`), contracts, alerts, dashboards, lab, workflows | none | static data, conditions on values | no |

How they interact. Helm runs hooks in the order of their weights: the backup (or
restore) Jobs of the stateful services one after the other, then the TLS hook, then
it applies the Deployments. The TLS hook rolls *the same Deployments* the backup Jobs
have just waited for, so the strategy a backup Job leaves behind decides whether two
writers open one database. The three TLS containers communicate through memory
`emptyDir`s, which a restarted container finds again and a new pod does not. Workloads
learn about certificates only by restarting: an `initContainer` copies the Secret of
that moment. All durable state is in the API server and on the PVCs; neither has a
transaction over two objects.

The three checkers have no state; what they read has. A fixture, its copies, the values,
the templates and a rendered file are edited independently, and a verdict is about the
moment of the check. What a checker accepts is installed: the readiness contract becomes the
startup order of one release, in which Identity waits for a key a Job creates in Vault, the
services wait for Identity in gates, Helm waits for all of them, and a hook waits for Helm.

What is hard. Every kubectl call, every `os.replace`, every pod start is a separate
step. Any of them can fail, the process can be signalled or killed, and the pod can be
lost between any two; the next run has to be right about what the last one left. During
all of it, the controllers replace pods, nodes evict them, services commit. For the
checkers: each comparison is local, and what it protects is not - a connection needs a URL, an
alias, a Service, a port, a policy and a listener to agree, a policy admits the union of its
rules, a permission is the union of a user's grants with their wildcards.

What makes each component correct:

* TLS: no two live pods refuse each other; the old root leaves only when nobody needs
  it; metadata that says "ready" describes every pod; a run ends with the new
  generation or the old one; what is left by a lost run is refused rather than
  guessed about; the history is the record of what was retired; a run ends.
* SQLite: the pointer names a verified backup at every instant; a database never runs
  under a release older than the one that migrated it; a rollback brings back exactly
  the data backed up under the release that returns; commits are in the backup; one
  writer at a time; a completed rollback serves.
* NATS: the broker runs only what was generated from one contract; taken together a user's
  grants allow what the contract assigns and nothing else; inboxes are private; a tree that
  passed serves its clients.
* Readiness and install: a service starts after its dependencies were ready; an outage stays
  where it is; an install, an upgrade and a recovery end; what Helm calls installed serves.
* Shared tokens: a rotation id names one value of every key; pods under the id in force hold
  the keys in force; a rotation leaves nothing of what it replaces.
* Listeners: whoever reaches a port is authorized there; whoever is authorized reaches it;
  the website sees the ledger's mTLS port only; capability digests fit the mounted bundle.

## 2. Modules

| module | what it is |
|---|---|
| `TlsBundle` | the data of the TLS hook: a bundle as (signer key, CA bytes, bundle bytes, members, SANs, profile), the trust annotations, and the decisions of `snapshot.sh` and `mint.sh` as operators |
| `TlsRotation` | the state machine: Secret, workloads, the Job, its failures and retries; extends `TlsBundle` |
| `MCTlsRotation` | workloads, requests and sets of fault points for TLC |
| `TrustRollover` | abstract specification of a change of trust: one published material, instances that copy it when they start; theorem `RolloverAgrees` |
| `TlsRotation_proofs` | the Secret, the script and the metadata: theorems `TypeCorrect`, `HookFailsClosed`, `RolloverIsMutual`, `SecretHeld`, `RunningIdentified`, `ReconcileKeepsTrust`, `HookIsAllOrNothing`, `HistoryIsTruthful` |
| `TlsRollover_proofs` | extends it with the pods: theorems `RolloverHeld`, `HookIsRollover`, `TrustIsMutual`, `RetirementWaits`, `AnnouncementsTrue`, `IdentityFirst` |
| `StatefulUpgrade` | the state machine of both kinds of Job, of Helm, the Deployments, the pods and the databases |
| `StatefulStore` | abstract specification of services with durable data under upgrade and rollback: data, published backup, release, and what is read |
| `MCStatefulUpgrade` | services and releases for TLC |
| `StatefulUpgrade_proofs` | the inductive invariant and theorems `TypeCorrect`, `BackupsVerified`, `BackupsBound`, `RollbacksExact`, `JournalsClean`, `WritersAlone`, `NeverDowngraded`, `CommitsRead`, `UpgradesProtected`, `TransactionIsStore` |
| `NatsAuthorization` | the generator of permissions as operators over subjects (sequences of tokens); the working tree, `--write-values`, the check, the installation as a state machine |
| `MCNatsAuthorization` | contracts, hand edits and manifests for TLC |
| `NatsAuthorization_proofs` | the inductive invariant and theorems `TypeCorrect`, `RunsGenerated`, `PrivateInboxes`, `PassServes`, `AuthorityLeast` |
| `DependencyReadiness` | the readiness contract, its projection, every comparison of the checker, and the repository that CI accepts |
| `InstallLifecycle` | extends it: the release that is installed from an accepted tree - pods, gates, probes, enrollment, Vault, its two Jobs, Helm |
| `MCInstallLifecycle` | three applications and Vault, edits of the contract and of the templates |
| `InstallLifecycle_proofs` | the inductive invariant and theorems `TypeCorrect`, `StartsInOrder`, `OutagesStay`, `InstalledReady` |
| `ListenerPolicies` | `expected_policies`, the validation of operator-supplied peers, the policy comparison, and how a cluster reads a policy |
| `ListenerServices` | `expected_services`, publications, workloads, probes, and how a cluster reads a Service; extends `ListenerPolicies` |
| `DeploymentContracts` | the contracts of single Deployments: profile, capabilities, ledger, console, brain, assurance; and where a URL ends; extends `ListenerServices` |
| `ListenerMatrix` | the repository over time: edits, review, `helm template`, `main`; extends `DeploymentContracts` |
| `MCListenerMatrix` | the matrix, workloads, eight configurations, the edits, the pods of a cluster |
| `ListenerMatrix_proofs` | the invariant and theorems `Authorised`, `WebsiteContained`, `CapabilitiesStart`, `CallersReached`, `ClientsServed` |
| `SharedTokens` | the credentials Secret, Helm's revisions, the consumers' templates and pods |
| `SharedTokens_proofs` | the inductive invariant and theorems `OneGeneration`, `ConsumersAgree` |

### TlsRotation and the code

`pc` is the call `apply.sh` is about to make; `phase` is what it is making it for:
`initial`, `migrate`, `rotating` (dns and profile rotations, one signer),
`overlap-old`, `overlap-new`, `retiring`, `commit` (membership and expiry rotations,
two signers), or one of the three rollback phases. A phase is the sequence `data` (the
`kubectl apply` of `write_bundle`), `label`, `annotate` (both of `annotate_secret`), the
loop of `rollout_generation` (`next`, `patch`, `status`), `ready` (`record_ready`), and
for overlaps `gate` (`ensure_overlap_open`). What a phase writes is a function of the
phase: `PhaseBundle`, `PhaseTrust`, `PhaseToken`, `PendingAnnotations`. `Die` is the exit
trap; `AfterRollout` is what comes after a phase. In the rollback, whose `set +e` makes a
failed call a call that was skipped, `CallFails` goes on where it otherwise dies.

`pods[w]` is the set of *kinds* of live pods of workload `w` - two replicas with the
same template, bundle and trust are one element. A pod keeps the bundle and the trust it
copied when it started; `ReplacePod` is an eviction at any moment, whose replacement copies
today's Secret under yesterday's template, or under today's.

Abstractions: digests are equal exactly when the bytes are; the rollout lists are rolled
in any order except where the code makes a point of one (Identity first in a profile
correction); the clock of the overlap deadline and of the certificate age is a choice
(`Fault("deadline")`, `age`); SAN strings, file modes and key/certificate pairing are part
of the bundle being one value. A request is any member of `Requests`; what
`validate.yaml` excludes is not in it.

The environment is parameterised by `FaultPoints`, a set of `<<kind, phase>>`. `api` is a
failed write of the Secret or the history, `get` a failed read, `patch` and `rollout` a
failed patch or a rollout that does not finish in time, `deadline` the end of the overlap,
`term` a signal, `kill` a SIGKILL of the container, `podloss` the loss of the pod.

`TrustRollover` says what all this has to be from outside: whoever changes trust publishes only
material (a leaf's signer and a set of roots) that gets along with everything live. It
knows no phases. `ImplementsRollover` maps the Secret to the published material and each pod
to the material it copied; every step of the hook, of its rollback and of its retries
has to be a `Publish`, an `Exchange` or a stutter. It asks more than `MutualTrust`, which speaks of
the pods that happen to be live: the Secret itself must be safe to copy at any moment.

### StatefulUpgrade and the code

`pc` is the step of the running Job, named after what it does next (`copy`, `seal`, `point`,
`unlink`, `replace`, ...), or Helm's (`hooks`, `tls`, `apply`). One action per durable
effect. `db[s]` is the database file (an inode and its content) and its journal, which
remembers the inode it was written for (`of`); a connected pod remembers the inode it has
opened, so a pod that outlives `os.replace` holds a file without a name. `gens[s][n]` is the
generation of Helm operation `n`, `pointer[s]` what `current.json` names. `JobErrors` is an
exception (the `finally` clauses run), `JobKilled` is not.

A terminating pod goes on until it exits: it may be starting still, open and migrate the
database, commit and checkpoint, and `application_pods` does not list it. When the restore
unlinks the journal, whoever is still there keeps an inode and a journal without names and is
marked `left`; `OpenDatabase` by such a pod - a late start, a pool's new connection - needs
`LateOpens`. With it TRUE a rollback can be undone under Helm's eyes (finding 4, run
`StatefulLateOpen`); the run `StatefulUpgrade` has it FALSE, and `StatefulLate.cfg` shows what holds
in spite of it.

Abstractions: a database is the release that migrated it and its number of commits;
`quick_check` and digests are assumed to fail only for what a restore can leave
inconsistent; the one-second stamp in a generation's name is the operation's number.

Inputs: an upgrade goes to a release that is not older than any that is deployed (schema
migrations are forward only); a rollback goes to a release that was deployed with the
transaction in its chart, since `charts/clavenar/README.md` excludes older targets, which
carry no hook.

`StatefulStore` says what this has to be from outside, without Jobs, pods, files or journals: `data` is what
clients were told, `saved` the published backup, `copied` the one that is being made, `release` what is
deployed, `read` what readers see. Readers see `data` and nothing of a later release; a backup is `data` as it was
at one moment; data goes back only to `saved`, only when nobody reads; a release is replaced over a
backup of it (`Upgrade`) and comes back onto its own (`Rollback`). `ImplementsStore` maps `committed`, the
Deployments, the generation of `current.json` and what connected pods read to these; each
step of a Job, of Helm, of a controller or of a service has to be one of the store's, or a stutter. A Job
that ends while it makes a generation is a `Discard`. The store does not say that the backup under an
upgrade was made by this operation and holds every commit from before it; that is `UpgradeProtected`.

### NatsAuthorization and the code

`Permissions` is `permissions`, `ExpectedAuthorization` is `expected_authorization`; `Covers` and
`Allowed` are what a broker does with the result, so that the properties speak of what is
allowed and not of which strings are listed. `tree` is the chart: fixture, mirrors,
`values.yaml` (the authorization, and how many lines look generated), the digest in
`validate.yaml` and how many comparisons are there, the TLS and JetStream settings, and what the
templates render. A peer of a rule is the component it selects and whether anything narrows it
further: the check reads the component (`PeersOf`), a cluster both (`Admits`).
`PassMeansServed` is therefore about manifests whose peers are bare (`BarePeers`), as those of the
chart are; the demo's peers are the operator's, and compared as a whole. `WriteValues` and `WriteDigest` are the two halves of
`sync_values_authorization`; `SyncStops` is a run that fails between them. `Renders` is the
render gate, `Check` is `main`, `Install` an installation with the chart's values or an overlay.
A digest is what it is taken of.

### InstallLifecycle and the code

`DependencyReadiness` holds `contract`, `mirror`, `templates`, `accepted`. `ReadinessCheck` is
`main` of the checker, case by case (`VerifyCase`). The gate's URLs are looked for in the text of its
script, so one that begins another is taken for it: `Begins` says which endpoints do
(`/readyz` and an edited `/readyz/all` of Identity in the instance, where the comparison of the
runtime URLs tells them apart). `ListenerCheck` is what the listener check pins of
it (Service ports, `publishNotReadyAddresses`, policies); `Ci` runs both. `Install` needs
`accepted`. From then on `pod[s]` goes from `gate` over `starting` to `running`; `gate[s]` is the set of
URLs the init container still waits for, and `Responds` what a `wget` gets: the Service has
the port, leads to the pod (ready, or published when not ready), the policy admits the
caller, and the endpoint answers. `Answers` is an application's readiness: its own
dependencies through its runtime URLs, Identity's key, its workload identity. A container that `Hangs` answers nothing until its
liveness probe fails (`LivenessFails`) and it starts again. `store` is the
bundled Vault; a crash of Vault empties it. A Job's script is `wait`, `enable`, `write`, `read`
with the `|| true` of the code. `HelmSeesReady` is `--wait --wait-for-jobs`, `HelmSeesHook` the post-install
hook. `HelmFails` is a failed Job, or the timeout in the one situation in which waiting is
in vain; that there is no other one is `HelmFinishes`.

### ListenerMatrix and the code

A manifest is a record of Services, policies, workloads, other pods, capability ConfigMaps and
test Pods. `templates` is represented by the matrix and the contracts it follows, plus the
workloads: `Render` computes the manifest from them, so an untouched tree is accepted, and
`EditTemplates`, `EditMatrix`, `EditBoth` and `EditValues` make the copies differ. `Review` pins the
digest of the matrix (`reviewedContractSha256`), `HelmTemplate` renders into the file, `Check` is
`main`; nothing forces an order on them. `Validate` is `validate`, one operator per group of
comparisons. The properties do not use these operators: `Reaches`, `Endpoints` and `Backends` are the
cluster's semantics of policies, Services and aliases, and `Is` says who a pod really is.

Abstractions: a selector is a set of labels, a condition a set of terms, a peer a record; the
`from` of a rule is a set of optional sets, since absent and empty mean everybody; an
environment entry with a constant value that nothing else depends on is left out. A workload has its
`kind`, since the contracts of single Deployments pass over a StatefulSet of the same name, and the name of
its `first` container, which is what the contract of brain reads of a client. What the properties say of
environments they say of Deployments, `ClientsReach` of clients the check reads (`ReadByName`).

### SharedTokens and the code

`Rendered` is the template: `lookup` reads `live` while Helm renders, `Kept` is the comparison of
rotation ids and the `default ""` of each key, anything else is minted. What was rendered goes into
`history` (Helm's release record) and reaches `live` only with `ApplySecret`, after the hooks; the
Deployments follow one by one (`ApplyDeployment`), each with the rotation id as an annotation of its pod
template, so a pod is replaced exactly when the id or the keys it refers to change (`RollPod`), and
reads the Secret again whenever it starts (`RestartPod`). `Merged` is Helm's three-way merge, external to
the repository like `Rollback`, `HelmFails` and the pods. `external` is `authSecrets.existingSecretName`,
chosen once: the template then emits nothing, and `UpdateExternal` is the operator.

`MayUse` and `MayRestore` are what the operator has to keep to. They restate no guard of the code:
`charts/clavenar/README.md:419-432` and `values.yaml:52-62` make the id a generation that is
advanced with its keys and never gone back to, and the chart cannot enforce that. With
`RecoverForward = FALSE` both properties fail, see section 4.

## 3. Runs

`CHECK_DEADLOCK FALSE` in the TLS, stateful, install and token runs: operators stop asking after
`MaxRuns`, `MaxOperations` or `MaxRevisions`, and the system may then rest.

| run | instance | question |
|---|---|---|
| `TlsRotation` | 3 workloads (1 joins), 8 requests, 2 hook runs, 2 faults, 1 restart; 875 thousand states | do the safety properties hold under faults that fall where the protocol is meant to survive them? |
| `TlsKeepsSigner` | 4 DNS or profile rotations, 2 hook runs, 3 faults, 2 restarts; 296 thousand states | is a rotation without a second root all or nothing, whatever fails before its last annotation? |
| `TlsSettles` | 3 requests, 2 hook runs, 1 fault of any kind at any point, 1 restart, fair; 70 thousand states | does every run end, and does a run after a lost pod refuse what it cannot vouch for? |
| `TlsRollbackFromOverlapOld` | 1 fault: a rollout in `overlap-old` | violated: finding 1 |
| `TlsRetirementSkipped` | 1 fault: a get in `overlap-new` | violated: finding 2 |
| `StatefulUpgrade` | 1 service, 2 releases, 3 operations, 1 commit, 1 fault, fair; 968 thousand states | one database through backup, upgrade, retry, rollback, kill, with terminating pods at work; does a rollback end with a ready writer? |
| `StatefulLateOpen` | 1 service, 2 operations, no fault, `LateOpens` | violated: finding 4 |
| `StatefulLeftover` | 1 service, 1 fault | violated: finding 3 |
| `NatsAuthorization` | 2 chart clients and `demo-mint`, 4 contracts, 10 manifests, 2 edits; 57 thousand states | whatever is edited, also between the two writes, does the broker run the least authority of one contract, and does a passed check mean served clients? |
| `InstallLifecycle` | 3 applications and Vault, 2 edits, 2 revisions, 2 faults, backoff 2, fair; 166 thousand states | does what CI accepted start in order, come to an end and recover? |
| `ListenerMatrix` | 16 matrix edits, 17 workload edits, 20 overlays, 8 configurations, 1 edit, 26 pods; 2 thousand states | does an accepted manifest admit exactly whom the matrix authorizes? |
| `SharedTokens` | 3 installs, upgrades, rollbacks or operator updates, 2 failures; an older chart, a new release, an operator's Secret; 820 thousand states | is a rotation id one set of keys, everywhere and at any time? |

Properties of `TlsRotation`: `MutualTrust`, `ImplementsRollover` (refinement), `RetirementBoundary` (action property),
`ReadinessIsTrue`, `AllOrNothing`, `FailClosed`, `HistoryTruthful`,
`ReconcilePreserves` (action property), `RunningHaveIdentity`, `IdentityLoadsFirst` (action
property), `Settles` (liveness), and `TypeOK`. Of `StatefulUpgrade`: `PointerVerified`,
`NoDowngrade`, `ReadsCommitted`, `UpgradeProtected`, `RestoredExactly`,
`SingleWriter`, `ImplementsStore` (refinement), `RollbackServes` (liveness), `TypeOK`; the violated ones are
`RestoreUnobstructed` and, with `LateOpens`, `RestoredExactly`. Of
`NatsAuthorization`: `BrokerRunsGenerated`, `LeastAuthority`, `InboxesPrivate`, `PassMeansServed`,
`TypeOK`. Of `InstallLifecycle`:
`StartedInOrder`, `OutageDoesNotRestart` (action properties), `InstalledServes`,
`HelmFinishes`, `Recovers` (liveness), `TypeOK`. Of `ListenerMatrix`:
`OnlyAuthorised`, `CallersServed`, `ClientsReach`, `WebsiteBounded`, `CapabilitiesBound`. Of
`SharedTokens`: `OneKeyPerGeneration`, `ConsumersCurrent`. Each
is stated in words above its definition.

Two configurations are beside the runs, each violated: `TlsReconcileMisread.cfg` and
`TlsStaleAfterRollback.cfg` (section 4, "also met"). Three more pass: `StatefulServices.cfg` checks
`NoDowngrade` and `UpgradeProtected` with two services (1.5 million
states), where Jobs succeed for one service and fail for the other; `StatefulServes.cfg` `NoDowngrade`
and `RollbackServes` with three releases in a chain (414 thousand); `StatefulLate.cfg` `TypeOK`,
`PointerVerified` and `SingleWriter` with `LateOpens` (1.35 million). The safety properties are proved for any
number of services and releases and for either value of `LateOpens` where it matters, so these are no runs.

Why the bounds are enough. Two running workloads and one that joins are the smallest
cluster with a mixed pair, an Identity that is rolled first, and a membership change; a
third peer adds no kind of pair. Two hook runs: the second sees what the first has left,
in both the canonical and the legacy shape of the metadata. Two faults and one
restart (the Job's `backoffLimit` is 3): a fault that starts a rollback, and one inside it or in
the retry, after which the Job gives up and `AllOrNothing` has a failure to judge.
Three Helm operations: upgrade, a failed
or successful second one, and a rollback over either. One commit tells data from before
and after it apart. Releases are compared only with each other: upgrading twice to the later one
already leaves a backup that no rollback to the earlier one may use.

`NatsAuthorization`: the contracts move a manager, a writer, a reader, a durable consumer and a
client, and change the version; two edits are one before and one during a run of
`--write-values`, or one before and one after a check. `InstallLifecycle`: `identity`, `brain` and `proxy` give
the service everybody enrolls with, one whose readiness needs nobody, and one that waits for both
and watches both at run time, beside the bundled Vault; the contract has one entry that exists in
docker-compose only (`Bootstrapper`) and a startup edge to it, which Helm's projection leaves out; two edits can
change the contract and the projection together, which is what a check has to tell from
one of them; two faults (a container that dies or hangs, an eviction, a command of a Job) are one of a pod and one of a Job, or two of one Job, which exhaust
its `backoffLimit`; two revisions are an install and an upgrade after it failed or succeeded.
`ListenerMatrix`: one edit, because the eight initial configurations already combine the
values (defaults, production, bundled brokers, operator mTLS, identities off, ...), and because
every edit is enumerated in the matrix alone (declared or not), in the templates alone, and in
both; two edits only add pairs of them. The pods are one of each kind a selector can tell apart, in
their own and in a wrong namespace. `SharedTokens`: three operations are a rotation, what fails or
is tried again after it, and what comes after that (the properties are proved for any number); every failure point is one of four (before the
Secret, and before each Deployment), and two failures let a retry fail too.

Which faults the passing TLS runs leave out, and why: those of the findings and of the
divergences below, because the property would be violated by them. `TlsRotation` leaves out
the faults before every workload trusts both roots (a rollout, a patch, a deadline in
`overlap-old`), a failed `get`, faults in `commit`, a kill after the retirement, a kill or lost
pod inside the last step of the rollback, and, in a rotation that keeps the signer, all but a
kill or a lost pod (stale pods). `TlsKeepsSigner` has the others of that rotation, for the
properties that one does not touch; it leaves out a kill inside the rollback (last
divergence). `TlsSettles` includes all of them.

### Fairness

`TlsSettles` assumes weak fairness of the hook's steps as a whole (Kubernetes keeps a Job's
container running and restarts it) and of each workload's controller (it starts and
stops pods while it can). `StatefulUpgrade` assumes weak fairness of Helm and the running Job
together and of each Deployment's controller and its pods' exit and start. `InstallLifecycle` assumes weak fairness of each
pod's own steps (starting, enrolling, probing, the gate's script going on, the restart of a container
whose liveness probe fails) - the kubelet's loops -, of the running Job and of Helm, which polls. Faults, evictions,
operators, edits, commits and checkpoints are under no obligation, nor is the expiry of a gate. `kubectl rollout status` and
`wait_for_application_writers` have deadlines in the code; a wait that does not converge
ends in `RolloutTimesOut` or `WaitFails`, which fairness never forces while the
controllers can make progress.

## 4. Divergences

Each of these is a run of its own that TLC finds violated; the lines are quoted in
`PROJECT.json`.

1. *Rollback from `overlap-old`* (`apply.sh:193`). The rollback always starts with the new
   leaves under dual trust. If the rollout that failed was the first one, a workload that
   was not reached trusts only the old root, and refuses the first rolled-back peer. The
   comment above says every mixed pair stays mutually authenticated.
2. *Skipped workload* (`apply.sh:137`). `rollout_generation` reads any failure of
   `kubectl get` as "not deployed". The retirement then goes ahead without that workload.
3. *Leftover temporary* (`stateful-upgrade-jobs.yaml:430`). The temporary name ends in the
   process id, which in a container is always the same; after a killed restore, each later
   one refuses with "restore target already exists".
4. *Not zero writers* (`stateful-upgrade-jobs.yaml:217`). Terminating pods are not counted, so "zero
   writers" is reached while a candidate pod has its grace period left. If it opens the database by
   name after `os.replace` and the digest check - it was still starting, or its pool reconnects -, it
   migrates what was restored, and Helm brings the source release back over a database of the later
   one (`RestoredExactly`). `NoDowngrade`, `ReadsCommitted` and `ImplementsStore` are then violated
   too. A pod that opens between the unlink and the replacement
   leaves a journal of the old file beside the new one (`CleanJournal`), which also hides commits
   from the next backup (`UpgradeProtected`). A pod that only keeps what
   it had open does no harm: it holds an inode and a journal without names.

Also met, each with a configuration that shows it:

* *Misread Secret* (`snapshot.sh:20`, `TlsReconcileMisread.cfg`, `ReconcilePreserves`). Any failure
  of the first `kubectl get secret` reads as an absent Secret; a reconcile then mints a new CA
  over the live one.
* *Stale pods after a rollback* (`apply.sh:185`, `TlsStaleAfterRollback.cfg`,
  `RestoresPriorLeaves`). A rollback restarts pods by patching the old generation and digest
  into the templates. On the retry of a DNS or profile rotation the templates have exactly
  these until each is reached; a pod rescheduled before that runs with the candidate leaf,
  and the second rollback patches nothing and records readiness over it.

Met while modelling, outside the fault set of the passing run, without a run of their own:

* *History before commit* (`apply.sh:325`). The retired CA is recorded while
  `rollback_enabled` is still 1. If the last label or annotate call fails, the rollback makes a
  CA live again whose record says it is retired (`HistoryTruthful`, fault
  `<<"api", "commit">>`), and the next rotation of the same pair finds its record taken.
* *Identity rollout fails* (`apply.sh:142`). The loop of a profile correction only remembers the
  failure and patches the next workload, against the comment at line 127. `IdentityLoadsFirst`
  therefore speaks of corrections that have met no failure.
* *A kill after the retirement* (`tls-automint-job.yaml:28`). The restarted container begins
  with the old leaves, which the workloads no longer trust.
* *A kill inside the rollback* of a profile correction, or a rollback that does not reach a
  workload. The template of Identity still names the candidate while the Secret holds the old
  bundle again; a pod that starts then has old bytes under the candidate's template, and the
  retry's patch does not restart it (`IdentityLoadsFirst`, fault `<<"kill", "restore">>`, or
  `get`, `patch` or `rollout` there).

What the checkers accept and a reader might not expect. None of it contradicts a statement of the
repository, so none is a finding; where a property would fail on it, the property has the premise
named here, or the instance leaves the case out.

* *An empty `from`* (`check-listener-matrix.py:85`). A rule whose peers come from the values is
  expected with `from: []` when they are empty, and Kubernetes reads that as everybody. The
  matrix guards each such rule with the same values; a reviewed matrix that does not is
  accepted (`NoEmptySource` is the premise of `OnlyAuthorised` and `WebsiteBounded`).
* *Names of ports* (`:1648`, `:1666`). Container ports are compared by number; a Service that refers to
  them by name is compared with the matrix. Two exchanged names pass, except for console, brain
  and assurance (`MCSwappedNames`, which violates `CallersServed`). `TargetsNamed` is the premise of
  `CallersReached`.
* *Aliases in place of a Service* (`:1567`). The publications are compared by service and port; that one
  of the objects selects the service's pods, and that an alias leads to such an object under the name of
  the clients' URLs, is the matrix's business (`Fronted`, `HostsLead`).
* *Two words on brain and assurance*. That their ports 8081 and 8088 are authenticated and published
  under the same number, and that a client which a listener lists as allowed is also in a rule in force,
  only the matrix says (`ControlsListed`, `ClientsRuled`): the peers of all rules are compared
  with `allowed` (`:1507`), those of disabled contracts too.
* *Variables of others* (`:1253`). `CLAVENAR_CONSOLE_BRAIN_URL` and its like are compared in the
  Deployments they are meant for; in another container they may point anywhere (`UrlsOwned`).
* *A reviewed withdrawal* (`:1244`). A matrix that stops admitting a client of brain is accepted while
  that client's URL still points there (`w.name \in l.allowed` in `ClientsReach`).
* *A service without a policy contract* (`:182`) is not isolated: the check compares policies with the
  contracts there are. `Isolated` is a premise of `Authorised`.
* *A rule wider than its listener* (`:1500`). Of a rule the check asks that its listener exists, not that
  the listener is enabled where the rule is; the container port stays open to the rule's peers
  (`RulesServed`).
* *Tokens that mean somebody else* (`:238`, `:240`). The peer `vault` stands for the pods of the service
  whose contract it is written in, and a shared selector for whatever labels it lists; only a review
  keeps them to whom they are named after (`TokensExact`).
* The key material of workloads other than
  console and assurance is not compared; `brain-alias` is expected without `services.brain.enabled`.
* *Callers of the readiness check* (`check_dependency_readiness.py:348-359`). Ten pairs are
  written out. A new startup edge outside of them passes although no policy admits its gate
  (`MCBrainWaitsForProxy` in `MCInstallLifecycle`, left out of the run: such an install never ends).
* *A prefix of a URL* (`check_dependency_readiness.py:288-292`). A gate URL is looked for as a substring of
  the script, so `/readyz/all` passes for `/readyz`. What the application asks at run time is compared
  exactly, but for Vault and NATS there is no such comparison (`Begins = {}` is the premise of `StartsInOrder`).
* *A narrowed peer* (`check-nats-authorization.py:249-254`). Of a peer of the broker's policy only the component
  label is read; one that also asks for a namespace passes and admits nobody (`BarePeers` is the
  premise of `PassMeansServed` and `PassServes`).
* *A sidecar in front* (`check-listener-matrix.py:1264-1266`). Of policy-engine the contract of brain compares
  `containers[0]`; behind a sidecar that carries the variables the service's own may say
  anything (`SidecarCarries` in `MCListenerMatrix`; `ReadByName` in `ClientsReach`).
* *Two copies of the inbox prefix* (`check-nats-authorization.py:306`). The prefix of a Deployment is
  compared with a form written out in the checker, not with the contract's; `MCRenamed` is a
  contract in which they differ. `ContractsAssumption` excludes it.
* *Going back to a rotation id* (`shared-tokens-secret.yaml:31`; `RecoverForward = FALSE` in
  `SharedTokens`). The chart compares the id with the live Secret only. An id used before mints new
  keys under the old name. A rotation that failed in a hook and was repeated has been rendered
  twice; `helm rollback` to the failed revision brings the other keys in under the id in force, and
  no pod is replaced. Switching `hilPayloadProtection.managedEvaluation` off and on under one id
  re-mints the payload key, and so does any rotation. The chart's README excludes these.
* *values.yaml:193-196* calls the bootstrap Job a post-install hook; it is in the main manifest,
  and `HelmFinishes` is why it has to be.

## 5. Proofs

`tlapm` checks every proof; each theorem holds for every value of the constants that satisfies the
assumptions named here. The invariants below were checked with TLC on the instances of section 3 before
they were proved.

### The TLS hook

Constants are typed (`BundleAssumption`, `RotationAssumption`). What matters more is *which calls may
fail*: some of the divergences of section 4 are failures after which a property no longer holds, so a
theorem names the points of `FaultPoints` it excludes, and says nothing about runs with one of these.
Everything else - any number of faults at all other points, restarts, lost pods, runs, workloads,
requests - is covered.

| premise | excluded fault points |
|---|---|
| `NoMisread` | `get` in `snapshot` |
| `RestoreUndisturbed` | `api`, `patch`, `rollout` in `restore`; `api`, `term` in `commit` |
| `CommitUndisturbed` | `api`, `term`, `kill` in `commit` |
| `RolloverUndisturbed` | `get` in a phase with two roots; `api`, `patch`, `rollout`, `term` in `overlap-old`; `api`, `patch`, `rollout` in `rollback-new-dual` and `rollback-old-dual`; `kill` in `retiring`, `commit`, `rollback-new-dual` |
| `ReadinessUndisturbed` | `get` in `rotating`, `retiring`, `restore`; `api`, `patch`, `rollout`, `term` in `rotating` |
| `OrderUndisturbed` | `get` in `rotating`, `restore`; `patch`, `rollout`, `kill` in `restore` |

The fault points of the run `TlsRotation` satisfy all six, so it is an instance of every theorem; those of
`TlsKeepsSigner` satisfy the premises of `HookIsAllOrNothing` and of `IdentityFirst`, and `HookFailsClosed`, which has none, covers those of
`TlsSettles`. Adding
single points to that run shows which exclusions are necessary: `get` in `snapshot` breaks
`ReconcilePreserves`, `ImplementsRollover`, `MutualTrust`, `ReadinessIsTrue` and `RunningHaveIdentity`; `api` or
`term` in `commit` breaks `AllOrNothing` and `HistoryTruthful`; `kill` in `commit` breaks `HistoryTruthful` and
the refinement; `api`, `patch`, `rollout` or `get` in `overlap-old` or in either rollback under two roots,
`term` in `overlap-old`, `get` in `overlap-new` and `kill` in `rollback-new-dual` break the refinement. Added to
`TlsKeepsSigner`, each of the five points of `OrderUndisturbed` breaks `IdentityLoadsFirst`.
What runs with these faults do is what section 4 describes.

* `TypeCorrect`, `HookFailsClosed`: no premise, every fault is covered. `TypeOK` needs that the apply container is
  in one of its own phases (`PhaseKnown`); `FailClosed` is the invariant `Vetted` (found canonical by
  `snapshot.sh`, compared by `mint.sh`, unchanged since).
* `SecretHeld`, `RunningIdentified`, `ReconcileKeepsTrust` (`NoMisread`): `SecretInv` says which pairs of data and
  trust the Secret may hold in each phase, where in a phase the script can be, what `rollback_enabled`
  means there, and which part of the Secret is already of the phase (`Rewritten`). A retry starts
  from whatever of it was left, so the invariant also speaks of a script that has exited. A member of
  the release has its leaf in every bundle from which a pod can start, which is
  `RunningHaveIdentity`; with a reconcile there is only one pair, which is `ReconcilePreserves`.
* `HookIsAllOrNothing` (`NoMisread`, `RestoreUndisturbed`): `AllOrNothing` judges the last exit, but what the exit
  leaves is decided while the rollback announces its phase and calls it ready; `MetadataInv` carries
  it (`Announcing`, `GivesUpRestored`).
* `HistoryIsTruthful` (`NoMisread`, `CommitUndisturbed`): that a record is never of a live CA needs that
  certificates are numbered, that everything anywhere in the system has a number already given
  out (`Known`), that what a rotation mints is in no record and what it replaces was never retired (`HistoryInv`).
* `RolloverHeld`, `HookIsRollover`, `TrustIsMutual`, `RetirementWaits` (`NoMisread`, `RolloverUndisturbed`): `Agreed(S)`
  says that all that is live and published is signed by a key of S and trusts all of S. `RolloverInv` says
  which S each phase has (old, then both, in `overlap-old`; both; new; and back in the rollback), what the
  templates name, and that a rollout that has missed nobody has left only pods of its template
  (`Rolled`), which is what the next phase counts on. `HookIsRollover` is the refinement of `TrustRollover`,
  step by step: a write is a `Publish`, a pod's start or stop an `Exchange`, all else a stutter.
  `TrustIsMutual` follows from it and `RolloverIsMutual`, `RetirementBoundary` from `RolloverInv`.
* `AnnouncementsTrue` (`NoMisread`, `RolloverUndisturbed`, `ReadinessUndisturbed`): `ReadinessIsTrue` speaks of the metadata
  between runs; `ReadinessInv` says when metadata is credible at all, and that whenever it is, or a
  rollout is complete, every pod holds what is published. The phases of both kinds of rotation are
  treated apart (`Replacing`, `Keeping`), because only the second can fail with pods that hold the
  candidate under templates that are already those of the rollback.
* `IdentityFirst` (`NoMisread`, `OrderUndisturbed`): the order of the list says nothing of what Identity's pods
  have loaded. `LoadsInv` adds that a rollout that has met no failure has left behind only pods of its template
  (`Rolling`, shared with `AnnouncementsTrue`), and that whatever has the template of the rotation has copied the
  candidate - which a failed rotation and its retry keep true because the rollback, once begun, takes
  that template away from every workload before the script can exit. Here patches and rollouts of the rotation
  may fail, and the retry is covered.
* `RolloverAgrees` (in `TrustRollover`, no assumptions): `Agreement` of all live and published materials is
  inductive; an `Exchange` only takes material away or copies what is published. `RolloverIsMutual`
  carries it over to any behaviour of the hook that implements the rollover.

An attempt at `ReconcileKeepsTrust` found that the model admitted more requests for an absent Secret
than `mint.sh:473` and `validate.yaml:140` do. `MintAdmits` now asks for a plain reconcile there.

### The stateful upgrade

`StatefulUpgrade_proofs` assumes `UpgradeAssumption` only (releases are positive numbers, the
bounds are natural numbers, `LateOpens` is a Boolean). `TypeCorrect`, `Inductive`, `BackupsVerified` and
`WritersAlone` hold for either value of `LateOpens`. The others have the premise `~LateOpens`: no pod
that a restore left behind opens the database by name again. Finding 4 shows why;
`StatefulLate.cfg` checks the unconditional ones without it. Terminating pods that
open, migrate and write before that are in all of them.

* `TypeCorrect`: `Typed` adds to `TypeOK` that a Job runs only inside an operation and, past
  `load`, with a generation it has loaded; without it `gens[cur][loaded]` is nothing.
* `BackupsVerified`: `PointerVerified` is not inductive: which stage the generation is in depends on the step of
  the Job (`BackupInv`), in which direction it is bound on the operation (`OperationInv`), and that a copy is of a
  migrated database on every file there is (`Migrated`). That no pointer names the generation being
  made is `PointerInv`: pointers of services still to do are of older operations. `IInv` is the
  conjunction, `Inductive` the theorem; one lemma per conjunct, one step per action.
* `BackupsBound`: that a copy is not of a later
  release than its manifest says needs `NotAhead` - no database, journal or live pod is
  ahead of its Deployment. That, in turn, must survive a restore (`RestoreInv`: what the Job
  loaded is for the release being returned to, which is not above the live one) and the
  moment Helm takes a Deployment *back* to an older release (`RollbackInv`: by then
  everything is stopped, left behind and restored). Both are conjuncts of `IInv` under `~LateOpens`.
* `RollbacksExact`: `RestoredExactly` follows from `RollbackInv`, so the same invariant
  proves it.
* `JournalsClean`: `CleanJournal` is inductive relative to `IInv`. It is proved only; no run needs it, since a
  foreign journal that somebody reads violates `ReadsCommitted` and `ImplementsStore`.
* `WritersAlone` is about pods that are not terminating (one that is may be connected still beside its
  replacement, and SQLite's locks are between the two): two pods of two releases never meet. Under RollingUpdate every pod is of the live
  template, and no template changes before every service has been through its backup Job, which
  takes RollingUpdate away (`TemplateInv`, `StrategyInv`); `WriterInv` is the property without
  `Cardinality`.
* `NeverDowngraded`, `CommitsRead`: an interrupted restore leaves a service `Detached`, with nobody
  connected and no pod to start; until a later rollback is through with it, file and journal may
  hold less than was committed (`Interrupted`). The migrations of live pods and of `committed` only
  grow (`MigrationInv`, `FloorInv`).
* `UpgradesProtected`: a generation is bound to the live and the next release before its copy, and the
  copy covers `floor`, what was committed when the operation began (`MakingInv`); it stays so until
  the Deployment is applied (`ProtectInv`).
* `TransactionIsStore`: the refinement of `StatefulStore`, one lemma per step of the store. That a copy holds all that
  clients were told (`ImplementsCopy`) is not obvious: after an interrupted restore the file holds less, but
  no backup Job gets that far before a rollback has finished (`CommitInv`). `ImplementsReplace` needs both
  that an upgrade stands on a backup of this operation (`ProtectInv`) and that a rollback stands still on
  its own (`RollbackInv`). The other steps leave the store alone, or give up the backup in the making
  (`ImplementsQuiet`).

### The NATS authorization

`NatsAuthorization_proofs` assumes what the module does: a fixture names its clients, subjects, streams and
buckets once, their inboxes have the form `_INBOX.clavenar.<san>`, names are not wildcards
(`ContractsAssumption`, `FixtureAssumption`, `HandGrantsAssumption`, `NoStreamAssumption`), the peers of
the demo are not the chart's clients (`DemoPeersAssumption`), and the bound on
edits is a number. That a client is named once by its SAN and by its service makes the checker's "first client of a
service" that client. The generator does not refuse a fixture that names a stream twice; the two entries
would share their rights, so `FixtureAssumption` is what authors keep to.

* `Invariance`: `BrokerRunsGenerated` is not inductive: that an installation runs generated
  permissions needs that the pinned digest is the one of a contract the fixture has held
  (`PinnedHeld`), also while `--write-values` is between its writes and carries the contract it
  read. `PassedChecked` says that a passed check still describes the tree; `Shapes` that no
  edit gives a user a malformed grant. One step per action.
* `TypeCorrect`: a generated grant ends in a wildcard or has none, which is a fact about
  each of the concatenations of `Permissions`.
* `RunsGenerated`, `PrivateInboxes`, `PassServes` follow from it; `PassServes` is about the certificate a Deployment mounts and
  the user it is mapped to, its premise is `BarePeers`, and it needs that a service has one client (`FirstClient`); `PrivateInboxes` needs the shape of
  the inboxes, and that no subject of a contract begins like one.
* `AuthorityLeast`: what a user may do is what any of its grants covers, so each right of the contract is
  compared with every kind of grant: subjects of the application, of the JetStream API, of a
  key-value bucket, of acknowledgements and of inboxes differ in their first words (`Apart`), and
  within a kind a grant covers what it names or its wildcard stands for (one lemma for each).

### Readiness and the install

`InstallLifecycle_proofs` assumes `DocumentsAssumption` (the contract and the projection one starts from are
of their schema, the contract lists Helm's inventory, and edits stay within the services there are),
`ServicesAssumption` and `LifecycleBounds`.

* `RepoInv`: a tree is installed only while its last CI run is about the files as they are, and then
  `ReadinessCheck` holds of them. The lemmas on it say what an accepted tree gives: the gates and
  probes of the templates are those of the contract, their ports exist, policies admit who asks.
* `StartsInOrder` (premise `Begins = {}`, section 4): `met` grows while a pod waits, and `GateInv` says of each dependency of the contract
  that it was met or is still asked for; the gate opens when nothing is. That the URL asked for is the
  dependency's readiness, and not merely an address, comes from `RepoInv`.
* `OutagesStay`: a liveness probe that fails asks an endpoint which answers as long as the process runs,
  whatever the state of its dependencies, and its port is served. This again is a fact about accepted
  trees; only a hanging container fails it.
* `InstalledReady`: `ReadyInv` says what a pod found ready can reach, `CalmInv` what holds at each point of
  Helm's waiting as long as nothing has failed; with it the key that Identity needs is still there
  when the last Job is done.

### The listeners

`ListenerMatrix_proofs` holds for any matrix, workloads, values, overlays, edits and pods that satisfy four
assumptions about what is not edited here: labels are maps (`PodsAssumption`); `services.yaml` deploys the
capability services, brain, assurance and the console under their own component labels and with a port,
and a manifest exposes finitely many ports (`DeploymentsAssumption`); a matrix lists finitely many listeners, a
listener of a capability service is enabled only with that service, the ledger has a policy contract
enabled with it, and shared selectors mean pods of the release (`MatrixAssumption`); an operator
does not admit the website to the console (`ValuesAssumption`).

The invariant is that a verdict is about the files as they are (`PassedValid`): an edit of the
matrix, the values or the manifest file takes it back, so the comparisons of `Validate` hold in any state
that is called passed. The rest are the parts of the assumptions that edits preserve. From there each theorem is a chain through the
checker's comparisons to what the cluster does:

* `Authorised`: a pod that reaches a port of a workload is admitted by a rule of a policy that selects it; the
  policy is the one computed from the matrix (`expected_policies`); each of its sources stands
  for a peer of a rule, and the peer for a caller of the listener. `Is` then says that the pod admitted is that
  caller. The theorem is about matrices that satisfy `Reviewed`: every active listener's service has a
  policy contract, no rule is in force without its listener, tokens mean whom they are named after. The check
  asks for none of the three (section 4). With network policies on, they hold in every accepted state of the instance.
* `WebsiteContained`: has no such premise. Whatever the matrix was changed to admit, the website's pods
  get through only as the trusted proxy of the ledger, which the comparison of the deployment
  profile ties to the enforced identity and the mTLS port.
* `CapabilitiesStart`: the Deployment of a capability service whose environment is compared finds the mounted bundle.
* `CallersReached` goes the other way, from a rule to the listener. The publications give a Service; the
  checker only counts the ports of a workload's containers and finds each listed, so that none of a
  service's listeners is missing is a fact about cardinalities (`ListenerExposed`), which is what
  finiteness is assumed for; the target the Service names then resolves to the container; and the
  peer's source admits the component it is called after, because the policies compared are the ones
  computed (`RuleReaches`). It holds of matrices that are `Wired`: a Service with the service's selector
  behind each publication, containers that call ports what Services call them, and no pod
  whose component has the name of a shared selector.
* `ClientsServed` follows a URL: its value is the one the contract of console or policy-engine fixes in the container
  it reads (`ClientUrl`), so it names brain or assurance; their contracts put the port into the one container
  (`ControlDeployed`); a workload that matches a service has all its exposed ports listed, so
  that port is a listener's (`ExposedListened`); and the Service behind it, directly or by its alias, leads there
  (`ControlBacked`). Its second premise, `ClientsWired`, is what section 4 says of the two controls.

Both premises hold in every accepted state of the instance: a manifest that violates one of them and is accepted
is one the check does not tell from the others, and section 4 lists what then goes wrong.

Two attempts were findings about the model. `Is` had no case for the passkey peers of the console,
which no instance had used; the instance now has a passkey listener, a pod that is admitted there and values
that do so. And the arms of the CASE in `Sources` overlapped where the code's `elif` has an order; they exclude each
other now.

### The shared tokens

`SharedTokens_proofs` assumes `RecoverForward`: the operator keeps to the rules of the chart's README.

* `OneGeneration`: a revision waits in `history` while the Secret moves on, so the invariant says of
  each what it would do if applied: the latest one gives no key of its id a second value (`Agrees`),
  completed ones bring back only what was in force (`Served`), and the latest is never of an id
  below the live one (`Recorded`). Ids in force and values are never above `newest` and `minted`
  (`Numbered`), so what is minted is new. A key left in the object by a merge is kept by a later rendering only if
  its generation had it, which is why `Holds` and `Recorded` distinguish the keys every manifest has.
* `ConsumersAgree`: templates and pods under the id in force refer to keys of its generation only
  (`Current`), and a completed revision has reached every Deployment (`Applied`).

### Only model-checked

The violated properties of the findings and of the configurations beside the runs; and the liveness
properties `Settles`, `RollbackServes`, `HelmFinishes` and `Recovers`. Every safety property of a passing
run is a theorem, those with premises under the premises named above. Liveness under fairness and `ENABLED` are beyond the
prover; so is induction over data, which nothing here needs. No module declares a recursive operator.

## 6. Not modelled

RBAC rules; pod security; mounting and the authentication of the Jobs to the API; the wording
of errors; concurrent Helm operations (Helm locks the release); two workload replicas as
individuals; a PVC that loses a write it has synced; clocks.

`InstallLifecycle`: Helm's `--timeout` where waiting is not in vain; the type of a transit key that
is already there and the optional import of a signing key; NATS and the upstream stub as pods. Two
behaviours of the code are in the model and outside the properties. A dev Vault that restarts
between the end of the bootstrap Job and Helm's last look has lost the key, and the release waits
for its timeout (`HelmFails`). Helm goes by the last readiness answer of each pod, and
Identity's may be older than the loss of its key, so that a release is reported installed which
is about to become unready; `InstalledServes` therefore speaks of revisions in which nothing
failed and nothing was hanging when they began (`calm`), and `Recovers` and the next upgrade of the rest.

`NatsAuthorization`: an edit of a file between the script's read and its write of the same file,
which would be lost; the broker's own handling of connections. `ListenerMatrix`: the template
language - that `networkpolicy.yaml` renders the matrix is what the check compares, and the model
takes an arbitrary edited copy instead; the render gate, which refuses some configurations
earlier; IP blocks and port ranges, which the checker rejects in peers.
`SharedTokens`: a switch between the two modes of `authSecrets`, and a Secret an operator edits by
hand in the chart-managed one. RBAC, alerts, dashboards, the lab, image publishing and the kind installer are static
data or linear scripts around tools.

## 7. Plan

Done: the TLS hook, the stateful upgrade, their two abstract specifications and the refinements, the NATS
authorization, readiness and install, the listener matrix, the shared tokens, and the proofs of
section 5. Left, in this order:

1. What an abstract store promises its clients over a whole sequence of operations, with the operation in
   which a backup was made as part of its state.
2. The render gate as operators of its own, so that the listener check speaks of configurations it lets through.

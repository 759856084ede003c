------------------------------ MODULE TlsRotation ------------------------------
(***************************************************************************)
(* The TLS auto-mint hook Job (templates/tls-automint-job.yaml) running    *)
(* snapshot.sh, mint.sh and apply.sh against one Kubernetes Secret, and    *)
(* the workload pods that copy that Secret when they start.                *)
(*                                                                         *)
(* Every kubectl call of apply.sh is one action, so that a failed call, a  *)
(* signal, a killed container or a lost pod can fall between any two.  The *)
(* pods of a workload are a set of the kinds that are live; the controller *)
(* replaces them while the hook runs, and any pod may be rescheduled and   *)
(* copy the Secret of that moment.                                         *)
(*                                                                         *)
(* Abstracted: the fixed order of the rollout lists (any order, except     *)
(* that a profile fix takes Identity first), the label value, the clock    *)
(* (the overlap deadline passes when a fault says so) and digests (equal   *)
(* exactly when the bytes are).                                            *)
(***************************************************************************)
EXTENDS TlsBundle, FiniteSets

CONSTANTS
    Requests,       \* the hook invocations an operator may ask for
    InitialMembers, \* identities of the bundle the cluster starts with
    FaultPoints,    \* set of <<kind, phase>>: where the environment may fail
    MaxFaults,      \* how many faults may happen
    MaxRestarts,    \* the Job's backoffLimit
    MaxRuns,        \* how many hook invocations are explored
    FirstGeneration \* generation of the bundle the cluster starts with

ASSUME RotationAssumption ==
    /\ Requests \subseteq Request
    /\ InitialMembers \subseteq Workloads
    /\ FirstGeneration \in Generations
    /\ MaxFaults \in Nat /\ MaxRestarts \in Nat /\ MaxRuns \in Nat

VARIABLES
    bundle, trust, labelled, ann,  \* the Secret: data, ca.crt, label, annotations
    history,                       \* history Secrets: <<retired, successor>> CAs
    deployed, template, pods,      \* the cluster's workloads
    pc, phase,                     \* where the Job is, and in which phase
    todo, cur, missed,             \* rollout_generation: left, current, failed
    armed,                         \* rollback_enabled
    snap, cand,                    \* the pod's emptyDirs: previous/ and new/
    req, restarts,                 \* this Job's values and container restarts
    result, lost,                  \* how the last Job ended; did it lose its
                                   \* pod, or its last attempt to SIGKILL
    runs, serial, faults           \* bounds, and the fresh-serial counter

secretVars  == <<bundle, trust, labelled, ann>>
clusterVars == <<template, pods>>
rolloutVars == <<todo, cur, missed>>
stateVars   == <<snap, cand>>
jobVars     == <<req, restarts, result, lost, runs>>
vars == <<secretVars, history, deployed, clusterVars, pc, phase, rolloutVars,
          armed, stateVars, jobVars, serial, faults>>

RollbackPhases == {"rollback-new-dual", "rollback-old-dual", "restore"}
Phases == {"none", "snapshot", "initial", "migrate", "rotating",
           "overlap-old", "overlap-new", "retiring", "commit"}
          \cup RollbackPhases
ApplySteps == {"data", "label", "annotate", "next", "patch", "status", "ready",
               "gate", "check-history", "history", "committed"}
Steps == ApplySteps \cup {"idle", "snapshot", "mint", "start", "exited", "done"}
Shapes == {"absent", "legacy", "canonical"}

PodTemplate == [token : Token, rev : Nat, trust : SUBSET CA]
Pod == [template : PodTemplate, bundle : Bundle, trust : SUBSET CA]
Snapshots == [shape : Shapes, bundle : Bundle, trust : SUBSET CA,
              ann : Annotations]

TypeOK ==
    /\ bundle \in Bundle /\ trust \subseteq CA /\ labelled \in BOOLEAN
    /\ ann \in Annotations
    /\ history \subseteq CA \X CA
    /\ deployed \subseteq Workloads
    /\ template \in [Workloads -> PodTemplate]
    /\ pods \in [Workloads -> SUBSET Pod]
    /\ pc \in Steps /\ phase \in Phases
    /\ todo \subseteq Workloads /\ cur \in Workloads /\ missed \in BOOLEAN
    /\ armed \in BOOLEAN
    /\ snap \in Snapshots /\ cand \in Bundle
    /\ req \in Request /\ restarts \in Nat
    /\ result \in {"none", "succeeded", "failed"} /\ lost \in BOOLEAN
    /\ runs \in Nat /\ serial \in Nat /\ faults \in Nat

(***************************************************************************)
(* Initial states: no Secret and no workloads; or running workloads over a *)
(* bundle with, or without, the trust metadata.                            *)
(***************************************************************************)
StableToken(g) == [gen |-> g, tag |-> "stable"]

Unset == [state |-> "unset", gen |-> FirstGeneration, rev |-> 0,
          trust |-> {}, ready |-> FALSE,
          readyToken |-> StableToken(FirstGeneration),
          canRollback |-> FALSE, previousCa |-> 0]

StableAnnotations(g, b) ==
    [state |-> "stable", gen |-> g, rev |-> b.rev, trust |-> {b.ca},
     ready |-> TRUE, readyToken |-> StableToken(g), canRollback |-> FALSE,
     previousCa |-> 0]

NoSnapshot == [shape |-> "absent", bundle |-> NoBundle, trust |-> {},
               ann |-> Unset]

InitialBundle(exact) ==
    [ca |-> [key |-> 1, cert |-> 1], rev |-> 1, members |-> InitialMembers,
     sans |-> BaseSans, exact |-> exact]

\* The template Helm itself renders: the generation, and no Secret digest.
ChartTemplate(g) == [token |-> StableToken(g), rev |-> 0, trust |-> {}]

EmptyCluster ==
    /\ bundle = NoBundle /\ trust = {} /\ labelled = FALSE /\ ann = Unset
    /\ deployed = {}
    /\ pods = [w \in Workloads |-> {}]

RunningCluster(b, annotations) ==
    /\ bundle = b /\ trust = {b.ca} /\ labelled = TRUE /\ ann = annotations
    /\ deployed = b.members
    /\ pods = [w \in Workloads |->
                 IF w \in b.members
                 THEN {[template |-> ChartTemplate(FirstGeneration),
                        bundle |-> b, trust |-> {b.ca}]}
                 ELSE {}]

Init ==
    /\ \/ EmptyCluster
       \/ \E exact \in BOOLEAN :
            LET b == InitialBundle(exact)
            IN \/ RunningCluster(b, Unset)
               \/ RunningCluster(b, StableAnnotations(FirstGeneration, b))
    /\ history = {}
    /\ template = [w \in Workloads |-> ChartTemplate(FirstGeneration)]
    /\ pc = "idle" /\ phase = "none"
    /\ todo = {} /\ cur = Identity /\ missed = FALSE
    /\ armed = FALSE
    /\ snap = NoSnapshot /\ cand = NoBundle
    /\ req \in Requests /\ restarts = 0 /\ result = "none"
    /\ lost = FALSE /\ runs = 0 /\ serial = 1 /\ faults = 0

(***************************************************************************)
(* What each phase of apply.sh writes and rolls out.                       *)
(***************************************************************************)
KeepsSigner == req.reason \in SignerPreservingReasons
WritesOld == {"overlap-old", "rollback-old-dual", "restore"}
DualTrust == {"overlap-old", "overlap-new", "rollback-new-dual",
              "rollback-old-dual"}

PhaseBundle(p) == IF p \in WritesOld THEN snap.bundle ELSE cand
\* Mutant of PhaseTrust: the new leaves are published under their root alone.
PhaseTrustEarly(p) == IF p \in DualTrust \ {"overlap-new"}
                      THEN {snap.bundle.ca, cand.ca}
                      ELSE {PhaseBundle(p).ca}

PhaseTrust(p) == IF p \in DualTrust THEN {snap.bundle.ca, cand.ca}
                 ELSE {PhaseBundle(p).ca}
PhaseGen(p) == IF p \in WritesOld THEN snap.ann.gen ELSE req.gen
PhaseState(p) == IF p \in {"initial", "restore"} THEN "stable" ELSE p

\* Mutant of PhaseToken: a readiness token that names every phase.
UnmappedToken(p) ==
    [gen |-> IF p = "overlap-old" THEN req.gen ELSE PhaseGen(p), tag |-> p]

\* The readiness token; overlap-old already carries the new generation.
PhaseToken(p) ==
    [gen |-> IF p = "overlap-old" THEN req.gen ELSE PhaseGen(p),
     tag |-> IF p \in DualTrust THEN p ELSE "stable"]

PhaseTemplate(p) == [token |-> PhaseToken(p), rev |-> PhaseBundle(p).rev,
                     trust |-> PhaseTrust(p)]

PreviousCa(p) ==
    CASE p \in {"overlap-old", "rollback-old-dual"} -> cand.ca.cert
      [] p \in {"overlap-new", "rollback-new-dual", "retiring"} ->
            snap.bundle.ca.cert
      [] p = "commit" /\ ~KeepsSigner -> snap.bundle.ca.cert
      [] OTHER -> 0

\* Mutant of PendingAnnotations: write_bundle records readiness at once.
EagerAnnotations(p) ==
    [state |-> PhaseState(p), gen |-> PhaseGen(p),
     rev |-> PhaseBundle(p).rev, trust |-> PhaseTrust(p), ready |-> TRUE,
     readyToken |-> PhaseToken(p), canRollback |-> armed,
     previousCa |-> PreviousCa(p)]

PendingAnnotations(p) ==
    [state |-> PhaseState(p), gen |-> PhaseGen(p),
     rev |-> PhaseBundle(p).rev, trust |-> PhaseTrust(p), ready |-> FALSE,
     readyToken |-> PhaseToken(p), canRollback |-> armed,
     previousCa |-> PreviousCa(p)]

FinalAnnotations ==
    LET b == IF phase = "migrate" THEN snap.bundle ELSE cand
    IN [StableAnnotations(req.gen, b) EXCEPT !.previousCa = PreviousCa(phase)]

(***************************************************************************)
(* Control flow of apply.sh.                                               *)
(***************************************************************************)
\* Mutant of ArmedIn: only the dual-trust rotation arms its rollback.
ArmedInOverlapOnly(p) ==
    CASE p = "overlap-old" -> TRUE
      [] p \in {"restore", "rotating"} -> FALSE
      [] p = "commit" /\ KeepsSigner -> FALSE
      [] OTHER -> armed

\* rollback_enabled is cleared before the last rollback write, and before the
\* final annotation of a rotation that kept the signer.
ArmedIn(p) ==
    CASE p \in {"overlap-old", "rotating"} -> TRUE
      [] p = "restore" -> FALSE
      [] p = "commit" /\ KeepsSigner -> FALSE
      [] OTHER -> armed

Enter(p) ==
    /\ phase' = p
    /\ pc' = IF p \in {"commit", "migrate"} THEN "label" ELSE "data"
    /\ armed' = ArmedIn(p)

Goto(step) == pc' = step /\ UNCHANGED <<phase, armed>>

\* Mutant of Die: a failed retirement is taken for the point of no return.
DieNoReturn ==
    IF armed /\ phase \notin RollbackPhases \cup {"retiring"}
    THEN Enter(IF KeepsSigner THEN "restore" ELSE "rollback-new-dual")
    ELSE Goto("exited")

\* set -e and die end in on_exit: roll back if armed, otherwise stop.  The trap
\* is cleared and set +e holds in the rollback itself, which carries on.
Die == IF armed /\ phase \notin RollbackPhases
       THEN Enter(IF KeepsSigner THEN "restore" ELSE "rollback-new-dual")
       ELSE Goto("exited")

AfterRollout ==
    CASE phase = "initial" -> Goto("done")
      [] phase = "rotating" -> Enter("commit")
      [] phase \in {"overlap-old", "overlap-new"} -> Goto("gate")
      [] phase = "retiring" -> Goto("check-history")
      [] phase = "rollback-new-dual" -> Enter("rollback-old-dual")
      [] phase = "rollback-old-dual" -> Enter("restore")
      [] OTHER -> Goto("exited")

AfterCall ==
    CASE pc = "data" -> Goto("label")
      [] pc = "label" -> Goto("annotate")
      [] pc = "annotate" ->
            Goto(IF phase \in {"commit", "migrate"} THEN "committed" ELSE "next")
      [] OTHER -> AfterRollout

Fault(kind) == /\ <<kind, phase>> \in FaultPoints
               /\ faults < MaxFaults
               /\ faults' = faults + 1

(***************************************************************************)
(* Helm starts the hook Job; snapshot and mint are its init containers.    *)
(***************************************************************************)
Upgrade(r) ==
    /\ pc = "idle" /\ runs < MaxRuns
    /\ pc' = "snapshot" /\ phase' = "snapshot"
    /\ req' = r /\ runs' = runs + 1 /\ restarts' = 0
    /\ lost' = FALSE
    /\ snap' = NoSnapshot /\ cand' = NoBundle
    /\ UNCHANGED <<secretVars, history, deployed, clusterVars, rolloutVars,
                   armed, result, serial, faults>>

Snapshot ==
    /\ pc = "snapshot"
    /\ bundle # NoBundle => SnapshotAccepts(labelled, ann)
    /\ snap' = IF bundle = NoBundle THEN NoSnapshot
               ELSE [shape |-> IF IsLegacy(ann) THEN "legacy" ELSE "canonical",
                     bundle |-> bundle, trust |-> trust, ann |-> ann]
    /\ Goto("mint")
    /\ UNCHANGED <<secretVars, history, deployed, clusterVars, rolloutVars,
                   cand, jobVars, serial, faults>>

\* Any failure of the first kubectl get reads as an absent Secret.
SnapshotGetFails ==
    /\ pc = "snapshot" /\ Fault("get")
    /\ snap' = NoSnapshot
    /\ Goto("mint")
    /\ UNCHANGED <<secretVars, history, deployed, clusterVars, rolloutVars,
                   cand, jobVars, serial>>

\* A deterministic refusal: the restarts of the container all repeat it.
JobFails ==
    /\ pc' = "idle" /\ phase' = "none" /\ armed' = FALSE
    /\ todo' = {} /\ missed' = FALSE
    /\ result' = "failed"
    /\ UNCHANGED <<req, restarts, lost, runs, cur>>

SnapshotRefuses ==
    /\ pc = "snapshot"
    /\ bundle # NoBundle /\ ~SnapshotAccepts(labelled, ann)
    /\ JobFails
    /\ UNCHANGED <<secretVars, history, deployed, clusterVars, stateVars,
                   serial, faults>>

MintAdmits(age) ==
    IF snap.shape = "absent" THEN req.op = "reconcile" /\ req.reason = "none"
    ELSE /\ ValidatesActive(snap.bundle, snap.trust, req, age)
         /\ DigestsMatch(snap.bundle, snap.trust, snap.ann)
         /\ \/ AdmitsReconcile(snap.shape, snap.bundle, snap.ann.gen, req)
            \/ AdmitsRotate(snap.shape, snap.bundle, snap.ann.gen, req, age)

MintKeeps == snap.shape # "absent" /\ req.op = "reconcile"

Mint(age) ==
    /\ pc = "mint" /\ MintAdmits(age)
    /\ IF MintKeeps THEN UNCHANGED <<cand, serial>>
       ELSE /\ cand' = Candidate(snap.bundle, req, serial + 1)
            /\ serial' = serial + 1
    /\ Goto("start")
    /\ UNCHANGED <<secretVars, history, deployed, clusterVars, rolloutVars,
                   snap, jobVars, faults>>

MintRefuses(age) ==
    /\ pc = "mint" /\ ~MintAdmits(age)
    /\ JobFails
    /\ UNCHANGED <<secretVars, history, deployed, clusterVars, stateVars,
                   serial, faults>>

(***************************************************************************)
(* The apply container.                                                    *)
(***************************************************************************)
\* Mutant of ApplyStart: every reconcile initializes.
ApplyStartReinitializes ==
    /\ pc = "start"
    /\ IF req.op = "rotate"
       THEN Enter(IF KeepsSigner THEN "rotating" ELSE "overlap-old")
       ELSE Enter("initial")
    /\ UNCHANGED <<secretVars, history, deployed, clusterVars, rolloutVars,
                   stateVars, jobVars, serial, faults>>

\* On a present Secret reconcile migrates legacy metadata or changes nothing.
ApplyStart ==
    /\ pc = "start"
    /\ CASE req.op = "rotate" ->
              Enter(IF KeepsSigner THEN "rotating" ELSE "overlap-old")
         [] snap.shape = "absent" -> Enter("initial")
         [] snap.shape = "legacy" -> Enter("migrate")
         [] OTHER -> Goto("done")
    /\ UNCHANGED <<secretVars, history, deployed, clusterVars, rolloutVars,
                   stateVars, jobVars, serial, faults>>

WriteData ==
    /\ pc = "data"
    /\ bundle' = PhaseBundle(phase) /\ trust' = PhaseTrust(phase)
    /\ AfterCall
    /\ UNCHANGED <<labelled, ann, history, deployed, clusterVars, rolloutVars,
                   stateVars, jobVars, serial, faults>>

LabelSecret ==
    /\ pc = "label"
    /\ labelled' = TRUE
    /\ AfterCall
    /\ UNCHANGED <<bundle, trust, ann, history, deployed, clusterVars,
                   rolloutVars, stateVars, jobVars, serial, faults>>

StartRollout == todo' = req.members /\ missed' = FALSE /\ UNCHANGED cur

AnnotateSecret ==
    /\ pc = "annotate"
    /\ ann' = IF phase \in {"commit", "migrate"} THEN FinalAnnotations
              ELSE PendingAnnotations(phase)
    /\ AfterCall
    /\ StartRollout
    /\ UNCHANGED <<bundle, trust, labelled, history, deployed, clusterVars,
                   stateVars, jobVars, serial, faults>>

\* A call fails: the script stops, or, in the rollback, goes on without it.
CallFails ==
    /\ pc \in {"data", "label", "annotate", "ready"} /\ Fault("api")
    /\ IF phase \in RollbackPhases THEN AfterCall ELSE Die
    /\ IF pc = "annotate" THEN StartRollout ELSE UNCHANGED rolloutVars
    /\ UNCHANGED <<secretVars, history, deployed, clusterVars, stateVars,
                   jobVars, serial>>

\* Mutant of IsNext: a profile correction rolls the list as it is.
IsNextUnordered(w) == pc = "next" /\ w \in todo

\* rollout_generation: the next workload of the list.
IsNext(w) ==
    /\ pc = "next" /\ w \in todo
    /\ req.reason = "profile" /\ Identity \in todo => w = Identity

GetWorkload(w) ==
    /\ IsNext(w) /\ w \in deployed
    /\ cur' = w
    /\ Goto("patch")
    /\ UNCHANGED <<secretVars, history, deployed, clusterVars, todo, missed,
                   stateVars, jobVars, serial, faults>>

\* kubectl get fails: nothing to roll, because it is not there or, when the
\* API call itself failed, because nobody asked again.
SkipWorkload(w) ==
    /\ IsNext(w)
    /\ IF w \in deployed THEN Fault("get") ELSE UNCHANGED faults
    /\ todo' = todo \ {w}
    /\ UNCHANGED <<secretVars, history, deployed, clusterVars, pc, phase, cur,
                   missed, armed, stateVars, jobVars, serial>>

PatchWorkload ==
    /\ pc = "patch"
    /\ template' = [template EXCEPT ![cur] = PhaseTemplate(phase)]
    /\ Goto("status")
    /\ UNCHANGED <<secretVars, history, deployed, pods, rolloutVars, stateVars,
                   jobVars, serial, faults>>

PatchFails ==
    /\ pc = "patch" /\ Fault("patch")
    /\ missed' = TRUE
    /\ Goto("status")
    /\ UNCHANGED <<secretVars, history, deployed, clusterVars, todo, cur,
                   stateVars, jobVars, serial>>

Converged(w) == pods[w] # {} /\ \A p \in pods[w] : p.template = template[w]

RolloutConverges ==
    /\ pc = "status" /\ Converged(cur)
    /\ todo' = todo \ {cur}
    /\ Goto("next")
    /\ UNCHANGED <<secretVars, history, deployed, clusterVars, cur, missed,
                   stateVars, jobVars, serial, faults>>

RolloutTimesOut ==
    /\ pc = "status" /\ Fault("rollout")
    /\ todo' = todo \ {cur} /\ missed' = TRUE
    /\ Goto("next")
    /\ UNCHANGED <<secretVars, history, deployed, clusterVars, cur, stateVars,
                   jobVars, serial>>

\* Mutant of EndRollout: rollout_status is never looked at.
EndRolloutUnchecked ==
    /\ pc = "next" /\ todo = {}
    /\ Goto("ready")
    /\ UNCHANGED <<secretVars, history, deployed, clusterVars, rolloutVars,
                   stateVars, jobVars, serial, faults>>

EndRollout ==
    /\ pc = "next" /\ todo = {}
    /\ CASE ~missed -> Goto("ready")
         [] missed /\ phase \in RollbackPhases -> AfterRollout
         [] OTHER -> Die
    /\ UNCHANGED <<secretVars, history, deployed, clusterVars, rolloutVars,
                   stateVars, jobVars, serial, faults>>

RecordReady ==
    /\ pc = "ready"
    /\ ann' = [ann EXCEPT !.ready = TRUE, !.readyToken = PhaseToken(phase)]
    /\ AfterCall
    /\ UNCHANGED <<bundle, trust, labelled, history, deployed, clusterVars,
                   rolloutVars, stateVars, jobVars, serial, faults>>

\* Mutant of OverlapOpen: the old root is retired in one dual-trust step.
OverlapOpenSkipsNew ==
    /\ pc = "gate"
    /\ Enter("retiring")
    /\ UNCHANGED <<secretVars, history, deployed, clusterVars, rolloutVars,
                   stateVars, jobVars, serial, faults>>

OverlapOpen ==
    /\ pc = "gate"
    /\ Enter(IF phase = "overlap-old" THEN "overlap-new" ELSE "retiring")
    /\ UNCHANGED <<secretVars, history, deployed, clusterVars, rolloutVars,
                   stateVars, jobVars, serial, faults>>

OverlapExpired ==
    /\ pc = "gate" /\ Fault("deadline")
    /\ Die
    /\ UNCHANGED <<secretVars, history, deployed, clusterVars, rolloutVars,
                   stateVars, jobVars, serial>>

\* Mutant of HistoryEntry: the record of the successor.
HistoryEntrySwapped == <<cand.ca, snap.bundle.ca>>

\* The history Secret is named after the retired and the successor CA.
HistoryEntry == <<snap.bundle.ca, cand.ca>>

CheckHistory ==
    /\ pc = "check-history"
    /\ IF HistoryEntry \in history THEN Die ELSE Goto("history")
    /\ UNCHANGED <<secretVars, history, deployed, clusterVars, rolloutVars,
                   stateVars, jobVars, serial, faults>>

CreateHistory ==
    /\ pc = "history"
    /\ history' = history \cup {HistoryEntry}
    /\ Enter("commit")
    /\ UNCHANGED <<secretVars, deployed, clusterVars, rolloutVars, stateVars,
                   jobVars, serial, faults>>

HistoryFails ==
    /\ pc = "history" /\ Fault("api")
    /\ Die
    /\ UNCHANGED <<secretVars, history, deployed, clusterVars, rolloutVars,
                   stateVars, jobVars, serial>>

\* The last annotation is on the Secret; rollback_enabled=0 and exit 0.
Committed ==
    /\ pc = "committed"
    /\ pc' = "done" /\ armed' = FALSE
    /\ UNCHANGED <<secretVars, history, deployed, clusterVars, phase,
                   rolloutVars, stateVars, jobVars, serial, faults>>

(***************************************************************************)
(* Signals, killed containers, lost pods, and the Job's retries.           *)
(***************************************************************************)
\* The trap turns a termination signal into exit 1, once.
Terminate ==
    /\ pc \in ApplySteps /\ phase \notin RollbackPhases /\ Fault("term")
    /\ Die
    /\ UNCHANGED <<secretVars, history, deployed, clusterVars, rolloutVars,
                   stateVars, jobVars, serial>>

\* SIGKILL, or a signal during the rollback, whose trap is cleared.
Kill ==
    /\ pc \in ApplySteps /\ Fault("kill")
    /\ Goto("exited")
    /\ lost' = (lost \/ restarts = MaxRestarts)
    /\ UNCHANGED <<secretVars, history, deployed, clusterVars, rolloutVars,
                   stateVars, req, restarts, result, runs, serial>>

\* OnFailure: the same pod, its emptyDirs, and a fresh shell.
RestartContainer ==
    /\ pc = "exited" /\ restarts < MaxRestarts
    /\ restarts' = restarts + 1
    /\ pc' = "start" /\ phase' = "snapshot" /\ armed' = FALSE
    /\ UNCHANGED <<secretVars, history, deployed, clusterVars, rolloutVars,
                   stateVars, req, result, lost, runs, serial, faults>>

\* The node or pod is gone with its emptyDirs; the Job creates another pod.
LosePod ==
    /\ pc \in ApplySteps /\ Fault("podloss")
    /\ pc' = "snapshot" /\ phase' = "snapshot" /\ armed' = FALSE
    /\ snap' = NoSnapshot /\ cand' = NoBundle
    /\ todo' = {} /\ missed' = FALSE /\ lost' = TRUE
    /\ UNCHANGED <<secretVars, history, deployed, clusterVars, cur, req,
                   restarts, result, runs, serial>>

\* Mutant of GiveUp: one restart more than there are.
GiveUpLate ==
    /\ pc = "exited" /\ restarts > MaxRestarts
    /\ JobFails
    /\ UNCHANGED <<secretVars, history, deployed, clusterVars, stateVars,
                   serial, faults>>

GiveUp ==
    /\ pc = "exited" /\ restarts = MaxRestarts
    /\ JobFails
    /\ UNCHANGED <<secretVars, history, deployed, clusterVars, stateVars,
                   serial, faults>>

(***************************************************************************)
(* The hook succeeded: Helm applies the release, whose new workloads start *)
(* from the Secret of that moment.                                         *)
(***************************************************************************)
PodOf(t) == [template |-> t, bundle |-> bundle, trust |-> trust]

HelmApplies ==
    /\ pc = "done"
    /\ deployed' = deployed \cup req.members
    /\ pods' = [w \in Workloads |->
                  IF w \in req.members \ deployed
                  THEN {PodOf(template[w])} ELSE pods[w]]
    /\ pc' = "idle" /\ phase' = "none" /\ result' = "succeeded"
    /\ UNCHANGED <<secretVars, history, template, rolloutVars, armed,
                   stateVars, req, restarts, lost, runs, serial, faults>>

(***************************************************************************)
(* The workload controllers (external), concurrent with all of the above.  *)
(* A pod starts only if the Secret holds its identity.                     *)
(***************************************************************************)
StartPod(w) ==
    /\ w \in deployed /\ w \in bundle.members
    /\ \A p \in pods[w] : p.template # template[w]
    /\ pods' = [pods EXCEPT ![w] = @ \cup {PodOf(template[w])}]
    /\ UNCHANGED <<secretVars, history, deployed, template, pc, phase,
                   rolloutVars, armed, stateVars, jobVars, serial, faults>>

StopPod(w, p) ==
    /\ p \in pods[w] /\ p.template # template[w]
    /\ \E q \in pods[w] : q.template = template[w]
    /\ pods' = [pods EXCEPT ![w] = @ \ {p}]
    /\ UNCHANGED <<secretVars, history, deployed, template, pc, phase,
                   rolloutVars, armed, stateVars, jobVars, serial, faults>>

\* Eviction or a node drain: the replacement copies today's Secret.
ReplacePod(w, p) ==
    /\ p \in pods[w] /\ w \in bundle.members
    /\ pods' = [pods EXCEPT ![w] = (@ \ {p}) \cup {PodOf(p.template)}]
    /\ UNCHANGED <<secretVars, history, deployed, template, pc, phase,
                   rolloutVars, armed, stateVars, jobVars, serial, faults>>

Ages == {"fresh", "due", "expired"}

HookStep ==
    \/ Snapshot \/ SnapshotRefuses
    \/ \E age \in Ages : Mint(age) \/ MintRefuses(age)
    \/ ApplyStart \/ WriteData \/ LabelSecret \/ AnnotateSecret
    \/ \E w \in Workloads : GetWorkload(w) \/ SkipWorkload(w)
    \/ PatchWorkload \/ RolloutConverges \/ EndRollout \/ RecordReady
    \/ OverlapOpen \/ CheckHistory \/ CreateHistory \/ Committed
    \/ RestartContainer \/ GiveUp \/ HelmApplies

FaultStep ==
    \/ SnapshotGetFails \/ CallFails \/ PatchFails \/ RolloutTimesOut
    \/ OverlapExpired \/ HistoryFails \/ Terminate \/ Kill \/ LosePod

Controller(w) == StartPod(w) \/ \E p \in pods[w] : StopPod(w, p)

Next ==
    \/ \E r \in Requests : Upgrade(r)
    \/ HookStep
    \/ FaultStep
    \/ \E w \in Workloads :
         Controller(w) \/ \E p \in pods[w] : ReplacePod(w, p)

Spec == Init /\ [][Next]_vars

\* Kubernetes keeps running the hook's containers and reconciling workloads;
\* operators, faults and evictions are under no obligation.
Fairness == /\ WF_vars(HookStep)
            /\ \A w \in Workloads : WF_vars(Controller(w))

FairSpec == Spec /\ Fairness

(***************************************************************************)
(* Properties.                                                             *)
(***************************************************************************)
\* No two live pods of the release ever refuse each other's certificate, in
\* the rollout and in the rollback of apply.sh.
MutualTrust ==
    \A v, w \in Workloads : \A p \in pods[v], q \in pods[w] :
        Accepts(p.trust, q.bundle)

Material(b, roots) ==
    [signer |-> b.ca.key, roots |-> {c.key : c \in roots}]

Rollover == INSTANCE TrustRollover WITH
    Peers     <- Workloads,
    published <- Material(bundle, trust),
    live      <- [w \in Workloads |->
                    {Material(p.bundle, p.trust) : p \in pods[w]}]

\* The hook, its failures and its retries included, is a trust rollover: it
\* writes to the Secret only what gets along with every pod that is live, so
\* that a pod may start or be replaced at any moment.
ImplementsRollover == Rollover!Spec

\* The old root leaves the live trust only when every governed workload runs
\* with the new leaf and still trusts both roots (apply.sh, retirement).
RetirementBoundary ==
    [][(pc = "data" /\ phase = "retiring" /\ trust' # trust)
         => \A w \in deployed : \A p \in pods[w] :
               p.bundle = cand /\ p.trust = {snap.bundle.ca, cand.ca}]_vars

\* Between hook runs, metadata that would let the next run act on the Secret is
\* never a lie: every live pod runs with exactly the bytes of that Secret,
\* whatever failed on the way there.
ReadinessIsTrue ==
    pc = "idle" /\ bundle # NoBundle /\ Trusted(labelled, ann, bundle, trust)
      => \A w \in deployed : \A p \in pods[w] :
            p.bundle = bundle /\ p.trust = trust

\* A finished Job that kept its pod, and whose last attempt could run its exit
\* trap, left the candidate generation live, or the generation it found: data,
\* trust and metadata together.
AllOrNothing ==
    pc = "idle" /\ ~lost =>
      /\ result = "succeeded" /\ cand # NoBundle
           => /\ bundle = cand /\ trust = {cand.ca}
              /\ IsCanonical(ann) /\ ann.gen = req.gen /\ ann.rev = cand.rev
      /\ result = "failed" /\ snap.shape = "canonical"
           => /\ bundle = snap.bundle /\ trust = snap.trust
              /\ IsCanonical(ann) /\ ann.gen = snap.ann.gen
              /\ ann.rev = snap.ann.rev

\* A rotation that kept the signer and failed, and whose metadata is stable
\* again, has every live pod back on the prior leaves (chart README, DNS
\* rotation: "restores the exact prior leaf bundle if rollout fails").
RestoresPriorLeaves ==
    pc = "idle" /\ result = "failed" /\ KeepsSigner /\ snap.shape = "canonical"
      /\ Trusted(labelled, ann, bundle, trust)
      => \A w \in deployed : \A p \in pods[w] : p.bundle = snap.bundle

\* A CA with a history record is not live trust.
HistoryOnlyRetired == \A entry \in history : entry[1] \notin trust

\* A stable generation that names a predecessor has the record of it.
LineageRecorded ==
    ann.state = "stable" /\ ann.previousCa # 0
      => \E entry \in history : /\ entry[1].cert = ann.previousCa
                                /\ entry[2].cert = ann.rev

\* The history Secrets are the record of what was retired, no more and no
\* less: a recorded CA is never live trust again, also when a retirement is
\* rolled back or repeated, and no retirement is without its record
\* (apply.sh:304-325).
HistoryTruthful == HistoryOnlyRetired /\ LineageRecorded

\* The hook acts on existing metadata only if the bytes are those the metadata
\* records, one signer and no second root, whatever a lost pod left behind.
FailClosed ==
    pc \in {"start"} \cup ApplySteps /\ snap.shape = "canonical"
      => /\ snap.ann.state = "stable" /\ snap.ann.ready
         /\ snap.ann.rev = snap.bundle.rev
         /\ snap.trust = {snap.bundle.ca}

\* A reconcile never replaces trust that exists.
ReconcilePreserves ==
    [][(pc # "idle" /\ req.op = "reconcile" /\ bundle # NoBundle)
         => UNCHANGED <<bundle, trust>>]_vars

\* No workload that runs is ever without its identity in the Secret, also
\* while a rotation adds identities or takes the additions back.
RunningHaveIdentity == bundle # NoBundle => deployed \subseteq bundle.members

\* A profile correction that has met no failure yet rolls another workload only
\* when every Identity pod serves the corrected CA.
IdentityLoadsFirst ==
    [][(req.reason = "profile" /\ phase = "rotating" /\ ~missed
          /\ template' # template /\ cur # Identity)
         => \A p \in pods[Identity] : p.bundle = cand]_vars

\* Every hook run ends: it never hangs in a phase.
Settles == pc # "idle" ~> pc = "idle"
================================================================================

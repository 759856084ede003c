---------------------------- MODULE StatefulUpgrade ----------------------------
(***************************************************************************)
(* The SQLite upgrade transaction of templates/stateful-upgrade-jobs.yaml: *)
(* before an upgrade, one Job per stateful service takes an online backup  *)
(* and forces the Recreate strategy; before a rollback, one Job per        *)
(* service stops the writer and restores the backup.  Helm runs the Jobs   *)
(* one after the other, then the TLS hook (which rolls the same            *)
(* Deployments), then applies the release, and stops at the first failure. *)
(*                                                                         *)
(* Every durable effect of the script is one action, so that a Job can be  *)
(* killed between any two.  The Deployment controllers, and the services   *)
(* that migrate, write and checkpoint their database, run concurrently; a  *)
(* pod that is on its way out goes on until it exits, and may start, open  *)
(* and migrate the database meanwhile, unseen by the script.  Whether one  *)
(* that a restore found running opens the database by name again, after    *)
(* its journal was unlinked, is the constant LateOpens: SQLite's open      *)
(* connections do not, a late start or a pool's new connection does.       *)
(*                                                                         *)
(* Abstracted: a database is the release that migrated it and the number   *)
(* of its commits; the one-second stamp of a generation is the number of   *)
(* the Helm operation (no two within a second); quick_check and digests    *)
(* fail only on what a restore could leave inconsistent, a journal beside  *)
(* a file it was not written for.                                          *)
(***************************************************************************)
EXTENDS Naturals, FiniteSets

CONSTANTS
    Services,       \* the services with a SQLite database
    Releases,       \* chart versions; a later one migrates the database
    FirstRelease,   \* the release the cluster starts with
    MaxOperations,  \* how many helm upgrades and rollbacks are explored
    MaxCommits,     \* how many commits a database takes
    MaxFaults,      \* how many Jobs are killed or meet a failing call
    LateOpens       \* does a pod that a restore left behind open by name again?

ASSUME UpgradeAssumption ==
    /\ Releases \subseteq Nat \ {0} /\ FirstRelease \in Releases
    /\ MaxOperations \in Nat /\ MaxCommits \in Nat /\ MaxFaults \in Nat
    /\ LateOpens \in BOOLEAN

VARIABLES
    db,        \* per service: the database file and its journal on the PVC
    committed, \* per service: what clients were told, or what was restored
    dep,       \* per service: the Deployment object
    pods,      \* per service: the live application pods
    gens,      \* per service and operation: the backup generation
    pointer,   \* per service: the generation current.json names, 0 for none
    leftover,  \* per service: temporary files on the PVC
    op, target, todo,  \* the Helm operation, its chart, services still to do
    cur, pc, loaded,   \* the running Job: service, step, generation loaded
    floor,     \* per service: what was committed when the operation began
    past,      \* the releases Helm can roll back to
    ops, faults        \* bounds, and the number of this operation

dataVars   == <<db, committed>>
backupVars == <<gens, pointer, leftover>>
helmVars   == <<op, target, floor, past, ops>>
vars == <<dataVars, dep, pods, backupVars, helmVars, todo, cur, pc, loaded,
          faults>>

Operations == 1..MaxOperations
Data == [rel : Nat, commits : Nat]
NoData == [rel |-> 0, commits |-> 0]
File == [inode : Nat, main : Data, wal : Data, of : Nat]
Deployment == [rel : Nat, tpl : Nat, replicas : {0, 1},
               strategy : {"RollingUpdate", "Recreate"}]
Pod == [tpl : Nat, rel : Nat, inode : Nat, ready : BOOLEAN,
        draining : BOOLEAN, left : BOOLEAN]
Stages == {"none", "directory", "copied", "sealed"}
Generation == [stage : Stages, source : Nat, target : Nat, data : Data]
NoGeneration == [stage |-> "none", source |-> 0, target |-> 0, data |-> NoData]
Temporaries == {"pointer", "restore", "receipt"}

BackupSteps == {"wait-one", "mkdir", "copy", "seal", "pointer-tmp", "point",
                "strategy"}
RestoreSteps == {"load", "scale", "wait-zero", "stage", "unlink", "replace",
                 "receipt-tmp", "receipt"}
JobSteps == BackupSteps \cup RestoreSteps
Steps == JobSteps \cup {"idle", "hooks", "tls", "apply"}

TypeOK ==
    /\ db \in [Services -> File] /\ committed \in [Services -> Data]
    /\ dep \in [Services -> Deployment]
    /\ pods \in [Services -> SUBSET Pod]
    /\ gens \in [Services -> [Operations -> Generation]]
    /\ pointer \in [Services -> {0} \cup Operations]
    /\ leftover \in [Services -> SUBSET Temporaries]
    /\ op \in {"none", "upgrade", "rollback"} /\ target \in Releases
    /\ todo \subseteq Services /\ cur \in Services /\ pc \in Steps
    /\ loaded \in {0} \cup Operations
    /\ floor \in [Services -> Data]
    /\ past \subseteq Releases
    /\ ops \in 0..MaxOperations /\ faults \in Nat

(***************************************************************************)
(* Initial states: one ready writer per service, under a chart with or     *)
(* without this transaction.  A chart without it never set a strategy, and *)
(* carries no rollback hook, so no rollback to it is considered.           *)
(***************************************************************************)
FirstPod == [tpl |-> 0, rel |-> FirstRelease, inode |-> 1, ready |-> TRUE,
             draining |-> FALSE, left |-> FALSE]
FirstData == [rel |-> FirstRelease, commits |-> 0]

Init ==
    /\ db = [s \in Services |->
               [inode |-> 1, main |-> FirstData, wal |-> NoData, of |-> 1]]
    /\ committed = [s \in Services |-> FirstData]
    /\ \E strategy \in {"RollingUpdate", "Recreate"} :
         /\ dep = [s \in Services |-> [rel |-> FirstRelease, tpl |-> 0,
                                       replicas |-> 1, strategy |-> strategy]]
         /\ past = IF strategy = "Recreate" THEN {FirstRelease} ELSE {}
    /\ pods = [s \in Services |-> {FirstPod}]
    /\ gens = [s \in Services |-> [n \in Operations |-> NoGeneration]]
    /\ pointer = [s \in Services |-> 0]
    /\ leftover = [s \in Services |-> {}]
    /\ op = "none" /\ target = FirstRelease /\ todo = {}
    /\ cur \in Services /\ pc = "idle" /\ loaded = 0
    /\ floor = [s \in Services |-> FirstData]
    /\ ops = 0 /\ faults = 0

\* What a SQLite connection reads: the journal over the file.
Content(file) == IF file.wal = NoData THEN file.main ELSE file.wal

\* application_pods: pods on their way out are not listed.
application_pods(s) == {p \in pods[s] : ~p.draining}

OneWriter(s) == /\ Cardinality(application_pods(s)) = 1
                /\ \A p \in application_pods(s) : p.ready
NoWriter(s) == application_pods(s) = {}

(***************************************************************************)
(* Helm.                                                                   *)
(***************************************************************************)
Begin(kind, release) ==
    /\ pc = "idle" /\ ops < MaxOperations
    /\ op' = kind /\ target' = release /\ ops' = ops + 1
    /\ todo' = Services /\ pc' = "hooks" /\ floor' = committed
    /\ UNCHANGED <<dataVars, dep, pods, backupVars, past, cur, loaded, faults>>

Upgrade(release) == /\ \A s \in Services : release >= dep[s].rel
                    /\ Begin("upgrade", release)

Rollback(release) == release \in past /\ Begin("rollback", release)

StartJob(s) ==
    /\ pc = "hooks" /\ s \in todo
    /\ cur' = s
    /\ pc' = IF op = "upgrade" THEN "wait-one" ELSE "load"
    /\ UNCHANGED <<dataVars, dep, pods, backupVars, helmVars, todo, loaded,
                   faults>>

HooksDone ==
    /\ pc = "hooks" /\ todo = {}
    /\ todo' = Services
    /\ pc' = IF op = "upgrade" THEN "tls" ELSE "apply"
    /\ UNCHANGED <<dataVars, dep, pods, backupVars, helmVars, cur, loaded,
                   faults>>

\* The TLS hook's rollout annotates the pod template of a live Deployment.
TlsRollout(s) ==
    /\ pc = "tls" /\ s \in todo
    /\ todo' = todo \ {s}
    /\ dep' = [dep EXCEPT ![s].tpl = @ + 1]
    /\ UNCHANGED <<dataVars, pods, backupVars, helmVars, cur, pc, loaded,
                   faults>>

\* A reconcile rolls nothing out, a rotation every Deployment.
TlsDone ==
    /\ pc = "tls" /\ todo \in {{}, Services}
    /\ todo' = Services /\ pc' = "apply"
    /\ UNCHANGED <<dataVars, dep, pods, backupVars, helmVars, cur, loaded,
                   faults>>

\* Mutant of ApplyDeployment: the replica count of the hook stays.
ApplyKeepsReplicas(s) ==
    /\ pc = "apply" /\ s \in todo
    /\ dep' = [dep EXCEPT ![s].rel = target, ![s].tpl = @ + 1,
                          ![s].strategy = "Recreate"]
    /\ todo' = todo \ {s} /\ past' = past \cup {target}
    /\ UNCHANGED <<dataVars, pods, backupVars, op, target, floor, ops, cur, pc,
                   loaded, faults>>

\* Helm's three-way merge also takes the replica count back to the chart's.
ApplyDeployment(s) ==
    /\ pc = "apply" /\ s \in todo
    /\ dep' = [dep EXCEPT ![s] = [rel |-> target, tpl |-> @.tpl + 1,
                                  replicas |-> 1, strategy |-> "Recreate"]]
    /\ todo' = todo \ {s} /\ past' = past \cup {target}
    /\ UNCHANGED <<dataVars, pods, backupVars, op, target, floor, ops, cur, pc,
                   loaded, faults>>

Applied ==
    /\ pc = "apply" /\ todo = {}
    /\ pc' = "idle" /\ op' = "none"
    /\ UNCHANGED <<dataVars, dep, pods, backupVars, target, floor, past, ops,
                   todo, cur, loaded, faults>>

\* The operation ends with whatever was done so far.
Abort == pc' = "idle" /\ op' = "none" /\ todo' = {} /\ loaded' = 0

Fault == faults < MaxFaults /\ faults' = faults + 1

HelmFails ==
    /\ pc \in {"tls", "apply"} /\ Fault
    /\ Abort
    /\ UNCHANGED <<dataVars, dep, pods, backupVars, target, floor, past, ops,
                   cur>>

(***************************************************************************)
(* The Jobs: what ends one.                                                *)
(***************************************************************************)
Goto(step) == pc' = step /\ UNCHANGED todo
EndJob == pc' = "hooks" /\ todo' = todo \ {cur} /\ loaded' = 0

\* fail(): the script stops before it has created a temporary file.
Refuse ==
    /\ Abort
    /\ UNCHANGED <<dataVars, dep, pods, backupVars, target, floor, past, ops,
                   cur, faults>>

\* The temporary file of the step the Job is at.
Temporary == CASE pc = "point" -> {"pointer"}
               [] pc \in {"unlink", "replace"} -> {"restore"}
               [] pc = "receipt" -> {"receipt"}
               [] OTHER -> {}

\* A call raises: the finally clauses remove the temporary file.
JobErrors ==
    /\ pc \in JobSteps /\ Fault
    /\ leftover' = [leftover EXCEPT ![cur] = @ \ Temporary]
    /\ Abort
    /\ UNCHANGED <<dataVars, dep, pods, gens, pointer, target, floor, past, ops,
                   cur>>

\* Deadline, eviction, out of memory: backoffLimit 0, nothing is cleaned up.
JobKilled ==
    /\ pc \in JobSteps /\ Fault
    /\ Abort
    /\ UNCHANGED <<dataVars, dep, pods, backupVars, target, floor, past, ops,
                   cur>>

(***************************************************************************)
(* wait_for_application_writers: converged, or out of time or patience.    *)
(***************************************************************************)
WriterRunning ==
    /\ pc = "wait-one" /\ OneWriter(cur)
    /\ Goto("mkdir")
    /\ UNCHANGED <<dataVars, dep, pods, backupVars, helmVars, cur, loaded,
                   faults>>

WriterStopped ==
    /\ pc = "wait-zero" /\ NoWriter(cur)
    /\ Goto("stage")
    /\ UNCHANGED <<dataVars, dep, pods, backupVars, helmVars, cur, loaded,
                   faults>>

WaitFails ==
    /\ \/ pc = "wait-one" /\ ~OneWriter(cur)
       \/ pc = "wait-zero" /\ ~NoWriter(cur)
    /\ Refuse

(***************************************************************************)
(* backup_database.                                                        *)
(***************************************************************************)
MakeGeneration ==
    /\ pc = "mkdir"
    /\ gens' = [gens EXCEPT ![cur][ops] =
                  [stage |-> "directory", source |-> dep[cur].rel,
                   target |-> target, data |-> NoData]]
    /\ Goto("copy")
    /\ UNCHANGED <<dataVars, dep, pods, pointer, leftover, helmVars, cur,
                   loaded, faults>>

\* Mutant of CopyDatabase: a file copy, which leaves the journal behind.
CopyFileOnly ==
    /\ pc = "copy"
    /\ gens' = [gens EXCEPT ![cur][ops].stage = "copied",
                            ![cur][ops].data = db[cur].main]
    /\ Goto("seal")
    /\ UNCHANGED <<dataVars, dep, pods, pointer, leftover, helmVars, cur,
                   loaded, faults>>

\* Mutant of CopyDatabase: the pointer moves before the manifest is written.
CopyThenPoint ==
    /\ pc = "copy"
    /\ gens' = [gens EXCEPT ![cur][ops].stage = "copied",
                            ![cur][ops].data = Content(db[cur])]
    /\ Goto("pointer-tmp")
    /\ UNCHANGED <<dataVars, dep, pods, pointer, leftover, helmVars, cur,
                   loaded, faults>>

CopyDatabase ==
    /\ pc = "copy"
    /\ gens' = [gens EXCEPT ![cur][ops].stage = "copied",
                            ![cur][ops].data = Content(db[cur])]
    /\ Goto("seal")
    /\ UNCHANGED <<dataVars, dep, pods, pointer, leftover, helmVars, cur,
                   loaded, faults>>

\* The manifest binds the copy, its digest and the two versions.
SealGeneration ==
    /\ pc = "seal"
    /\ gens' = [gens EXCEPT ![cur][ops].stage = "sealed"]
    /\ Goto("pointer-tmp")
    /\ UNCHANGED <<dataVars, dep, pods, pointer, leftover, helmVars, cur,
                   loaded, faults>>

\* atomic_json opens its temporary file exclusively.  Its name ends in the
\* process id, which is the same in every Job container.
OpenTemporary(step, kind, next) ==
    /\ pc = step
    /\ IF kind \in leftover[cur]
       THEN Refuse
       ELSE /\ leftover' = [leftover EXCEPT ![cur] = @ \cup {kind}]
            /\ Goto(next)
            /\ UNCHANGED <<dataVars, dep, pods, gens, pointer, helmVars, cur,
                           loaded, faults>>

OpenPointer == OpenTemporary("pointer-tmp", "pointer", "point")

ReplacePointer ==
    /\ pc = "point"
    /\ pointer' = [pointer EXCEPT ![cur] = ops]
    /\ leftover' = [leftover EXCEPT ![cur] = @ \ {"pointer"}]
    /\ Goto("strategy")
    /\ UNCHANGED <<dataVars, dep, pods, gens, helmVars, cur, loaded, faults>>

\* Mutant of force_recreate_strategy: the live strategy is left alone.
KeepStrategy ==
    /\ pc = "strategy"
    /\ EndJob
    /\ UNCHANGED <<dataVars, dep, pods, backupVars, helmVars, cur, faults>>

force_recreate_strategy ==
    /\ pc = "strategy"
    /\ dep' = [dep EXCEPT ![cur].strategy = "Recreate"]
    /\ EndJob
    /\ UNCHANGED <<dataVars, pods, backupVars, helmVars, cur, faults>>

(***************************************************************************)
(* restore_database.                                                       *)
(***************************************************************************)
\* Mutant of Bound: the manifest's source version is not compared.
BoundAnySource(s) ==
    /\ pointer[s] # 0
    /\ LET g == gens[s][pointer[s]]
       IN /\ g.stage = "sealed"
          /\ dep[s].rel \in {g.source, g.target}

\* load_backup and the live release: may this generation be restored?
Bound(s) ==
    /\ pointer[s] # 0
    /\ LET g == gens[s][pointer[s]]
       IN /\ g.stage = "sealed"
          /\ g.source = target
          /\ dep[s].rel \in {g.source, g.target}

LoadBackup ==
    /\ pc = "load"
    /\ IF Bound(cur)
       THEN /\ loaded' = pointer[cur]
            /\ Goto("scale")
            /\ UNCHANGED <<dataVars, dep, pods, backupVars, helmVars, cur,
                           faults>>
       ELSE Refuse

\* Mutant of ScaleToZero: one replica less than there are.
ScaleDown ==
    /\ pc = "scale"
    /\ dep' = [dep EXCEPT ![cur].replicas = @ - 1]
    /\ Goto("wait-zero")
    /\ UNCHANGED <<dataVars, pods, backupVars, helmVars, cur, loaded, faults>>

\* Mutant of ScaleToZero: only wait for a moment without a writer.
ScaleNothing ==
    /\ pc = "scale"
    /\ Goto("wait-zero")
    /\ UNCHANGED <<dataVars, dep, pods, backupVars, helmVars, cur, loaded,
                   faults>>

ScaleToZero ==
    /\ pc = "scale"
    /\ dep' = [dep EXCEPT ![cur].replicas = 0]
    /\ Goto("wait-zero")
    /\ UNCHANGED <<dataVars, pods, backupVars, helmVars, cur, loaded, faults>>

StageRestore == OpenTemporary("stage", "restore", "unlink")

\* Whoever is still there keeps a journal that has no name any more.
LeftBehind(some) == {[p EXCEPT !.inode = 0, !.left = TRUE] : p \in some}

\* Mutant of UnlinkSidecars: the candidate's journal stays.
KeepSidecars ==
    /\ pc = "unlink"
    /\ pods' = [pods EXCEPT ![cur] = LeftBehind(@)]
    /\ Goto("replace")
    /\ UNCHANGED <<dataVars, dep, backupVars, helmVars, cur, loaded, faults>>

UnlinkSidecars ==
    /\ pc = "unlink"
    /\ db' = [db EXCEPT ![cur].wal = NoData]
    /\ pods' = [pods EXCEPT ![cur] = LeftBehind(@)]
    /\ Goto("replace")
    /\ UNCHANGED <<committed, dep, backupVars, helmVars, cur, loaded, faults>>

ReplaceDatabase ==
    /\ pc = "replace"
    /\ LET backup == gens[cur][loaded].data
       IN /\ db' = [db EXCEPT ![cur].inode = @ + 1, ![cur].main = backup]
          /\ committed' = [committed EXCEPT ![cur] = backup]
    /\ leftover' = [leftover EXCEPT ![cur] = @ \ {"restore"}]
    /\ Goto("receipt-tmp")
    /\ UNCHANGED <<dep, pods, gens, pointer, helmVars, cur, loaded, faults>>

\* The digest of the file is compared once more; not what its journal says.
OpenReceipt ==
    /\ pc = "receipt-tmp"
    /\ IF db[cur].main = gens[cur][loaded].data
       THEN OpenTemporary("receipt-tmp", "receipt", "receipt")
       ELSE Refuse

ReplaceReceipt ==
    /\ pc = "receipt"
    /\ leftover' = [leftover EXCEPT ![cur] = @ \ {"receipt"}]
    /\ EndJob
    /\ UNCHANGED <<dataVars, dep, pods, gens, pointer, helmVars, cur, faults>>

(***************************************************************************)
(* External: the Deployment controllers and the services.                  *)
(***************************************************************************)
Unwanted(s, p) == p.tpl # dep[s].tpl \/ dep[s].replicas = 0

\* Recreate waits until every pod of another template is gone; a replacement
\* of the same template only until the old pod is on its way out.
StartPod(s) ==
    /\ dep[s].replicas = 1
    /\ \A p \in application_pods(s) : p.tpl # dep[s].tpl
    /\ dep[s].strategy = "Recreate" => \A p \in pods[s] : p.tpl = dep[s].tpl
    /\ pods' = [pods EXCEPT ![s] = @ \cup
                  {[tpl |-> dep[s].tpl, rel |-> dep[s].rel, inode |-> 0,
                    ready |-> FALSE, draining |-> FALSE, left |-> FALSE]}]
    /\ UNCHANGED <<dataVars, dep, backupVars, helmVars, todo, cur, pc, loaded,
                   faults>>

Drain(s, p) == pods' = [pods EXCEPT ![s] =
                          (@ \ {p}) \cup {[p EXCEPT !.draining = TRUE]}]

\* RollingUpdate keeps the old pod until the new one is ready.
StopPod(s, p) ==
    /\ p \in application_pods(s) /\ Unwanted(s, p)
    /\ \/ dep[s].strategy = "Recreate" \/ dep[s].replicas = 0
       \/ \E q \in application_pods(s) : q.tpl = dep[s].tpl /\ q.ready
    /\ Drain(s, p)
    /\ UNCHANGED <<dataVars, dep, backupVars, helmVars, todo, cur, pc, loaded,
                   faults>>

EvictPod(s, p) ==
    /\ p \in application_pods(s) /\ Fault
    /\ Drain(s, p)
    /\ UNCHANGED <<dataVars, dep, backupVars, helmVars, todo, cur, pc, loaded>>

ExitPod(s, p) ==
    /\ p \in pods[s] /\ p.draining
    /\ pods' = [pods EXCEPT ![s] = @ \ {p}]
    /\ UNCHANGED <<dataVars, dep, backupVars, helmVars, todo, cur, pc, loaded,
                   faults>>

Commit(s, data) ==
    /\ db' = [db EXCEPT ![s].wal = data, ![s].of = db[s].inode]
    /\ committed' = [committed EXCEPT ![s] = data]

\* The service opens its database and migrates what an older release left,
\* also in a pod that is on its way out.
OpenDatabase(s, p) ==
    /\ p \in pods[s] /\ p.inode # db[s].inode
    /\ p.left => LateOpens
    /\ pods' = [pods EXCEPT ![s] = (@ \ {p}) \cup
                  {[p EXCEPT !.ready = TRUE, !.inode = db[s].inode]}]
    /\ IF Content(db[s]).rel < p.rel
       THEN Commit(s, [Content(db[s]) EXCEPT !.rel = p.rel])
       ELSE UNCHANGED dataVars
    /\ UNCHANGED <<dep, backupVars, helmVars, todo, cur, pc, loaded, faults>>

Connected(s, p) == p \in pods[s] /\ p.ready /\ p.inode = db[s].inode

Write(s, p) ==
    /\ Connected(s, p) /\ Content(db[s]).commits < MaxCommits
    /\ Commit(s, [Content(db[s]) EXCEPT !.commits = @ + 1])
    /\ UNCHANGED <<dep, pods, backupVars, helmVars, todo, cur, pc, loaded,
                   faults>>

Checkpoint(s, p) ==
    /\ Connected(s, p) /\ db[s].wal # NoData
    /\ db' = [db EXCEPT ![s].main = db[s].wal, ![s].wal = NoData]
    /\ UNCHANGED <<committed, dep, pods, backupVars, helmVars, todo, cur, pc,
                   loaded, faults>>

(***************************************************************************)
(* Specification.                                                          *)
(***************************************************************************)
Helm ==
    \/ \E s \in Services : StartJob(s) \/ TlsRollout(s) \/ ApplyDeployment(s)
    \/ HooksDone \/ TlsDone \/ Applied

Job ==
    \/ WriterRunning \/ WriterStopped \/ WaitFails
    \/ MakeGeneration \/ CopyDatabase \/ SealGeneration
    \/ OpenPointer \/ ReplacePointer \/ force_recreate_strategy
    \/ LoadBackup \/ ScaleToZero \/ StageRestore \/ UnlinkSidecars
    \/ ReplaceDatabase \/ OpenReceipt \/ ReplaceReceipt

Failure == HelmFails \/ JobErrors \/ JobKilled

Controller(s) ==
    \/ StartPod(s)
    \/ \E p \in pods[s] : StopPod(s, p) \/ ExitPod(s, p) \/ OpenDatabase(s, p)

Application(s) ==
    \E p \in pods[s] : EvictPod(s, p) \/ Write(s, p) \/ Checkpoint(s, p)

Next ==
    \/ \E release \in Releases : Upgrade(release) \/ Rollback(release)
    \/ Helm \/ Job \/ Failure
    \/ \E s \in Services : Controller(s) \/ Application(s)

Spec == Init /\ [][Next]_vars

\* Helm and a running Job go on, and Kubernetes reconciles every Deployment.
FairSpec == /\ Spec
            /\ WF_vars(Helm \/ Job)
            /\ \A s \in Services : WF_vars(Controller(s))

(***************************************************************************)
(* Properties.                                                             *)
(***************************************************************************)
\* Whatever was interrupted, and whoever was left behind, current.json names a
\* generation with a manifest and a copy, bound to an upgrade in its direction.
PointerVerified ==
    \A s \in Services : pointer[s] # 0 =>
        LET g == gens[s][pointer[s]]
        IN g.stage = "sealed" /\ 0 < g.data.rel /\ g.source <= g.target

\* No service ever runs on a database that a later release has migrated.
NoDowngrade ==
    \A s \in Services : \A p \in pods[s] :
        Connected(s, p) => Content(db[s]).rel <= p.rel

\* A journal is never read with a database file it does not belong to.
CleanJournal == \A s \in Services : db[s].wal # NoData => db[s].of = db[s].inode

\* What a running service reads is what was last committed, or what the last
\* rollback restored: a killed Job never loses commits to a service that runs.
ReadsCommitted ==
    \A s \in Services :
        (\E p \in pods[s] : Connected(s, p)) => Content(db[s]) = committed[s]

\* When an upgrade replaces a Deployment, a sealed backup of this operation is
\* in place: of the release it replaces, with every commit from before it began.
UpgradeProtected ==
    pc = "apply" /\ op = "upgrade" =>
        \A s \in todo :
            LET g == gens[s][ops]
            IN /\ pointer[s] = ops /\ g.stage = "sealed"
               /\ g.source = dep[s].rel /\ g.target = target
               /\ g.data.rel >= floor[s].rel
               /\ g.data.commits >= floor[s].commits

\* When a rollback brings the source Deployments back, every service stands
\* still on exactly its backup, taken under the release being brought back.
RestoredExactly ==
    pc = "apply" /\ op = "rollback" =>
        \A s \in todo :
            /\ dep[s].replicas = 0 /\ NoWriter(s)
            /\ pointer[s] # 0 /\ gens[s][pointer[s]].source = target
            /\ Content(db[s]) = gens[s][pointer[s]].data

\* Hooks, the TLS rollout and the upgrade never give a service two pods that
\* are not on their way out, also on a cluster whose chart still surged.
SingleWriter == \A s \in Services : Cardinality(application_pods(s)) <= 1

\* A rollback that Helm completes ends with a ready writer of the release.
RollbackServes ==
    \A s \in Services :
        pc = "apply" /\ op = "rollback" /\ todo = {}
          ~> \/ \E p \in application_pods(s) : p.ready /\ p.rel = dep[s].rel
             \/ pc \notin {"idle", "apply"}

\* A verified backup, bound to this rollback and with its writer stopped, can
\* be restored whatever happened to an earlier attempt.
RestoreUnobstructed == pc = "stage" => "restore" \notin leftover[cur]

(***************************************************************************)
(* The abstract store.                                                     *)
(***************************************************************************)
BackupOf(s, n) == [data |-> gens[s][n].data, source |-> gens[s][n].source]

Deployed == [s \in Services |-> dep[s].rel]

\* The generation that current.json names, and the one that it may name next.
Saved == [s \in Services |->
            IF pointer[s] = 0 THEN {} ELSE {BackupOf(s, pointer[s])}]
Copied == [s \in Services |->
             IF s = cur /\ pc \in {"seal", "pointer-tmp", "point"}
             THEN {BackupOf(s, ops)} ELSE {}]

\* What the connected pods of a service read.
Views == [s \in Services |->
            {[by |-> p.rel, data |-> Content(db[s])] :
               p \in {q \in pods[s] : Connected(s, q)}}]

Store == INSTANCE StatefulStore
           WITH data <- committed, release <- Deployed,
                copied <- Copied, saved <- Saved, read <- Views

\* Jobs, Helm, controllers and services, with every kill and failing call,
\* are a store that keeps what it told its clients, publishes only whole
\* backups, goes back to the published one only while nobody reads, and
\* replaces a release only over its backup.
ImplementsStore == Store!Spec
================================================================================

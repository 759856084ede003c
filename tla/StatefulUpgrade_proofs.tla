------------------------- MODULE StatefulUpgrade_proofs -------------------------
(***************************************************************************)
(* Proofs about the SQLite upgrade transaction, for any number of          *)
(* services, releases, Helm operations, commits and faults.  Whoever opens *)
(* the database when:                                                      *)
(*   TypeCorrect        every variable keeps its type;                     *)
(*   BackupsVerified    current.json always names a sealed copy, bound in  *)
(*                      the direction of an upgrade;                       *)
(*   WritersAlone       no two pods that are not terminating have one      *)
(*                      database.                                          *)
(* Under ~LateOpens (no pod that a restore left behind opens the database  *)
(* by name again; without it the run StatefulLateOpen refutes the second): *)
(*   BackupsBound       no backup is of a later release than its manifest  *)
(*                      binds it to;                                       *)
(*   RollbacksExact     a rollback brings a source Deployment back only on *)
(*                      exactly its backup, and no pod left that is not    *)
(*                      terminating;                                       *)
(*   JournalsClean      no journal lies beside a file it does not belong   *)
(*                      to;                                                *)
(*   NeverDowngraded    no service is connected to a database a later      *)
(*                      release has migrated;                              *)
(*   CommitsRead        a running service reads what was committed;        *)
(*   UpgradesProtected  an upgrade replaces a Deployment only over a       *)
(*                      backup with every commit from before it began;     *)
(*   TransactionIsStore the transaction implements StatefulStore.          *)
(***************************************************************************)
EXTENDS StatefulUpgrade, FiniteSetTheorems, TLAPS

(***************************************************************************)
(* Type correctness.                                                       *)
(***************************************************************************)
\* A Job runs only inside a Helm operation, and restores what it has loaded.
Counted ==
    /\ pc # "idle" => ops \in Operations
    /\ pc \in RestoreSteps \ {"load"} => loaded \in Operations

Typed == TypeOK /\ Counted

LEMMA InitTyped == Init => Typed
  BY UpgradeAssumption
  DEF Init, Typed, TypeOK, Counted, FirstPod, FirstData, File, Data, Deployment,
      Pod, Generation, NoGeneration, Stages, NoData, Operations, Steps,
      JobSteps, BackupSteps, RestoreSteps

\* Helm's own steps keep every variable in its type.
LEMMA HelmTyped ==
  ASSUME Typed,
         \/ \E release \in Releases : Upgrade(release) \/ Rollback(release)
         \/ Helm \/ HelmFails
  PROVE  Typed'
<1> USE UpgradeAssumption DEF Typed, Counted, Operations, Steps, JobSteps,
        BackupSteps, RestoreSteps
<1>1. ASSUME NEW release \in Releases, Upgrade(release) \/ Rollback(release)
      PROVE  Typed'
<2>1. PICK kind \in {"upgrade", "rollback"} : Begin(kind, release)
  BY <1>1 DEF Upgrade, Rollback
<2> QED  BY <2>1 DEF TypeOK, Begin, dataVars, backupVars, Steps
<1>2. ASSUME NEW s \in Services, StartJob(s)
      PROVE  Typed'
  BY <1>2 DEF TypeOK, StartJob, dataVars, backupVars, helmVars, Steps,
              JobSteps, BackupSteps, RestoreSteps
<1>3. CASE HooksDone
  BY <1>3 DEF TypeOK, HooksDone, dataVars, backupVars, helmVars, Steps
<1>4. ASSUME NEW s \in Services, TlsRollout(s)
      PROVE  Typed'
<2>0. dep[s] \in Deployment
  BY DEF TypeOK
<2>1. [dep[s] EXCEPT !.tpl = dep[s].tpl + 1] \in Deployment
  BY ONLY <2>0 DEF Deployment
<2>2. dep' = [dep EXCEPT ![s] = [dep[s] EXCEPT !.tpl = dep[s].tpl + 1]]
  BY <1>4 DEF TlsRollout
<2>3. dep' \in [Services -> Deployment]
  BY <2>1, <2>2 DEF TypeOK
<2> QED  BY <1>4, <2>3 DEF TypeOK, TlsRollout, dataVars, backupVars, helmVars
<1>5. CASE TlsDone
  BY <1>5 DEF TypeOK, TlsDone, dataVars, backupVars, helmVars, Steps
<1>6. ASSUME NEW s \in Services, ApplyDeployment(s)
      PROVE  Typed'
  BY <1>6 DEF TypeOK, ApplyDeployment, dataVars, backupVars, Deployment
<1>7. CASE Applied
  BY <1>7 DEF TypeOK, Applied, dataVars, backupVars, Steps
<1>8. CASE HelmFails
  BY <1>8 DEF TypeOK, HelmFails, Abort, Fault, dataVars, backupVars, Steps
<1> QED  BY <1>1, <1>2, <1>3, <1>4, <1>5, <1>6, <1>7, <1>8 DEF Helm

\* So do the steps of a backup Job.
LEMMA BackupTyped ==
  ASSUME Typed,
         \/ WriterRunning \/ WriterStopped \/ WaitFails
         \/ MakeGeneration \/ CopyDatabase \/ SealGeneration
         \/ OpenPointer \/ ReplacePointer \/ force_recreate_strategy
         \/ JobErrors \/ JobKilled
  PROVE  Typed'
<1> USE DEF Typed, Counted, Operations, dataVars, backupVars, helmVars, Steps,
            JobSteps, BackupSteps, RestoreSteps, Goto, EndJob, Abort, Refuse
<1>1. CASE WriterRunning \/ WriterStopped \/ WaitFails
  BY <1>1 DEF TypeOK, WriterRunning, WriterStopped, WaitFails
<1>2. CASE MakeGeneration
<2>1. dep[cur].rel \in Nat /\ target \in Nat
  BY UpgradeAssumption DEF TypeOK, Deployment
<2>2. NoData \in Data
  BY DEF NoData, Data
<2>3. gens' \in [Services -> [Operations -> Generation]]
  BY <1>2, <2>1, <2>2 DEF TypeOK, MakeGeneration, Generation, Stages
<2> QED  BY <1>2, <2>3 DEF TypeOK, MakeGeneration
<1>3. CASE CopyDatabase
<2>1. Content(db[cur]) \in Data
  BY DEF TypeOK, Content, File
<2>2. ops \in Operations /\ gens[cur] \in [Operations -> Generation]
  BY <1>3 DEF TypeOK, CopyDatabase
<2> DEFINE g == [gens[cur][ops] EXCEPT !.stage = "copied",
                                       !.data = Content(db[cur])]
<2>3. g \in Generation
  BY <2>1, <2>2 DEF Generation, Stages
<2>4. gens' = [gens EXCEPT ![cur][ops] = g]
  BY <1>3, <2>2 DEF TypeOK, CopyDatabase
<2>5. gens' \in [Services -> [Operations -> Generation]]
  BY <2>2, <2>3, <2>4 DEF TypeOK
<2> QED  BY <1>3, <2>5 DEF TypeOK, CopyDatabase
<1>4. CASE SealGeneration
<2>1. ops \in Operations /\ gens[cur] \in [Operations -> Generation]
  BY <1>4 DEF TypeOK, SealGeneration
<2>2. [gens[cur][ops] EXCEPT !.stage = "sealed"] \in Generation
  BY <2>1 DEF Generation, Stages
<2>3. gens' \in [Services -> [Operations -> Generation]]
  BY <1>4, <2>1, <2>2 DEF TypeOK, SealGeneration
<2> QED  BY <1>4, <2>3 DEF TypeOK, SealGeneration
<1>5. CASE OpenPointer
  BY <1>5 DEF TypeOK, OpenPointer, OpenTemporary, Temporaries
<1>6. CASE ReplacePointer
  BY <1>6 DEF TypeOK, ReplacePointer, Temporaries
<1>7. CASE force_recreate_strategy
  BY <1>7 DEF TypeOK, force_recreate_strategy, Deployment
<1>8. CASE JobErrors
  BY <1>8 DEF TypeOK, JobErrors, Fault, Temporaries
<1>9. CASE JobKilled
  BY <1>9 DEF TypeOK, JobKilled, Fault
<1> QED  BY <1>1, <1>2, <1>3, <1>4, <1>5, <1>6, <1>7, <1>8, <1>9

\* And those of a restore Job.
LEMMA RestoreTyped ==
  ASSUME Typed,
         \/ LoadBackup \/ ScaleToZero \/ StageRestore \/ UnlinkSidecars
         \/ ReplaceDatabase \/ OpenReceipt \/ ReplaceReceipt
  PROVE  Typed'
<1> USE DEF Typed, Counted, Operations, dataVars, backupVars, helmVars, Steps,
            JobSteps, BackupSteps, RestoreSteps, Goto, EndJob, Abort, Refuse
<1>1. CASE LoadBackup
  BY <1>1 DEF TypeOK, LoadBackup, Bound
<1>2. CASE ScaleToZero
  BY <1>2 DEF TypeOK, ScaleToZero, Deployment
<1>3. CASE StageRestore
  BY <1>3 DEF TypeOK, StageRestore, OpenTemporary, Temporaries
<1>4. CASE UnlinkSidecars
<2>0. db[cur] \in File
  BY DEF TypeOK
<2>1. [db[cur] EXCEPT !.wal = NoData] \in File
  BY ONLY <2>0 DEF File, Data, NoData
<2>2. db' \in [Services -> File]
  BY <1>4, <2>1 DEF TypeOK, UnlinkSidecars
<2>3. LeftBehind(pods[cur]) \in SUBSET Pod
  <3>1. ASSUME NEW p \in Pod
        PROVE  [p EXCEPT !.inode = 0, !.left = TRUE] \in Pod
    BY DEF Pod
  <3> QED  BY <3>1 DEF TypeOK, LeftBehind
<2>4. pods' \in [Services -> SUBSET Pod]
  BY <1>4, <2>3 DEF TypeOK, UnlinkSidecars
<2> QED  BY <1>4, <2>2, <2>4 DEF TypeOK, UnlinkSidecars
<1>5. CASE ReplaceDatabase
<2> DEFINE backup == gens[cur][loaded].data
<2>1. loaded \in Operations
  BY <1>5 DEF ReplaceDatabase
<2>2. backup \in Data
  BY <2>1 DEF TypeOK, Generation
<2>0. db[cur] \in File /\ db[cur].inode + 1 \in Nat
  BY DEF TypeOK, File
<2>3. [db[cur] EXCEPT !.inode = db[cur].inode + 1, !.main = backup] \in File
  BY <2>0, <2>2 DEF File
<2>4. db' \in [Services -> File] /\ committed' \in [Services -> Data]
  BY <1>5, <2>2, <2>3 DEF TypeOK, ReplaceDatabase
<2>5. leftover' \in [Services -> SUBSET Temporaries]
  BY <1>5 DEF TypeOK, ReplaceDatabase
<2> QED  BY <1>5, <2>4, <2>5 DEF TypeOK, ReplaceDatabase
<1>6. CASE OpenReceipt
<2>1. leftover' \in [Services -> SUBSET Temporaries]
  BY <1>6 DEF TypeOK, OpenReceipt, OpenTemporary, Temporaries, Refuse
<2> QED  BY <1>6, <2>1 DEF TypeOK, OpenReceipt, OpenTemporary
<1>7. CASE ReplaceReceipt
  BY <1>7 DEF TypeOK, ReplaceReceipt, Temporaries
<1> QED  BY <1>1, <1>2, <1>3, <1>4, <1>5, <1>6, <1>7

\* A commit leaves well-typed data behind.
LEMMA CommitTyped ==
  ASSUME TypeOK, NEW s \in Services, NEW data \in Data, Commit(s, data)
  PROVE  db' \in [Services -> File] /\ committed' \in [Services -> Data]
<1>1. [db[s] EXCEPT !.wal = data, !.of = db[s].inode] \in File
  BY DEF TypeOK, File
<1> QED  BY <1>1 DEF TypeOK, Commit

\* And those of the Deployment controllers and of the services.
LEMMA ClusterTyped ==
  ASSUME Typed, NEW s \in Services, Controller(s) \/ Application(s)
  PROVE  Typed'
<1> USE DEF Typed, Counted, dataVars, backupVars, helmVars
<1>1. CASE StartPod(s)
<2>1. [tpl |-> dep[s].tpl, rel |-> dep[s].rel, inode |-> 0,
        ready |-> FALSE, draining |-> FALSE, left |-> FALSE] \in Pod
  BY DEF TypeOK, Deployment, Pod
<2>2. pods' \in [Services -> SUBSET Pod]
  BY <1>1, <2>1 DEF TypeOK, StartPod
<2> QED  BY <1>1, <2>2 DEF TypeOK, StartPod
<1>2. ASSUME NEW p \in pods[s], StopPod(s, p) \/ ExitPod(s, p) \/ EvictPod(s, p)
      PROVE  Typed'
<2>0. p \in Pod
  BY DEF TypeOK
<2>1. [p EXCEPT !.draining = TRUE] \in Pod
  BY ONLY <2>0 DEF Pod
<2>2. PICK some \in SUBSET Pod : pods' = [pods EXCEPT ![s] = some]
  <3>1. /\ pods[s] \ {p} \in SUBSET Pod
        /\ (pods[s] \ {p}) \cup {[p EXCEPT !.draining = TRUE]} \in SUBSET Pod
    BY <2>1 DEF TypeOK
  <3> QED  BY <1>2, <3>1 DEF StopPod, ExitPod, EvictPod, Drain
<2>3. pods' \in [Services -> SUBSET Pod]
  BY <2>2 DEF TypeOK
<2> QED  BY <1>2, <2>3 DEF TypeOK, StopPod, ExitPod, EvictPod, Fault
<1>3. ASSUME NEW p \in pods[s], OpenDatabase(s, p)
      PROVE  Typed'
<2>1. /\ Content(db[s]) \in Data /\ p \in Pod
      /\ db[s].inode \in Nat
  BY DEF TypeOK, Content, File
<2>2. [Content(db[s]) EXCEPT !.rel = p.rel] \in Data
  BY <2>1 DEF Data, Pod
<2>3. db' \in [Services -> File] /\ committed' \in [Services -> Data]
  BY <1>3, <2>2, CommitTyped DEF TypeOK, OpenDatabase
<2>4. [p EXCEPT !.ready = TRUE, !.inode = db[s].inode] \in Pod
  BY <2>1 DEF Pod
<2>5. pods' \in [Services -> SUBSET Pod]
  BY <1>3, <2>4 DEF TypeOK, OpenDatabase
<2> QED  BY <1>3, <2>3, <2>5 DEF TypeOK, OpenDatabase
<1>4. ASSUME NEW p \in pods[s], Write(s, p)
      PROVE  Typed'
<2>1. Content(db[s]) \in Data
  BY DEF TypeOK, Content, File
<2>2. [Content(db[s]) EXCEPT !.commits = Content(db[s]).commits + 1] \in Data
  BY <2>1 DEF Data
<2>3. db' \in [Services -> File] /\ committed' \in [Services -> Data]
  BY <1>4, <2>2, CommitTyped DEF TypeOK, Write
<2> QED  BY <1>4, <2>3 DEF TypeOK, Write
<1>5. ASSUME NEW p \in pods[s], Checkpoint(s, p)
      PROVE  Typed'
<2>0. db[s] \in File
  BY DEF TypeOK
<2>1. [db[s] EXCEPT !.main = db[s].wal, !.wal = NoData] \in File
  BY ONLY <2>0 DEF File, NoData, Data
<2>2. db' \in [Services -> File]
  BY <1>5, <2>1 DEF TypeOK, Checkpoint
<2> QED  BY <1>5, <2>2 DEF TypeOK, Checkpoint
<1> QED  BY <1>1, <1>2, <1>3, <1>4, <1>5 DEF Controller, Application

LEMMA NextTyped == Typed /\ [Next]_vars => Typed'
<1> SUFFICES ASSUME Typed, [Next]_vars
             PROVE  Typed'
  OBVIOUS
<1>1. CASE UNCHANGED vars
  BY <1>1 DEF Typed, TypeOK, Counted, vars, dataVars, backupVars, helmVars
<1>2. CASE Next
  BY <1>2, HelmTyped, BackupTyped, RestoreTyped, ClusterTyped
  DEF Next, Job, Failure
<1> QED  BY <1>1, <1>2

\* Every reachable state of the transaction is well typed: releases, journals,
\* pods, generations and pointers, and a Job only inside a Helm operation.
THEOREM TypeCorrect == Spec => []TypeOK
<1>1. Typed => TypeOK
  BY DEF Typed
<1> QED  BY InitTyped, NextTyped, <1>1, PTL DEF Spec

(***************************************************************************)
(* The inductive invariant.                                                *)
(*                                                                         *)
(* PointerVerified is not inductive: that a copy is not of a later release *)
(* than its manifest says depends on no database ever being ahead of its   *)
(* Deployment, and that a restore or a rollback keeps it so depends on     *)
(* what the Job has checked and stopped by then.                           *)
(***************************************************************************)
InHooks == pc \in {"hooks"} \cup JobSteps

\* Which steps belong to which Helm operation, and to which service.
OperationInv ==
    /\ pc # "idle" => op # "none"
    /\ pc \in JobSteps => cur \in todo
    /\ pc \in BackupSteps \cup {"tls"} => op = "upgrade"
    /\ pc \in RestoreSteps => op = "rollback"
    /\ op = "upgrade" => \A s \in Services : dep[s].rel <= target

\* A generation that may be pointed to.
Verified(g) ==
    /\ g.stage = "sealed" /\ 0 < g.data.rel /\ g.source <= g.target
    /\ ~LateOpens => g.data.rel <= g.source

\* Pointers name verified generations, and none names the one being made.
PointerInv ==
    \A s \in Services :
        /\ pointer[s] <= ops
        /\ pointer[s] # 0 => Verified(gens[s][pointer[s]])
        /\ InHooks /\ s \in todo /\ ~(pc = "strategy" /\ s = cur)
             => pointer[s] < ops

\* The generation being made, step by step.
BackupInv ==
    LET g == gens[cur][ops]
    IN /\ pc \in {"copy", "seal"}
            => g.source = dep[cur].rel /\ g.source <= g.target
       /\ pc = "seal" => /\ 0 < g.data.rel
                         /\ ~LateOpens => g.data.rel <= g.source
       /\ pc \in {"pointer-tmp", "point"} => Verified(g)

\* Every database, with its journal, has been migrated, and who is left behind
\* by a restore is on the way out.
Migrated(s) ==
    /\ db[s].inode > 0 /\ 0 < db[s].main.rel
    /\ db[s].wal # NoData => 0 < db[s].wal.rel
    /\ \A p \in pods[s] : p.left => p.draining

\* No database, journal or pod is ahead of its Deployment, and no pod that was
\* left behind is connected.
NotAhead(s) ==
    /\ db[s].main.rel <= dep[s].rel
    /\ db[s].wal # NoData => db[s].wal.rel <= dep[s].rel
    /\ \A p \in pods[s] : IF p.left THEN p.inode = 0 ELSE p.rel <= dep[s].rel

\* Every pod that is still there was left behind, and none will follow.
Detached(s) == dep[s].replicas = 0 /\ \A p \in pods[s] : p.left

\* What the restore has loaded, stopped and unlinked so far.
RestoreInv ==
    /\ pc \in RestoreSteps \ {"load"}
         => /\ pointer[cur] # 0 /\ loaded = pointer[cur]
            /\ gens[cur][loaded].source = target /\ target <= dep[cur].rel
    /\ pc \in {"wait-zero", "stage", "unlink"} => dep[cur].replicas = 0
    /\ pc \in {"stage", "unlink"} => NoWriter(cur)
    /\ pc = "replace" => Detached(cur) /\ (~LateOpens => db[cur].wal = NoData)

Restored(s) ==
    /\ Detached(s)
    /\ pointer[s] # 0 /\ gens[s][pointer[s]].source = target
    /\ db[s].main = gens[s][pointer[s]].data /\ db[s].wal = NoData

\* The services a rollback has restored and not yet brought back.
IsRestored(s) ==
    \/ InHooks /\ s \notin todo
    \/ pc \in {"receipt-tmp", "receipt"} /\ s = cur
    \/ pc = "apply" /\ s \in todo

RollbackInv ==
    op = "rollback" => \A s \in Services : IsRestored(s) => Restored(s)

IInv == /\ Typed /\ OperationInv /\ PointerInv /\ BackupInv /\ RestoreInv
        /\ \A s \in Services : Migrated(s)
        /\ ~LateOpens => RollbackInv /\ \A s \in Services : NotAhead(s)

LEMMA InitIInv == Init => IInv
<1> SUFFICES ASSUME Init
             PROVE  IInv
  OBVIOUS
<1>1. Typed
  BY InitTyped
<1>2. OperationInv /\ RestoreInv /\ RollbackInv /\ BackupInv
  BY DEF Init, OperationInv, RestoreInv, RollbackInv, BackupInv, JobSteps,
         BackupSteps, RestoreSteps
<1>3. PointerInv
  BY DEF Init, PointerInv, InHooks, JobSteps, BackupSteps, RestoreSteps
<1>4. ASSUME NEW s \in Services
      PROVE  Migrated(s) /\ NotAhead(s)
  BY UpgradeAssumption DEF Init, Migrated, NotAhead, FirstData, FirstPod, NoData
<1> QED  BY <1>1, <1>2, <1>3, <1>4 DEF IInv

\* A Job changes the strategy or the replica count of a Deployment, no more.
LEMMA JobKeepsRelease ==
  ASSUME Typed, Job
  PROVE  \A s \in Services : dep'[s].rel = dep[s].rel
<1>1. CASE force_recreate_strategy
  BY <1>1 DEF force_recreate_strategy, Typed, TypeOK, Deployment
<1>2. CASE ScaleToZero
  BY <1>2 DEF ScaleToZero, Typed, TypeOK, Deployment
<1>3. CASE UNCHANGED dep
  BY <1>3
<1> QED  BY <1>1, <1>2, <1>3
         DEF Job, WriterRunning, WriterStopped, WaitFails, Refuse,
         MakeGeneration, CopyDatabase, SealGeneration, OpenPointer,
         OpenTemporary, ReplacePointer, LoadBackup, StageRestore,
         UnlinkSidecars, ReplaceDatabase, OpenReceipt, ReplaceReceipt

(***************************************************************************)
(* What a step touches of one service.                                     *)
(***************************************************************************)
\* Two steps of a restore write the database; all else is the service's own.
LEMMA FilesTouched ==
  ASSUME Typed, Next, NEW s \in Services
  PROVE  \/ UNCHANGED <<db[s], committed[s], pods[s]>>
         \/ s = cur /\ (UnlinkSidecars \/ ReplaceDatabase)
         \/ UNCHANGED dep /\ (Controller(s) \/ Application(s))
<1>0. /\ db \in [Services -> File] /\ committed \in [Services -> Data]
      /\ pods \in [Services -> SUBSET Pod]
  BY DEF Typed, TypeOK
<1>1. CASE UNCHANGED <<db, committed, pods>>
  BY <1>1
<1>2. ASSUME NEW v \in Services, Controller(v) \/ Application(v)
      PROVE  /\ UNCHANGED dep
             /\ v # s => UNCHANGED <<db[s], committed[s], pods[s]>>
  BY <1>0, <1>2 DEF Controller, Application, StartPod, StopPod, ExitPod,
     EvictPod, Drain, OpenDatabase, Write, Checkpoint, Commit, dataVars
<1>3. CASE UnlinkSidecars \/ ReplaceDatabase
  BY <1>0, <1>3 DEF UnlinkSidecars, ReplaceDatabase
<1> QED  BY <1>1, <1>2, <1>3
         DEF Next, Upgrade, Rollback, Begin, Helm, StartJob, TlsRollout,
         ApplyDeployment, HooksDone, TlsDone, Applied, Failure, HelmFails,
         JobErrors, JobKilled, Job, WriterRunning, WriterStopped, WaitFails,
         Refuse, MakeGeneration, CopyDatabase, SealGeneration, OpenPointer,
         OpenTemporary, ReplacePointer, force_recreate_strategy, LoadBackup,
         ScaleToZero, StageRestore, OpenReceipt, ReplaceReceipt, dataVars

\* Four steps write a Deployment, and each writes no more than it says.
LEMMA DeploymentTouched ==
  ASSUME Typed, Next, NEW s \in Services
  PROVE  \/ dep'[s] = dep[s]
         \/ /\ UNCHANGED <<db, committed, pods>>
            /\ \/ /\ TlsRollout(s)
                  /\ dep'[s] = [dep[s] EXCEPT !.tpl = @ + 1]
               \/ /\ ApplyDeployment(s)
                  /\ dep'[s] = [rel |-> target, tpl |-> dep[s].tpl + 1,
                                replicas |-> 1, strategy |-> "Recreate"]
               \/ /\ s = cur /\ force_recreate_strategy
                  /\ dep'[s] = [dep[s] EXCEPT !.strategy = "Recreate"]
               \/ /\ s = cur /\ ScaleToZero
                  /\ dep'[s] = [dep[s] EXCEPT !.replicas = 0]
<1>0. dep \in [Services -> Deployment]
  BY DEF Typed, TypeOK
<1>1. CASE UNCHANGED dep
  BY <1>1
<1>2. ASSUME NEW v \in Services, TlsRollout(v)
      PROVE  /\ UNCHANGED <<db, committed, pods>>
             /\ dep' = [dep EXCEPT ![v] = [dep[v] EXCEPT !.tpl = @ + 1]]
  BY <1>0, <1>2 DEF TlsRollout, dataVars
<1>3. ASSUME NEW v \in Services, ApplyDeployment(v)
      PROVE  /\ UNCHANGED <<db, committed, pods>>
             /\ dep' = [dep EXCEPT ![v] =
                          [rel |-> target, tpl |-> dep[v].tpl + 1,
                           replicas |-> 1, strategy |-> "Recreate"]]
  BY <1>0, <1>3 DEF ApplyDeployment, dataVars
<1>4. CASE force_recreate_strategy
  BY <1>0, <1>4 DEF force_recreate_strategy, dataVars
<1>5. CASE ScaleToZero
  BY <1>0, <1>5 DEF ScaleToZero, dataVars
<1>6. ASSUME NEW v \in Services, TlsRollout(v) \/ ApplyDeployment(v)
      PROVE  v # s => dep'[s] = dep[s]
  BY <1>0, <1>2, <1>3, <1>6
<1>7. TlsRollout(s) \/ ApplyDeployment(s) =>
        \/ TlsRollout(s) /\ dep'[s] = [dep[s] EXCEPT !.tpl = @ + 1]
        \/ /\ ApplyDeployment(s)
           /\ dep'[s] = [rel |-> target, tpl |-> dep[s].tpl + 1,
                         replicas |-> 1, strategy |-> "Recreate"]
  BY <1>0, <1>2, <1>3
<1>8. ASSUME NEW v \in Services, Controller(v) \/ Application(v)
      PROVE  UNCHANGED dep
  BY <1>8 DEF Controller, Application, StartPod, StopPod, ExitPod, EvictPod,
     OpenDatabase, Write, Checkpoint
<1> QED  BY <1>1, <1>2, <1>3, <1>4, <1>5, <1>6, <1>7, <1>8
         DEF Next, Upgrade, Rollback, Begin, Helm, StartJob, HooksDone, TlsDone,
         Applied, Failure, HelmFails, JobErrors, JobKilled, Job, WriterRunning,
         WriterStopped, WaitFails, Refuse, MakeGeneration, CopyDatabase,
         SealGeneration, OpenPointer, OpenTemporary, ReplacePointer, LoadBackup,
         StageRestore, UnlinkSidecars, ReplaceDatabase, OpenReceipt,
         ReplaceReceipt

(***************************************************************************)
(* Each part of the invariant, step by step.                               *)
(***************************************************************************)
\* The Helm operation, its steps and its services go together.
LEMMA OperationNext ==
  ASSUME IInv, Next
  PROVE  OperationInv'
<1> USE DEF IInv, OperationInv, JobSteps, BackupSteps, RestoreSteps
<1>0. \A s \in Services : dep[s] \in Deployment
  BY DEF Typed, TypeOK
<1>1. ASSUME NEW release \in Releases, Upgrade(release) \/ Rollback(release)
      PROVE  OperationInv'
  BY <1>1, <1>0, UpgradeAssumption
  DEF Upgrade, Rollback, Begin, dataVars, backupVars, Deployment
<1>2. ASSUME NEW s \in Services, StartJob(s)
      PROVE  OperationInv'
  BY <1>2 DEF StartJob, helmVars, Typed, TypeOK, Counted
<1>3. CASE HooksDone \/ TlsDone
  BY <1>3 DEF HooksDone, TlsDone, helmVars
<1>8. CASE Applied \/ Failure
  <2>1. pc' = "idle" /\ op' = "none"
    BY ONLY <1>8 DEF Applied, Failure, HelmFails, JobErrors, JobKilled, Abort
  <2> QED  BY ONLY <2>1 DEF OperationInv, JobSteps, BackupSteps, RestoreSteps
<1>4. ASSUME NEW s \in Services, TlsRollout(s)
      PROVE  OperationInv'
  <2>1. \A v \in Services : dep'[v].rel = dep[v].rel
    BY <1>4 DEF TlsRollout, Typed, TypeOK, Deployment
  <2> QED  BY <1>4, <2>1 DEF TlsRollout, helmVars
<1>5. ASSUME NEW s \in Services, ApplyDeployment(s)
      PROVE  OperationInv'
  <2>1. \A v \in Services : dep'[v].rel = IF v = s THEN target ELSE dep[v].rel
    BY <1>5 DEF ApplyDeployment, Typed, TypeOK, Deployment
  <2> QED  BY <1>5, <2>1, UpgradeAssumption DEF ApplyDeployment, Typed, TypeOK
<1>6. CASE Job
  <2>1. \A v \in Services : dep'[v].rel = dep[v].rel
    BY <1>6, JobKeepsRelease
  <2> QED  BY <1>6, <2>1
           DEF Job, WriterRunning, WriterStopped, WaitFails, Refuse, Abort,
           MakeGeneration, CopyDatabase, SealGeneration, OpenPointer,
           OpenTemporary, ReplacePointer, force_recreate_strategy, LoadBackup,
           ScaleToZero, StageRestore, UnlinkSidecars, ReplaceDatabase,
           OpenReceipt, ReplaceReceipt, Goto, EndJob, helmVars
<1>7. ASSUME NEW s \in Services, Controller(s) \/ Application(s)
      PROVE  OperationInv'
  BY <1>7 DEF Controller, Application, StartPod, StopPod, ExitPod, EvictPod,
     OpenDatabase, Write, Checkpoint, helmVars
<1> QED  BY <1>1, <1>2, <1>3, <1>4, <1>5, <1>6, <1>7, <1>8 DEF Next, Helm

\* Only a backup Job writes generations and pointers, and only the generation
\* of the operation that is under way.
LEMMA GenerationsKept ==
  ASSUME Typed, Next
  PROVE  /\ \/ gens' = gens
            \/ /\ pc \in {"mkdir", "copy", "seal"} /\ UNCHANGED ops
               /\ \E f \in [Operations -> Generation] :
                    /\ gens' = [gens EXCEPT ![cur] = f]
                    /\ \A n \in Operations \ {ops} : f[n] = gens[cur][n]
         /\ pointer' = pointer \/ ReplacePointer
<1>1. ASSUME NEW release \in Releases, Upgrade(release) \/ Rollback(release)
      PROVE  gens' = gens /\ pointer' = pointer
  BY <1>1 DEF Upgrade, Rollback, Begin, backupVars
<1>2. CASE Helm \/ Failure
  BY <1>2 DEF Helm, StartJob, TlsRollout, ApplyDeployment, HooksDone, TlsDone,
     Applied, Failure, HelmFails, JobErrors, JobKilled, backupVars
<1>3. ASSUME NEW s \in Services, Controller(s) \/ Application(s)
      PROVE  gens' = gens /\ pointer' = pointer
  BY <1>3 DEF Controller, Application, StartPod, StopPod, ExitPod, EvictPod,
     OpenDatabase, Write, Checkpoint, backupVars
<1>4. ASSUME MakeGeneration \/ CopyDatabase \/ SealGeneration
      PROVE  /\ pc \in {"mkdir", "copy", "seal"} /\ UNCHANGED <<ops, pointer>>
             /\ \E f \in [Operations -> Generation] :
                  /\ gens' = [gens EXCEPT ![cur] = f]
                  /\ \A n \in Operations \ {ops} : f[n] = gens[cur][n]
  <2>1. pc \in {"mkdir", "copy", "seal"} /\ UNCHANGED <<ops, pointer>>
    BY <1>4 DEF MakeGeneration, CopyDatabase, SealGeneration, helmVars
  <2>2. \E g : gens' = [gens EXCEPT ![cur][ops] = g]
    <3>1. CASE MakeGeneration
      BY <3>1 DEF MakeGeneration
    <3>2. CASE SealGeneration
      BY <3>2 DEF SealGeneration
    <3>3. CASE CopyDatabase
      <4>1. gens[cur] \in [Operations -> Generation] /\ ops \in Operations
        BY <3>3 DEF CopyDatabase, Typed, TypeOK, Counted
      <4>2. gens' = [gens EXCEPT ![cur][ops] =
                       [gens[cur][ops] EXCEPT !.stage = "copied",
                                              !.data = Content(db[cur])]]
        BY <3>3, <4>1 DEF CopyDatabase, Typed, TypeOK
      <4> QED  BY <4>2
    <3> QED  BY <1>4, <3>1, <3>2, <3>3
  <2>3. gens' \in [Services -> [Operations -> Generation]] /\ cur \in Services
    BY <1>4, BackupTyped DEF Typed, TypeOK
  <2>4. gens' = [gens EXCEPT ![cur] = gens'[cur]]
    BY <2>2, <2>3 DEF Typed, TypeOK
  <2>5. \A n \in Operations \ {ops} : gens'[cur][n] = gens[cur][n]
    BY <2>2, <2>3 DEF Typed, TypeOK
  <2> QED  BY <2>1, <2>3, <2>4, <2>5
<1>5. CASE UNCHANGED <<gens, pointer>>
  BY <1>5
<1>6. CASE ReplacePointer
  BY <1>6 DEF ReplacePointer
<1> QED  BY <1>1, <1>2, <1>3, <1>4, <1>5, <1>6
         DEF Next, Job, WriterRunning, WriterStopped, WaitFails, Refuse,
         OpenPointer, OpenTemporary, force_recreate_strategy, LoadBackup,
         ScaleToZero, StageRestore, UnlinkSidecars, ReplaceDatabase,
         OpenReceipt, ReplaceReceipt, backupVars

\* A pointer keeps naming what it named, and what it names keeps verified.
LEMMA PointedKept ==
  ASSUME Typed, OperationInv, PointerInv, Next, NEW s \in Services,
         pointer[s] # 0
  PROVE  gens'[s][pointer[s]] = gens[s][pointer[s]]
<1>1. CASE gens' = gens
  BY <1>1
<1>2. CASE pc \in {"mkdir", "copy", "seal"}
  <2>1. PICK f \in [Operations -> Generation] :
             /\ gens' = gens \/ gens' = [gens EXCEPT ![cur] = f]
             /\ \A n \in Operations \ {ops} : f[n] = gens[cur][n]
    BY GenerationsKept DEF Typed, TypeOK
  <2>2. s = cur => pointer[s] \in Operations \ {ops}
    BY <1>2 DEF OperationInv, PointerInv, InHooks, JobSteps, BackupSteps,
                Typed, TypeOK, Operations
  <2> QED  BY <2>1, <2>2 DEF Typed, TypeOK
<1> QED  BY <1>1, <1>2, GenerationsKept

\* In a hook, the pointers of the services still to do are of older operations.
LEMMA PointerNext ==
  ASSUME IInv, Next
  PROVE  PointerInv'
<1> USE DEF IInv
<1>1. ASSUME NEW s \in Services, pointer'[s] # 0
      PROVE  Verified(gens[s][pointer[s]])'
  <2>1. CASE pointer' = pointer
    BY <1>1, <2>1, PointedKept DEF PointerInv, Verified
  <2>2. CASE ReplacePointer
    BY <1>1, <2>2 DEF ReplacePointer, PointerInv, BackupInv, Verified, helmVars,
       Typed, TypeOK
  <2> QED  BY <2>1, <2>2, GenerationsKept
<1>2. ops' \in Nat /\ ops \in Nat /\ \A s \in Services : pointer[s] \in Nat
  BY UpgradeAssumption, NextTyped DEF Typed, TypeOK, Operations
<1>3. pointer' = pointer \/ ReplacePointer
  BY GenerationsKept
<1> DEFINE Older == \A s \in Services :
                      /\ pointer[s] <= ops
                      /\ InHooks /\ s \in todo /\ ~(pc = "strategy" /\ s = cur)
                           => pointer[s] < ops
<1>4. ASSUME NEW release \in Releases, Upgrade(release) \/ Rollback(release)
      PROVE  Older'
  BY <1>4, <1>2 DEF Upgrade, Rollback, Begin, backupVars, PointerInv
<1>5. ASSUME Helm
      PROVE  Older'
  BY <1>5, <1>2 DEF Helm, StartJob, TlsRollout, ApplyDeployment, HooksDone,
     TlsDone, Applied, backupVars, helmVars, PointerInv, InHooks, JobSteps,
     BackupSteps, RestoreSteps
<1>6. ASSUME Failure
      PROVE  Older'
  BY <1>6, <1>2 DEF Failure, HelmFails, JobErrors, JobKilled, Abort, backupVars,
     PointerInv, InHooks, JobSteps, BackupSteps, RestoreSteps
<1>7. ASSUME ReplacePointer
      PROVE  Older'
  BY <1>7, <1>2 DEF ReplacePointer, Goto, helmVars, PointerInv, OperationInv,
     InHooks, JobSteps, BackupSteps, RestoreSteps, Typed, TypeOK
<1>8. ASSUME Job /\ ~ReplacePointer
      PROVE  Older'
  BY <1>8, <1>2, <1>3 DEF Job, WriterRunning, WriterStopped, WaitFails, Refuse,
     Abort, MakeGeneration, CopyDatabase, SealGeneration, OpenPointer,
     OpenTemporary, force_recreate_strategy, LoadBackup, ScaleToZero,
     StageRestore, UnlinkSidecars, ReplaceDatabase, OpenReceipt,
     ReplaceReceipt, Goto, EndJob, helmVars, PointerInv, OperationInv, InHooks,
     JobSteps, BackupSteps, RestoreSteps
<1>9. ASSUME NEW s \in Services, Controller(s) \/ Application(s)
      PROVE  Older'
  BY <1>9 DEF Controller, Application, StartPod, StopPod, ExitPod, EvictPod,
     OpenDatabase, Write, Checkpoint, helmVars, backupVars, PointerInv, InHooks
<1>10. Older'
  BY <1>4, <1>5, <1>6, <1>7, <1>8, <1>9 DEF Next
<1> QED  BY <1>1, <1>10 DEF PointerInv

\* A generation is bound to the two releases, copied from a database that is
\* not ahead of the first, and sealed before a pointer may name it.
LEMMA BackupNext ==
  ASSUME IInv, Next
  PROVE  BackupInv'
<1> USE DEF IInv, JobSteps, BackupSteps, RestoreSteps
<1>1. ASSUME pc' \notin {"copy", "seal", "pointer-tmp", "point"}
      PROVE  BackupInv'
  BY <1>1 DEF BackupInv
<1>2. /\ cur \in Services /\ dep[cur] \in Deployment /\ db[cur] \in File
      /\ gens \in [Services -> [Operations -> Generation]]
      /\ Migrated(cur) /\ (~LateOpens => NotAhead(cur))
  BY DEF Typed, TypeOK
<1>3. ASSUME MakeGeneration
      PROVE  BackupInv'
  <2>1. /\ gens'[cur][ops].source = dep[cur].rel
        /\ gens'[cur][ops].target = target /\ pc' = "copy"
        /\ UNCHANGED <<cur, ops, dep>>
    BY <1>2, <1>3 DEF MakeGeneration, Goto, helmVars, Typed, Counted
  <2>2. dep[cur].rel <= target
    BY <1>2, <1>3 DEF MakeGeneration, OperationInv
  <2> QED  BY <2>1, <2>2 DEF BackupInv
<1>4. ASSUME CopyDatabase
      PROVE  BackupInv'
  <2>1. /\ gens'[cur][ops].source = gens[cur][ops].source
        /\ gens'[cur][ops].target = gens[cur][ops].target
        /\ gens'[cur][ops].data = Content(db[cur])
        /\ pc' = "seal" /\ UNCHANGED <<cur, ops, dep>>
    BY <1>2, <1>4 DEF CopyDatabase, Goto, helmVars, Typed, Counted, Generation
  <2>2. /\ 0 < Content(db[cur]).rel
        /\ ~LateOpens => Content(db[cur]).rel <= dep[cur].rel
    BY <1>2 DEF Migrated, NotAhead, Content
  <2>3. pc = "copy"
    BY <1>4 DEF CopyDatabase
  <2> QED  BY <2>1, <2>2, <2>3 DEF BackupInv
<1>5. ASSUME SealGeneration
      PROVE  BackupInv'
  <2>1. /\ gens'[cur][ops] = [gens[cur][ops] EXCEPT !.stage = "sealed"]
        /\ pc = "seal" /\ pc' = "pointer-tmp" /\ UNCHANGED <<cur, ops, dep>>
        /\ gens[cur][ops] \in Generation
    BY <1>2, <1>5 DEF SealGeneration, Goto, helmVars, Typed, Counted
  <2>2. /\ gens'[cur][ops].stage = "sealed"
        /\ gens'[cur][ops].source = gens[cur][ops].source
        /\ gens'[cur][ops].target = gens[cur][ops].target
        /\ gens'[cur][ops].data = gens[cur][ops].data
    BY ONLY <2>1 DEF Generation
  <2> QED  BY <2>1, <2>2 DEF BackupInv, Verified
<1>6. CASE OpenPointer
  BY <1>1, <1>6 DEF OpenPointer, OpenTemporary, Refuse, Abort, Goto, helmVars,
     BackupInv, Verified
<1>7. ASSUME NEW s \in Services, Controller(s) \/ Application(s)
      PROVE  BackupInv'
  BY <1>7 DEF Controller, Application, StartPod, StopPod, ExitPod, EvictPod,
     OpenDatabase, Write, Checkpoint, helmVars, backupVars, BackupInv, Verified
<1>8. ASSUME NEW release \in Releases, Upgrade(release) \/ Rollback(release)
      PROVE  BackupInv'
  BY <1>1, <1>8 DEF Upgrade, Rollback, Begin
<1>9. CASE Helm \/ Failure
  BY <1>1, <1>9 DEF Helm, StartJob, TlsRollout, ApplyDeployment, HooksDone,
     TlsDone, Applied, Failure, HelmFails, JobErrors, JobKilled, Abort
<1>10. CASE WriterRunning \/ WriterStopped \/ WaitFails \/ ReplacePointer
            \/ force_recreate_strategy
  BY <1>1, <1>10 DEF WriterRunning, WriterStopped, WaitFails, ReplacePointer,
     force_recreate_strategy, Refuse, Abort, Goto, EndJob
<1>11. CASE LoadBackup \/ ScaleToZero \/ StageRestore \/ UnlinkSidecars
            \/ ReplaceDatabase \/ OpenReceipt \/ ReplaceReceipt
  BY <1>1, <1>11 DEF LoadBackup, ScaleToZero, StageRestore, UnlinkSidecars,
     ReplaceDatabase, OpenReceipt, ReplaceReceipt, OpenTemporary, Refuse, Abort,
     Goto, EndJob
<1> QED  BY <1>3, <1>4, <1>5, <1>6, <1>7, <1>8, <1>9, <1>10, <1>11 DEF Next, Job

\* The restored backup has been migrated, as every database before it was.
LEMMA MigratedNext ==
  ASSUME IInv, Next, NEW s \in Services
  PROVE  Migrated(s)'
<1> USE DEF IInv
<1>0. /\ Migrated(s) /\ cur \in Services /\ pods \in [Services -> SUBSET Pod]
      /\ db \in [Services -> File] /\ db[s] \in File /\ db'[s] \in File
      /\ dep \in [Services -> Deployment]
  BY NextTyped DEF Typed, TypeOK
<1> DEFINE Kept == \A p \in pods'[s] : p.left => p.draining
           Filled == /\ db'[s].inode > 0 /\ 0 < db'[s].main.rel
                     /\ db'[s].wal # NoData => 0 < db'[s].wal.rel
<1>1. CASE db'[s] = db[s] /\ pods'[s] = pods[s]
  BY <1>0, <1>1 DEF Migrated
<1>2. CASE s = cur /\ UnlinkSidecars
  <2>1. pods'[s] = LeftBehind(pods[s]) /\ NoWriter(s)
    BY <1>0, <1>2 DEF UnlinkSidecars, RestoreInv, RestoreSteps
  <2>2. \A p \in pods[s] :
          p.draining /\ [p EXCEPT !.inode = 0, !.left = TRUE].draining = p.draining
    BY <1>0, <2>1 DEF NoWriter, application_pods, Pod
  <2>3. Kept
    BY <2>1, <2>2 DEF LeftBehind
  <2>4. db'[s] = [db[s] EXCEPT !.wal = NoData]
    BY <1>0, <1>2 DEF UnlinkSidecars
  <2>5. /\ db'[s].inode = db[s].inode /\ db'[s].main = db[s].main
        /\ db'[s].wal = NoData
    BY ONLY <1>0, <2>4 DEF File
  <2> QED  BY <1>0, <2>3, <2>5 DEF Migrated
<1>3. CASE s = cur /\ ReplaceDatabase
  <2> DEFINE backup == gens[cur][loaded].data
  <2>1. /\ db'[s] = [db[s] EXCEPT !.inode = db[s].inode + 1, !.main = backup]
        /\ UNCHANGED pods /\ pc = "replace"
    BY <1>0, <1>3 DEF ReplaceDatabase
  <2>2. /\ db'[s].inode = db[s].inode + 1 /\ db'[s].main = backup
        /\ db'[s].wal = db[s].wal /\ db[s].inode \in Nat
    BY ONLY <1>0, <2>1 DEF File
  <2>3. 0 < backup.rel
    BY <1>0, <2>1 DEF RestoreInv, RestoreSteps, PointerInv, Verified
  <2> QED  BY <1>0, <2>1, <2>2, <2>3 DEF Migrated
<1>4. CASE Controller(s) \/ Application(s)
  <2>1. CASE StartPod(s)
    <3>1. /\ UNCHANGED db
          /\ pods'[s] = pods[s] \cup
               {[tpl |-> dep[s].tpl, rel |-> dep[s].rel, inode |-> 0,
                 ready |-> FALSE, draining |-> FALSE, left |-> FALSE]}
      BY <1>0, <2>1 DEF StartPod, dataVars
    <3> QED  BY <1>0, <3>1 DEF Migrated
  <2>2. ASSUME NEW p \in pods[s],
               StopPod(s, p) \/ ExitPod(s, p) \/ EvictPod(s, p)
        PROVE  Migrated(s)'
    <3>1. [p EXCEPT !.draining = TRUE].draining
      BY <1>0 DEF Pod
    <3>2. UNCHANGED db /\ \A q \in pods'[s] : q \in pods[s] \/ q.draining
      BY <1>0, <2>2, <3>1 DEF StopPod, ExitPod, EvictPod, Drain, dataVars
    <3> QED  BY <1>0, <3>2 DEF Migrated
  <2>3. ASSUME NEW p \in pods[s], OpenDatabase(s, p) \/ Write(s, p)
        PROVE  Migrated(s)'
    <3> DEFINE opened == [p EXCEPT !.ready = TRUE, !.inode = db[s].inode]
               c == Content(db[s])
    <3>1. p \in Pod /\ c \in Data
      BY <1>0 DEF Content, File
    <3>2. opened.left = p.left /\ opened.draining = p.draining
      BY ONLY <3>1 DEF Pod
    <3>3. pods'[s] \subseteq pods[s] \cup {opened}
      BY <1>0, <2>3 DEF OpenDatabase, Write
    <3>4. Kept
      BY <1>0, <3>2, <3>3 DEF Migrated
    <3>5. 0 < c.rel
      BY <1>0 DEF Migrated, Content
    <3>6. ASSUME NEW data \in Data, 0 < data.rel, Commit(s, data)
          PROVE  Filled
      <4>1. db'[s] = [db[s] EXCEPT !.wal = data, !.of = db[s].inode]
        BY <1>0, <3>6 DEF Commit
      <4>2. /\ db'[s].wal = data /\ db'[s].inode = db[s].inode
            /\ db'[s].main = db[s].main
        BY ONLY <1>0, <4>1 DEF File
      <4> QED  BY <1>0, <3>6, <4>2 DEF Migrated
    <3>7. /\ [c EXCEPT !.rel = p.rel] \in Data
          /\ [c EXCEPT !.rel = p.rel].rel = p.rel
          /\ [c EXCEPT !.commits = c.commits + 1] \in Data
          /\ [c EXCEPT !.commits = c.commits + 1].rel = c.rel
          /\ c.rel \in Nat /\ p.rel \in Nat
      BY ONLY <3>1 DEF Data, Pod
    <3>8. \/ UNCHANGED db
          \/ c.rel < p.rel /\ Commit(s, [c EXCEPT !.rel = p.rel])
          \/ Commit(s, [c EXCEPT !.commits = c.commits + 1])
      BY <2>3 DEF OpenDatabase, Write, dataVars
    <3>9. UNCHANGED db => Filled
      BY <1>0 DEF Migrated
    <3>10. Filled
      <4> DEFINE migrated == [c EXCEPT !.rel = p.rel]
                 written == [c EXCEPT !.commits = c.commits + 1]
      <4>1. /\ migrated \in Data /\ (c.rel < p.rel => 0 < migrated.rel)
            /\ written \in Data /\ 0 < written.rel
        BY <3>5, <3>7
      <4> HIDE DEF c, Filled, migrated, written
      <4>2. UNCHANGED db \/ (c.rel < p.rel /\ Commit(s, migrated))
              \/ Commit(s, written)
        BY <3>8 DEF migrated, written
      <4> QED  BY <3>6, <3>9, <4>1, <4>2
    <3> QED  BY <3>4, <3>10 DEF Migrated
  <2>4. ASSUME NEW p \in pods[s], Checkpoint(s, p)
        PROVE  Migrated(s)'
    <3>1. /\ db[s].wal # NoData /\ UNCHANGED pods
          /\ db'[s] = [db[s] EXCEPT !.main = db[s].wal, !.wal = NoData]
      BY <1>0, <2>4 DEF Checkpoint
    <3>2. /\ db'[s].wal = NoData /\ db'[s].inode = db[s].inode
          /\ db'[s].main = db[s].wal
      BY ONLY <1>0, <3>1 DEF File
    <3> QED  BY <1>0, <3>1, <3>2 DEF Migrated
  <2> QED  BY <1>4, <2>1, <2>2, <2>3, <2>4 DEF Controller, Application
<1> QED  BY <1>1, <1>2, <1>3, <1>4, FilesTouched

\* No database runs ahead of its Deployment, whatever the restore puts back and
\* whichever pods are live when a release is applied.
LEMMA NotAheadKept ==
  ASSUME NEW s \in Services, NotAhead(s), db'[s] = db[s],
         dep'[s].rel = dep[s].rel, \A p \in pods'[s] : p \in pods[s]
  PROVE  NotAhead(s)'
  BY DEF NotAhead

LEMMA NotAheadNext ==
  ASSUME ~LateOpens, IInv, Next, NEW s \in Services
  PROVE  NotAhead(s)'
<1> USE DEF IInv
<1>0. /\ NotAhead(s) /\ Migrated(s) /\ Migrated(s)'
      /\ db \in [Services -> File] /\ cur \in Services
      /\ dep \in [Services -> Deployment] /\ pods \in [Services -> SUBSET Pod]
      /\ target \in Nat
  BY UpgradeAssumption, MigratedNext DEF Typed, TypeOK
<1>1. ASSUME UNCHANGED <<db, pods>>, dep'[s].rel = dep[s].rel
      PROVE  NotAhead(s)'
  BY <1>1, <1>0, NotAheadKept
<1>2. ASSUME NEW release \in Releases, Upgrade(release) \/ Rollback(release)
      PROVE  NotAhead(s)'
  BY <1>1, <1>2 DEF Upgrade, Rollback, Begin, dataVars
<1>3. ASSUME NEW v \in Services, TlsRollout(v)
      PROVE  NotAhead(s)'
  <2>1. dep'[s].rel = dep[s].rel
    BY <1>3, <1>0 DEF TlsRollout, Deployment
  <2> QED  BY <2>1, <1>1, <1>3 DEF TlsRollout, dataVars
<1>4. ASSUME NEW v \in Services, ApplyDeployment(v)
      PROVE  NotAhead(s)'
  <2>1. CASE s # v
    <3>1. dep'[s].rel = dep[s].rel
      BY <2>1, <1>4, <1>0 DEF ApplyDeployment
    <3> QED  BY <3>1, <1>1, <1>4 DEF ApplyDeployment, dataVars
  <2>2. CASE s = v /\ op = "upgrade"
    <3>1. dep'[s].rel = target /\ dep[s].rel <= target
      BY <2>2, <1>4, <1>0 DEF ApplyDeployment, OperationInv
    <3>2. UNCHANGED <<db, pods>>
      BY <1>4 DEF ApplyDeployment, dataVars
    <3>3. \A p \in pods[s] : p \in Pod
      BY <1>0
    <3>4. dep[s] \in Deployment /\ db[s] \in File
      BY <1>0
    <3> QED  BY <3>1, <3>2, <3>3, <3>4, <1>0
             DEF NotAhead, Deployment, Pod, File, Data
  <2>3. CASE s = v /\ op = "rollback"
    <3>1. Restored(s) /\ Verified(gens[s][pointer[s]])
      BY <2>3, <1>4 DEF ApplyDeployment, RollbackInv, IsRestored, Restored,
                        PointerInv
    <3>2. dep'[s].rel = target /\ UNCHANGED <<db, pods>>
      BY <2>3, <1>4, <1>0 DEF ApplyDeployment, dataVars
    <3>3. \A p \in pods[s] : p.left
      BY <3>1 DEF Restored, Detached
    <3> QED  BY <3>1, <3>2, <3>3, <1>0 DEF NotAhead, Restored, Verified
  <2> QED  BY <1>4, <2>1, <2>2, <2>3 DEF ApplyDeployment, OperationInv, Typed,
              TypeOK
<1>5. ASSUME StartJob(s) \/ HooksDone \/ TlsDone \/ Applied \/ Failure
             \/ \E v \in Services : StartJob(v)
      PROVE  NotAhead(s)'
  BY <1>1, <1>5 DEF StartJob, HooksDone, TlsDone, Applied, Failure, HelmFails,
     JobErrors, JobKilled, dataVars
<1>6. ASSUME Job, ~UnlinkSidecars, ~ReplaceDatabase
      PROVE  NotAhead(s)'
  <2>1. UNCHANGED <<db, pods>>
    BY <1>6 DEF Job, WriterRunning, WriterStopped, WaitFails, Refuse,
       MakeGeneration, CopyDatabase, SealGeneration, OpenPointer,
       OpenTemporary, ReplacePointer, force_recreate_strategy, LoadBackup,
       ScaleToZero, StageRestore, OpenReceipt, ReplaceReceipt, dataVars
  <2> QED  BY <2>1, <1>1, <1>6, JobKeepsRelease
<1>7. ASSUME UnlinkSidecars
      PROVE  NotAhead(s)'
  <2>1. /\ db' = [db EXCEPT ![cur].wal = NoData] /\ UNCHANGED dep
        /\ pods' = [pods EXCEPT ![cur] = LeftBehind(@)]
    BY <1>7 DEF UnlinkSidecars
  <2>2. CASE s # cur
    BY <2>1, <2>2, <1>0, NotAheadKept
  <2>3. CASE s = cur
    <3>1. db[s] \in File /\ db'[s] = [db[s] EXCEPT !.wal = NoData]
      BY <2>1, <2>3, <1>0
    <3>2. /\ db'[s].inode = db[s].inode /\ db'[s].main = db[s].main
          /\ db'[s].wal = NoData
      BY ONLY <3>1 DEF File
    <3>3. \A p \in pods[s] : /\ [p EXCEPT !.inode = 0, !.left = TRUE].left
                             /\ [p EXCEPT !.inode = 0, !.left = TRUE].inode = 0
      BY <1>0 DEF Pod
    <3>4. \A p \in pods'[s] : p.left /\ p.inode = 0
      BY <2>1, <2>3, <3>3, <1>0 DEF LeftBehind
    <3> QED  BY <2>1, <3>2, <3>4, <1>0 DEF NotAhead
  <2> QED  BY <2>2, <2>3
<1>8. ASSUME ReplaceDatabase
      PROVE  NotAhead(s)'
  <2> DEFINE backup == gens[cur][loaded].data
  <2>1. /\ db' = [db EXCEPT ![cur].inode = @ + 1, ![cur].main = backup]
        /\ UNCHANGED <<dep, pods>> /\ pc = "replace"
    BY <1>8 DEF ReplaceDatabase
  <2>2. CASE s # cur
    BY <2>1, <2>2, <1>0, NotAheadKept
  <2>3. CASE s = cur
    <3>1. /\ db[s] \in File
          /\ db'[s] = [db[s] EXCEPT !.inode = @ + 1, !.main = backup]
      BY <2>1, <2>3, <1>0
    <3>2. /\ db'[s].inode = db[s].inode + 1 /\ db'[s].main = backup
          /\ db'[s].wal = db[s].wal /\ db[s].inode \in Nat
      BY ONLY <3>1 DEF File
    <3>3. /\ Verified(gens[cur][loaded]) /\ gens[cur][loaded].source = target
          /\ target <= dep[cur].rel
      BY <2>1, <1>0 DEF RestoreInv, RestoreSteps, PointerInv
    <3>4. gens[cur][loaded] \in Generation /\ dep[cur] \in Deployment
      BY <2>1, <1>0 DEF Typed, TypeOK, Counted, RestoreSteps
    <3>5. 0 < backup.rel /\ backup.rel <= dep[s].rel
      BY <3>3, <3>4, <2>3, <1>0 DEF Verified, Generation, Data, Deployment
    <3> QED  BY <2>1, <3>2, <3>5, <1>0 DEF NotAhead
  <2> QED  BY <2>2, <2>3
<1>9. ASSUME NEW v \in Services, Controller(v) \/ Application(v)
      PROVE  NotAhead(s)'
  <2>1. UNCHANGED dep
    BY <1>9 DEF Controller, Application, StartPod, StopPod, ExitPod, EvictPod,
       OpenDatabase, Write, Checkpoint
  <2>2. CASE s # v
    <3>1. db'[s] = db[s] /\ pods'[s] = pods[s]
      BY <1>9, <2>2, <1>0 DEF Controller, Application, StartPod, StopPod,
         ExitPod, EvictPod, Drain, OpenDatabase, Write, Checkpoint, Commit,
         dataVars
    <3> QED  BY <3>1, <2>1, <1>0, NotAheadKept
  <2>3. CASE s = v
    <3>1. CASE StartPod(s)
      <4>1. /\ UNCHANGED db /\ dep[s] \in Deployment
            /\ pods'[s] = pods[s] \cup
                 {[tpl |-> dep[s].tpl, rel |-> dep[s].rel, inode |-> 0,
                   ready |-> FALSE, draining |-> FALSE, left |-> FALSE]}
        BY <3>1, <1>0 DEF StartPod, dataVars
      <4> QED  BY <4>1, <2>1, <1>0 DEF NotAhead, Deployment
    <3>2. ASSUME NEW p \in pods[s],
                 StopPod(s, p) \/ ExitPod(s, p) \/ EvictPod(s, p)
          PROVE  NotAhead(s)'
      <4> DEFINE drained == [p EXCEPT !.draining = TRUE]
      <4>1. /\ drained.left = p.left /\ drained.inode = p.inode
            /\ drained.rel = p.rel
        BY <1>0 DEF Pod
      <4>2. UNCHANGED db /\ pods'[s] \subseteq pods[s] \cup {drained}
        BY <3>2, <1>0 DEF StopPod, ExitPod, EvictPod, Drain, dataVars
      <4> HIDE DEF drained
      <4> QED  BY <4>1, <4>2, <2>1, <1>0 DEF NotAhead
    <3>3. ASSUME NEW p \in pods[s], OpenDatabase(s, p)
          PROVE  NotAhead(s)'
      <4> DEFINE opened == [p EXCEPT !.ready = TRUE, !.inode = db[s].inode]
      <4>1. p \in Pod /\ ~p.left
        BY <3>3, <1>0 DEF OpenDatabase
      <4>2. opened.rel = p.rel /\ opened.left = p.left
        BY ONLY <4>1 DEF Pod
      <4>3. \A q \in pods'[s] :
              IF q.left THEN q.inode = 0 ELSE q.rel <= dep[s].rel
        <5>1. pods'[s] = (pods[s] \ {p}) \cup {opened}
          BY <3>3, <1>0 DEF OpenDatabase
        <5> HIDE DEF opened
        <5> QED  BY <5>1, <4>1, <4>2, <1>0 DEF NotAhead
      <4>4. CASE Content(db[s]).rel < p.rel
        <5> DEFINE migrated == [Content(db[s]) EXCEPT !.rel = p.rel]
        <5>1. db[s] \in File /\ Content(db[s]) \in Data
          BY <1>0 DEF Content, File
        <5>2. migrated.rel = p.rel
          BY ONLY <5>1 DEF Data
        <5>3. db'[s] = [db[s] EXCEPT !.wal = migrated, !.of = db[s].inode]
          BY <3>3, <4>4, <1>0 DEF OpenDatabase, Commit
        <5>4. /\ db'[s].wal = migrated /\ db'[s].inode = db[s].inode
              /\ db'[s].main = db[s].main
          BY ONLY <5>1, <5>3 DEF File
        <5>5. p.rel <= dep[s].rel
          BY <4>1, <1>0 DEF NotAhead
        <5> QED  BY <5>2, <5>4, <5>5, <4>3, <2>1, <1>0 DEF NotAhead
      <4>5. CASE ~(Content(db[s]).rel < p.rel)
        <5>1. UNCHANGED db
          BY <3>3, <4>5 DEF OpenDatabase, dataVars
        <5> QED  BY <5>1, <4>3, <2>1, <1>0 DEF NotAhead
      <4> QED  BY <4>4, <4>5
    <3>4. ASSUME NEW p \in pods[s], Write(s, p)
          PROVE  NotAhead(s)'
      <4> DEFINE c == Content(db[s])
                 next == [c EXCEPT !.commits = c.commits + 1]
      <4>1. db[s] \in File /\ c \in Data
        BY <1>0 DEF Content, File
      <4>2. next.rel = c.rel
        BY ONLY <4>1 DEF Data
      <4>3. db'[s] = [db[s] EXCEPT !.wal = next, !.of = db[s].inode]
        BY <3>4, <1>0 DEF Write, Commit
      <4>4. /\ db'[s].wal = next /\ db'[s].inode = db[s].inode
            /\ db'[s].main = db[s].main
        BY ONLY <4>1, <4>3 DEF File
      <4>5. c.rel <= dep[s].rel
        BY <1>0 DEF NotAhead, Content
      <4>6. UNCHANGED pods
        BY <3>4 DEF Write
      <4> QED  BY <4>2, <4>4, <4>5, <4>6, <2>1, <1>0 DEF NotAhead
    <3>5. ASSUME NEW p \in pods[s], Checkpoint(s, p)
          PROVE  NotAhead(s)'
      <4>1. /\ db[s] \in File /\ db[s].wal # NoData /\ UNCHANGED pods
            /\ db'[s] = [db[s] EXCEPT !.main = db[s].wal, !.wal = NoData]
        BY <3>5, <1>0 DEF Checkpoint
      <4>2. /\ db'[s].wal = NoData /\ db'[s].inode = db[s].inode
            /\ db'[s].main = db[s].wal
        BY ONLY <4>1 DEF File
      <4> QED  BY <4>1, <4>2, <2>1, <1>0 DEF NotAhead
    <3> QED  BY <1>9, <2>3, <3>1, <3>2, <3>3, <3>4, <3>5
             DEF Controller, Application
  <2> QED  BY <2>2, <2>3
<1> QED  BY <1>2, <1>3, <1>4, <1>5, <1>6, <1>7, <1>8, <1>9 DEF Next, Helm, Job

\* Without replicas, no step of a controller or a service brings a writer back.
LEMMA NoWriterStays ==
  ASSUME Typed, NEW c \in Services, NoWriter(c), dep[c].replicas = 0,
         NEW s \in Services, Controller(s) \/ Application(s)
  PROVE  NoWriter(c)'
<1>0. pods \in [Services -> SUBSET Pod]
  BY DEF Typed, TypeOK
<1>1. CASE s # c
  <2>1. pods'[c] = pods[c]
    BY <1>1, <1>0 DEF Controller, Application, StartPod, StopPod, ExitPod,
       EvictPod, Drain, OpenDatabase, Write, Checkpoint
  <2> QED  BY <2>1 DEF NoWriter, application_pods
<1>2. CASE s = c
  <2>1. ~StartPod(c)
    BY DEF StartPod
  <2>2. \A p \in pods[c] : ~(StopPod(c, p) \/ EvictPod(c, p))
    BY DEF NoWriter, StopPod, EvictPod
  <2>3. ASSUME NEW p \in pods[c], OpenDatabase(c, p)
        PROVE  \A q \in pods'[c] : q \in pods[c] \/ q.draining
    <3> DEFINE opened == [p EXCEPT !.ready = TRUE, !.inode = db[c].inode]
    <3>1. p \in Pod /\ p.draining
      BY <1>0 DEF NoWriter, application_pods
    <3>2. opened.draining = p.draining
      BY ONLY <3>1 DEF Pod
    <3>3. pods'[c] = (pods[c] \ {p}) \cup {opened}
      BY <1>0, <2>3 DEF OpenDatabase
    <3> QED  BY <3>1, <3>2, <3>3
  <2>4. \A q \in pods'[c] : q \in pods[c] \/ q.draining
    BY <1>0, <1>2, <2>1, <2>2, <2>3 DEF Controller, Application, ExitPod, Write,
       Checkpoint
  <2> QED  BY <2>4 DEF NoWriter, application_pods
<1> QED  BY <1>1, <1>2

\* Those that were left behind stay the only pods there are; unless one of them
\* opens the database by name, nobody writes it.
LEMMA DetachedStays ==
  ASSUME Typed, NEW c \in Services, Migrated(c), Detached(c),
         NEW s \in Services, Controller(s) \/ Application(s)
  PROVE  Detached(c)' /\ (~LateOpens /\ NotAhead(c) => db'[c] = db[c])
<1>0. pods \in [Services -> SUBSET Pod] /\ db \in [Services -> File]
  BY DEF Typed, TypeOK
<1>1. UNCHANGED dep
  BY DEF Controller, Application, StartPod, StopPod, ExitPod, EvictPod,
     OpenDatabase, Write, Checkpoint
<1>2. CASE s # c
  <2>1. pods'[c] = pods[c] /\ db'[c] = db[c]
    BY <1>2, <1>0 DEF Controller, Application, StartPod, StopPod, ExitPod,
       EvictPod, Drain, OpenDatabase, Write, Checkpoint, Commit, dataVars
  <2> QED  BY <1>1, <2>1 DEF Detached
<1>3. CASE s = c
  <2>1. ~StartPod(c)
    BY DEF Detached, StartPod
  <2>2. \A p \in pods[c] : ~(StopPod(c, p) \/ EvictPod(c, p))
    BY DEF Detached, Migrated, StopPod, EvictPod, application_pods
  <2>3. PICK p \in pods[c] : \/ ExitPod(c, p) \/ OpenDatabase(c, p)
                             \/ Write(c, p) \/ Checkpoint(c, p)
    BY <1>3, <2>1, <2>2 DEF Controller, Application
  <2>4. CASE ExitPod(c, p)
    <3>1. UNCHANGED db /\ pods'[c] \subseteq pods[c]
      BY <1>0, <2>4 DEF ExitPod, dataVars
    <3> QED  BY <1>1, <3>1 DEF Detached
  <2>5. CASE OpenDatabase(c, p)
    <3> DEFINE opened == [p EXCEPT !.ready = TRUE, !.inode = db[c].inode]
    <3>1. p \in Pod /\ p.left /\ LateOpens
      BY <1>0, <2>5 DEF Detached, OpenDatabase
    <3>2. opened.left = p.left
      BY ONLY <3>1 DEF Pod
    <3>3. pods'[c] = (pods[c] \ {p}) \cup {opened}
      BY <1>0, <2>5 DEF OpenDatabase
    <3> QED  BY <1>1, <3>1, <3>2, <3>3 DEF Detached
  <2>6. CASE Write(c, p) \/ Checkpoint(c, p)
    <3>1. UNCHANGED pods
      BY <2>6 DEF Write, Checkpoint
    <3>2. ~NotAhead(c)
      BY <2>6 DEF Detached, Migrated, NotAhead, Write, Checkpoint, Connected
    <3> QED  BY <1>1, <3>1, <3>2 DEF Detached
  <2> QED  BY <2>3, <2>4, <2>5, <2>6
<1> QED  BY <1>2, <1>3

\* The restore holds what it has loaded, stopped and unlinked until it is done.
LEMMA RestoreNext ==
  ASSUME IInv, Next
  PROVE  RestoreInv'
<1> USE DEF IInv, JobSteps, BackupSteps, RestoreSteps
<1>0. /\ cur \in Services /\ dep[cur] \in Deployment
      /\ pods \in [Services -> SUBSET Pod] /\ dep \in [Services -> Deployment]
  BY DEF Typed, TypeOK
<1>1. ASSUME pc' \notin RestoreSteps \ {"load"}
      PROVE  RestoreInv'
  BY <1>1 DEF RestoreInv
<1>2. ASSUME NEW release \in Releases, Upgrade(release) \/ Rollback(release)
      PROVE  RestoreInv'
  BY <1>1, <1>2 DEF Upgrade, Rollback, Begin
<1>3. CASE Helm \/ Failure
  BY <1>1, <1>3 DEF Helm, StartJob, TlsRollout, ApplyDeployment, HooksDone,
     TlsDone, Applied, Failure, HelmFails, JobErrors, JobKilled, Abort
<1>4. CASE WriterRunning \/ WaitFails \/ MakeGeneration \/ CopyDatabase
           \/ SealGeneration \/ OpenPointer \/ ReplacePointer
           \/ force_recreate_strategy \/ ReplaceReceipt
  BY <1>1, <1>4 DEF WriterRunning, WaitFails, MakeGeneration, CopyDatabase,
     SealGeneration, OpenPointer, OpenTemporary, ReplacePointer,
     force_recreate_strategy, ReplaceReceipt, Refuse, Abort, Goto, EndJob
<1>5. ASSUME LoadBackup
      PROVE  RestoreInv'
  <2>1. CASE ~Bound(cur)
    BY <1>1, <1>5, <2>1 DEF LoadBackup, Refuse, Abort
  <2>2. CASE Bound(cur)
    <3> DEFINE g == gens[cur][pointer[cur]]
    <3>1. /\ pointer[cur] # 0 /\ g.source = target /\ Verified(g)
          /\ dep[cur].rel \in {g.source, g.target}
      BY <2>2, <1>0 DEF Bound, PointerInv
    <3>2. g \in Generation
      BY <3>1, <1>0 DEF Typed, TypeOK
    <3>3. target <= dep[cur].rel
      BY <3>1, <3>2, <1>0 DEF Verified, Generation, Deployment
    <3> QED  BY <3>1, <3>3, <1>5, <2>2
             DEF LoadBackup, RestoreInv, Goto, backupVars, helmVars
  <2> QED  BY <2>1, <2>2
<1>6. ASSUME ScaleToZero
      PROVE  RestoreInv'
  <2>1. dep'[cur].rel = dep[cur].rel /\ dep'[cur].replicas = 0
    BY <1>6, <1>0 DEF ScaleToZero, Deployment
  <2> QED  BY <1>6, <2>1 DEF ScaleToZero, RestoreInv, Goto, backupVars, helmVars
<1>7. CASE WriterStopped
  BY <1>7 DEF WriterStopped, RestoreInv, NoWriter, application_pods, Goto,
     backupVars, helmVars
<1>8. CASE StageRestore
  BY <1>1, <1>8 DEF StageRestore, OpenTemporary, RestoreInv, NoWriter,
     application_pods, Refuse, Abort, Goto, helmVars
<1>9. ASSUME UnlinkSidecars
      PROVE  RestoreInv'
  <2>1. /\ pc = "unlink" /\ pc' = "replace"
        /\ UNCHANGED <<dep, cur, gens, pointer, target, loaded>>
    BY <1>9 DEF UnlinkSidecars, Goto, backupVars, helmVars
  <2>2. db'[cur].wal = NoData
    BY <1>9 DEF UnlinkSidecars, Typed, TypeOK, File
  <2>3. pods'[cur] = LeftBehind(pods[cur])
    BY <1>9, <1>0 DEF UnlinkSidecars
  <2>4. \A p \in pods'[cur] : p.left
    <3>1. \A p \in pods[cur] : [p EXCEPT !.inode = 0, !.left = TRUE].left
      BY <1>0 DEF Pod
    <3> QED  BY <2>3, <3>1 DEF LeftBehind
  <2>5. dep[cur].replicas = 0
    BY <2>1 DEF RestoreInv
  <2> QED  BY <2>1, <2>2, <2>4, <2>5 DEF RestoreInv, Detached
<1>10. CASE ReplaceDatabase \/ OpenReceipt
  BY <1>1, <1>10 DEF ReplaceDatabase, OpenReceipt, OpenTemporary, RestoreInv,
     Refuse, Abort, Goto, helmVars
<1>11. ASSUME NEW s \in Services, Controller(s) \/ Application(s)
       PROVE  RestoreInv'
  <2>1. UNCHANGED <<dep, cur, gens, pointer, target, loaded, pc>>
    BY <1>11 DEF Controller, Application, StartPod, StopPod, ExitPod, EvictPod,
       OpenDatabase, Write, Checkpoint, helmVars, backupVars
  <2>2. PICK c \in Services : c = cur /\ c = cur'
    BY <1>0, <2>1
  <2>3. NoWriter(c) /\ dep[c].replicas = 0 => NoWriter(c)'
    BY <1>11, NoWriterStays
  <2>4. Detached(c) => Detached(c)' /\ (~LateOpens => db'[c] = db[c])
    BY <1>11, DetachedStays
  <2>5. /\ NoWriter(cur) /\ dep[cur].replicas = 0 => NoWriter(cur)'
        /\ Detached(cur) => /\ Detached(cur)'
                            /\ ~LateOpens => db'[cur] = db[cur]
    BY <2>2, <2>3, <2>4 DEF NoWriter, application_pods, Detached
  <2> QED  BY <2>1, <2>5 DEF RestoreInv
<1> QED  BY <1>2, <1>3, <1>4, <1>5, <1>6, <1>7, <1>8, <1>9, <1>10, <1>11
         DEF Next, Job

\* Once restored, a service stays exactly on its backup until it is applied.
LEMMA RollbackNext ==
  ASSUME ~LateOpens, IInv, Next
  PROVE  RollbackInv'
<1> USE DEF IInv, JobSteps, BackupSteps, RestoreSteps
<1>0. /\ cur \in Services /\ todo \subseteq Services
      /\ pods \in [Services -> SUBSET Pod] /\ dep \in [Services -> Deployment]
      /\ db \in [Services -> File]
  BY DEF Typed, TypeOK
<1>1. ASSUME NEW s \in Services, Restored(s), UNCHANGED target,
             gens' = gens, pointer' = pointer,
             db'[s] = db[s], dep'[s].replicas = dep[s].replicas,
             pods'[s] = pods[s]
      PROVE  Restored(s)'
  BY <1>1 DEF Restored, Detached
<1>2. ASSUME NEW release \in Releases, Upgrade(release) \/ Rollback(release)
      PROVE  RollbackInv'
  BY <1>2 DEF Upgrade, Rollback, Begin, RollbackInv, IsRestored, InHooks
<1>3. CASE Applied \/ Failure
  <2>1. op' = "none"
    BY <1>3 DEF Applied, Failure, HelmFails, JobErrors, JobKilled, Abort
  <2> QED  BY <2>1 DEF RollbackInv
<1>4. ASSUME StartJob(cur) \/ (\E s \in Services : StartJob(s)) \/ HooksDone
      PROVE  RollbackInv'
  <2>1. ASSUME NEW s \in Services, op' = "rollback", IsRestored(s)'
        PROVE  IsRestored(s) /\ op = "rollback"
    BY <1>4, <2>1 DEF StartJob, HooksDone, helmVars, IsRestored, InHooks
  <2>2. UNCHANGED <<target, gens, pointer, db, dep, pods>>
    BY <1>4 DEF StartJob, HooksDone, dataVars, helmVars, backupVars
  <2> QED  BY <1>1, <2>1, <2>2 DEF RollbackInv
<1>5. ASSUME TlsDone \/ \E s \in Services : TlsRollout(s)
      PROVE  RollbackInv'
  BY <1>5 DEF TlsDone, TlsRollout, helmVars, OperationInv, RollbackInv
<1>6. ASSUME NEW v \in Services, ApplyDeployment(v)
      PROVE  RollbackInv'
  <2>1. /\ UNCHANGED <<op, pc, target, gens, pointer, db, pods>>
        /\ pc = "apply" /\ todo' = todo \ {v}
        /\ \A s \in Services \ {v} : dep'[s] = dep[s]
    BY <1>6, <1>0 DEF ApplyDeployment, dataVars, backupVars
  <2>2. ASSUME NEW s \in Services, op' = "rollback", IsRestored(s)'
        PROVE  s # v /\ IsRestored(s) /\ op = "rollback"
    BY <2>1, <2>2 DEF IsRestored, InHooks
  <2> QED  BY <1>1, <2>1, <2>2 DEF RollbackInv
<1>7. CASE op = "upgrade" /\ Job
  BY <1>7 DEF Job, WriterRunning, WriterStopped, WaitFails, Refuse, Abort,
     MakeGeneration, CopyDatabase, SealGeneration, OpenPointer, OpenTemporary,
     ReplacePointer, force_recreate_strategy, LoadBackup, ScaleToZero,
     StageRestore, UnlinkSidecars, ReplaceDatabase, OpenReceipt,
     ReplaceReceipt, helmVars, RollbackInv
<1>8. ASSUME LoadBackup \/ WriterStopped \/ WaitFails \/ StageRestore
             \/ OpenReceipt \/ ReplaceReceipt
      PROVE  RollbackInv'
  <2>1. ASSUME NEW s \in Services, op' = "rollback", IsRestored(s)'
        PROVE  IsRestored(s) /\ op = "rollback"
    BY <1>8, <2>1 DEF LoadBackup, WriterStopped, WaitFails, StageRestore,
       OpenReceipt, ReplaceReceipt, OpenTemporary, Refuse, Abort, Goto, EndJob,
       helmVars, IsRestored, InHooks
  <2>2. UNCHANGED <<target, gens, pointer, db, dep, pods>>
    BY <1>8 DEF LoadBackup, WriterStopped, WaitFails, StageRestore,
       OpenReceipt, ReplaceReceipt, OpenTemporary, Refuse, dataVars, helmVars,
       backupVars
  <2> QED  BY <1>1, <2>1, <2>2 DEF RollbackInv
<1>9. ASSUME ScaleToZero \/ UnlinkSidecars
      PROVE  RollbackInv'
  <2>1. /\ pc \in RestoreSteps /\ cur \in todo
        /\ UNCHANGED <<op, target, gens, pointer, todo, cur>>
        /\ pc' \in {"wait-zero", "replace"}
    BY <1>9 DEF ScaleToZero, UnlinkSidecars, Goto, helmVars, backupVars,
       OperationInv
  <2>2. ASSUME NEW s \in Services, IsRestored(s)'
        PROVE  IsRestored(s) /\ s # cur
    BY <2>1, <2>2 DEF IsRestored, InHooks
  <2>3. ASSUME NEW s \in Services, s # cur
        PROVE  db'[s] = db[s] /\ dep'[s] = dep[s] /\ pods'[s] = pods[s]
    BY <1>0, <1>9, <2>3 DEF ScaleToZero, UnlinkSidecars, dataVars
  <2> QED  BY <1>1, <2>1, <2>2, <2>3 DEF RollbackInv
<1>10. ASSUME ReplaceDatabase
       PROVE  RollbackInv'
  <2>1. /\ pc = "replace" /\ pc' = "receipt-tmp" /\ cur \in todo
        /\ UNCHANGED <<op, target, gens, pointer, todo, cur, dep, pods>>
        /\ db' = [db EXCEPT ![cur].inode = @ + 1,
                            ![cur].main = gens[cur][loaded].data]
    BY <1>10 DEF ReplaceDatabase, Goto, helmVars, OperationInv
  <2>2. ASSUME NEW s \in Services, s # cur, IsRestored(s)'
        PROVE  IsRestored(s) /\ db'[s] = db[s]
    BY <1>0, <2>1, <2>2 DEF IsRestored, InHooks
  <2>3. PICK c \in Services : c = cur
    BY <1>0
  <2>4. Restored(c)'
    <3>1. /\ Detached(c) /\ db[c].wal = NoData /\ pointer[c] # 0
          /\ loaded = pointer[c] /\ gens[c][loaded].source = target
      BY <2>1, <2>3 DEF RestoreInv
    <3>2. /\ db[c] \in File
          /\ db'[c] = [db[c] EXCEPT !.inode = @ + 1,
                                    !.main = gens[c][loaded].data]
      BY <1>0, <2>1, <2>3
    <3>3. db'[c].main = gens[c][loaded].data /\ db'[c].wal = db[c].wal
      BY ONLY <3>2 DEF File
    <3> QED  BY <2>1, <3>1, <3>3 DEF Restored, Detached
  <2> QED  BY <1>1, <2>1, <2>2, <2>3, <2>4 DEF RollbackInv
<1>11. ASSUME NEW v \in Services, Controller(v) \/ Application(v)
       PROVE  RollbackInv'
  <2>1. UNCHANGED <<op, pc, todo, cur, target, gens, pointer, dep>>
    BY <1>11 DEF Controller, Application, StartPod, StopPod, ExitPod, EvictPod,
       OpenDatabase, Write, Checkpoint, helmVars, backupVars
  <2>2. ASSUME NEW s \in Services, Restored(s)
        PROVE  Restored(s)'
    <3>1. Detached(s)' /\ db'[s] = db[s]
      BY <1>11, <2>2, DetachedStays DEF Restored
    <3> QED  BY <2>1, <2>2, <3>1 DEF Restored
  <2> QED  BY <2>1, <2>2 DEF RollbackInv, IsRestored, InHooks
<1>12. CASE op # "upgrade" /\ (WriterRunning \/ MakeGeneration \/ CopyDatabase
              \/ SealGeneration \/ OpenPointer \/ ReplacePointer
              \/ force_recreate_strategy)
  BY <1>12 DEF OperationInv, WriterRunning, MakeGeneration, CopyDatabase,
     SealGeneration, OpenPointer, OpenTemporary, ReplacePointer,
     force_recreate_strategy
<1> QED  BY <1>2, <1>3, <1>4, <1>5, <1>6, <1>7, <1>8, <1>9, <1>10, <1>11,
            <1>12 DEF Next, Helm, Job

\* The inductive invariant of the transaction; what it says of the releases of
\* databases, backups and pods, and of restored services, it says under ~LateOpens.
THEOREM Inductive == Spec => []IInv
<1>1. IInv /\ [Next]_vars => IInv'
  <2> SUFFICES ASSUME IInv, [Next]_vars
               PROVE  IInv'
    OBVIOUS
  <2>1. CASE Next
    BY <2>1, NextTyped, OperationNext, PointerNext, BackupNext, RestoreNext,
       MigratedNext, NotAheadNext, RollbackNext DEF IInv
  <2>2. CASE UNCHANGED vars
    <3>1. Typed'
      BY <2>2, NextTyped DEF IInv
    <3>2. OperationInv' /\ PointerInv' /\ BackupInv'
      BY <2>2 DEF IInv, vars, backupVars, helmVars, OperationInv, PointerInv,
         BackupInv, InHooks, Verified
    <3>3. ASSUME NEW s \in Services
          PROVE  Migrated(s)' /\ (~LateOpens => NotAhead(s)')
      BY <2>2 DEF IInv, vars, dataVars, Migrated, NotAhead
    <3>4. RestoreInv' /\ (~LateOpens => RollbackInv')
      BY <2>2 DEF IInv, vars, dataVars, backupVars, helmVars, RestoreInv,
         RollbackInv, NoWriter, application_pods, Detached, IsRestored,
         Restored, InHooks
    <3> QED  BY <3>1, <3>2, <3>3, <3>4 DEF IInv
  <2> QED  BY <2>1, <2>2
<1> QED  BY InitIInv, <1>1, PTL DEF Spec

\* Whatever Job was killed or failed at whatever step, current.json names a
\* generation that has its copy and its manifest, bound in the direction of an
\* upgrade (backup_database).
THEOREM BackupsVerified == Spec => []PointerVerified
<1>1. IInv => PointerVerified
  BY DEF IInv, PointerInv, Verified, PointerVerified
<1> QED  BY Inductive, <1>1, PTL

\* A backup that current.json names is not of a later release than its manifest
\* binds it to, as long as nobody left behind by a restore opens the database.
THEOREM BackupsBound ==
  ~LateOpens => (Spec => [](\A s \in Services : pointer[s] # 0 =>
    gens[s][pointer[s]].data.rel <= gens[s][pointer[s]].source))
<1> DEFINE Bounded == \A s \in Services : pointer[s] # 0 =>
             gens[s][pointer[s]].data.rel <= gens[s][pointer[s]].source
<1>1. ASSUME ~LateOpens, IInv
      PROVE  Bounded
  BY <1>1 DEF IInv, PointerInv, Verified
<1> SUFFICES ASSUME ~LateOpens
             PROVE  Spec => []Bounded
  OBVIOUS
<1>2. IInv => Bounded
  BY <1>1
<1> HIDE DEF Bounded
<1> QED  BY Inductive, <1>2, PTL

\* When a rollback brings a source Deployment back, its service has no pod that
\* is not terminating and stands on exactly the backup taken under the release
\* that returns (restore_database), as long as no pod that the restore left
\* behind opens the database by name again.
THEOREM RollbacksExact == ~LateOpens => (Spec => []RestoredExactly)
<1> SUFFICES ASSUME ~LateOpens
             PROVE  Spec => []RestoredExactly
  OBVIOUS
<1>1. ASSUME IInv
      PROVE  RestoredExactly
  BY <1>1 DEF IInv, RollbackInv, IsRestored, Restored, Detached, Migrated,
     NoWriter, application_pods, RestoredExactly, Content, Typed, TypeOK
<1> QED  BY Inductive, <1>1, PTL

\* A journal on the PVC always belongs to the database file beside it: a
\* restore replaces the file only once the candidate's journal is unlinked and
\* nobody is connected to it (restore_database), as long as no pod that the
\* restore left behind opens the database by name again.
THEOREM JournalsClean == ~LateOpens => (Spec => []CleanJournal)
<1> SUFFICES ASSUME ~LateOpens
             PROVE  Spec => []CleanJournal
  OBVIOUS
<1>1. Init => CleanJournal
  BY DEF Init, CleanJournal
<1>2. IInv /\ CleanJournal /\ [Next]_vars => CleanJournal'
  <2> SUFFICES ASSUME IInv, CleanJournal, [Next]_vars, NEW s \in Services,
                      db'[s].wal # NoData
               PROVE  db'[s].of = db'[s].inode
    BY DEF CleanJournal
  <2>0. db \in [Services -> File] /\ db[s] \in File /\ cur \in Services
    BY DEF IInv, Typed, TypeOK
  <2>1. CASE db'[s] = db[s]
    BY <2>1 DEF CleanJournal
  <2>2. ASSUME NEW data, db' = [db EXCEPT ![s].wal = data, ![s].of = db[s].inode]
        PROVE  db'[s].of = db'[s].inode
    <3>1. db'[s] = [db[s] EXCEPT !.wal = data, !.of = db[s].inode]
      BY <2>0, <2>2
    <3> QED  BY ONLY <2>0, <3>1 DEF File
  <2>3. CASE UnlinkSidecars
    <3>1. s # cur
      BY <2>0, <2>3 DEF UnlinkSidecars, File
    <3> QED  BY <2>0, <2>1, <2>3, <3>1 DEF UnlinkSidecars
  <2>4. CASE ReplaceDatabase
    <3>1. CASE s = cur
      <4>1. db[s].wal = NoData
        BY <2>4, <3>1 DEF ReplaceDatabase, IInv, RestoreInv
      <4>2. db'[s] = [db[s] EXCEPT !.inode = @ + 1,
                                   !.main = gens[cur][loaded].data]
        BY <2>0, <2>4, <3>1 DEF ReplaceDatabase
      <4>3. db'[s].wal = db[s].wal
        BY ONLY <2>0, <4>2 DEF File
      <4> QED  BY <4>1, <4>3
    <3>2. CASE s # cur
      BY <2>0, <2>1, <2>4, <3>2 DEF ReplaceDatabase
    <3> QED  BY <3>1, <3>2
  <2>5. ASSUME NEW v \in Services, NEW p \in pods[v],
               OpenDatabase(v, p) \/ Write(v, p)
        PROVE  db'[s].of = db'[s].inode
    <3>1. \/ UNCHANGED db
          \/ \E data : db' = [db EXCEPT ![v].wal = data, ![v].of = db[v].inode]
      BY <2>5 DEF OpenDatabase, Write, Commit, dataVars
    <3>2. CASE s # v
      BY <2>0, <2>1, <3>1, <3>2
    <3>3. CASE s = v
      BY <2>1, <2>2, <3>1, <3>3
    <3> QED  BY <3>2, <3>3
  <2>6. ASSUME NEW v \in Services, NEW p \in pods[v], Checkpoint(v, p)
        PROVE  db'[s].of = db'[s].inode
    <3>1. s # v
      <4>1. db' = [db EXCEPT ![v].main = db[v].wal, ![v].wal = NoData]
        BY <2>6 DEF Checkpoint
      <4> QED  BY <2>0, <4>1 DEF File
    <3> QED  BY <2>0, <2>1, <2>6, <3>1 DEF Checkpoint
  <2>7. CASE UNCHANGED db
    BY <2>1, <2>7
  <2> QED  BY <2>3, <2>4, <2>5, <2>6, <2>7
           DEF Next, Upgrade, Rollback, Begin, Helm, StartJob, TlsRollout,
           ApplyDeployment, HooksDone, TlsDone, Applied, Failure, HelmFails,
           JobErrors, JobKilled, Job, WriterRunning, WriterStopped, WaitFails,
           Refuse, MakeGeneration, CopyDatabase, SealGeneration, OpenPointer,
           OpenTemporary, ReplacePointer, force_recreate_strategy, LoadBackup,
           ScaleToZero, StageRestore, OpenReceipt, ReplaceReceipt, Controller,
           Application, StartPod, StopPod, ExitPod, EvictPod, dataVars, vars
<1> QED  BY Inductive, <1>1, <1>2, PTL DEF Spec

(***************************************************************************)
(* The data.  The invariant above says how far a Job has come; the one     *)
(* below says what its services may do meanwhile.                          *)
(***************************************************************************)

(***************************************************************************)
(* One writer.                                                             *)
(*                                                                         *)
(* Pods of two releases never meet: under RollingUpdate every pod is of    *)
(* the live template, and no template changes before every service has     *)
(* been through its backup Job, which takes RollingUpdate away.            *)
(***************************************************************************)
TemplateInv(s) ==
    /\ \A p \in pods[s] :
         /\ p.tpl <= dep[s].tpl
         /\ p.tpl = dep[s].tpl => p.rel = dep[s].rel
         /\ \A q \in pods[s] : q.rel = p.rel
    /\ dep[s].strategy # "Recreate" => \A p \in pods[s] : p.tpl = dep[s].tpl

StrategyInv(s) ==
    op = "upgrade" /\ ((InHooks /\ s \notin todo) \/ pc = "tls")
      => dep[s].strategy = "Recreate"

WriterInv(s) == \A p, q \in application_pods(s) : p = q

SingleInv(s) == TemplateInv(s) /\ StrategyInv(s) /\ WriterInv(s)

LEMMA InitSingle == ASSUME Init, NEW s \in Services PROVE SingleInv(s)
<1>1. /\ pods[s] = {FirstPod} /\ dep[s].tpl = 0
      /\ dep[s].rel = FirstRelease /\ op = "none"
  BY DEF Init
<1>2. FirstPod.tpl = 0 /\ FirstPod.rel = FirstRelease
  BY DEF FirstPod
<1> QED  BY <1>1, <1>2 DEF SingleInv, TemplateInv, StrategyInv, WriterInv,
            application_pods

\* A strategy, once taken to Recreate, stays there until the operation is over.
LEMMA StrategyNext ==
  ASSUME IInv, Next, NEW s \in Services, StrategyInv(s)
  PROVE  StrategyInv(s)'
<1> USE DEF IInv, JobSteps, BackupSteps, RestoreSteps
<1>0. dep[s] \in Deployment
  BY DEF Typed, TypeOK
<1>1. dep[s].strategy = "Recreate" => dep'[s].strategy = "Recreate"
  <2>1. /\ [dep[s] EXCEPT !.tpl = dep[s].tpl + 1].strategy = dep[s].strategy
        /\ [dep[s] EXCEPT !.replicas = 0].strategy = dep[s].strategy
        /\ [dep[s] EXCEPT !.strategy = "Recreate"].strategy = "Recreate"
    BY ONLY <1>0 DEF Deployment
  <2>2. [rel |-> target, tpl |-> dep[s].tpl + 1, replicas |-> 1,
         strategy |-> "Recreate"].strategy = "Recreate"
    OBVIOUS
  <2>3. Typed
    OBVIOUS
  <2> HIDE DEF IInv
  <2> QED  BY <2>1, <2>2, <2>3, DeploymentTouched
<1>2. ASSUME NEW release \in Releases, Upgrade(release) \/ Rollback(release)
      PROVE  StrategyInv(s)'
  BY <1>2 DEF Upgrade, Rollback, Begin, StrategyInv
<1>3. ASSUME Applied \/ Failure
      PROVE  StrategyInv(s)'
  BY <1>3 DEF Applied, Failure, HelmFails, JobErrors, JobKilled, Abort,
     StrategyInv
<1>4. ASSUME HooksDone \/ TlsDone \/ \E v \in Services : StartJob(v)
      PROVE  StrategyInv(s)'
  BY <1>1, <1>4 DEF HooksDone, TlsDone, StartJob, StrategyInv, InHooks, helmVars
<1>5. ASSUME NEW v \in Services, TlsRollout(v) \/ ApplyDeployment(v)
      PROVE  StrategyInv(s)'
  BY <1>1, <1>5 DEF TlsRollout, ApplyDeployment, StrategyInv, InHooks, helmVars
<1>6. ASSUME force_recreate_strategy
      PROVE  StrategyInv(s)'
  <2>1. s = cur => dep'[s].strategy = "Recreate"
    BY <1>6, <1>0 DEF force_recreate_strategy, Typed, TypeOK, Deployment
  <2> QED  BY <1>1, <1>6, <2>1 DEF force_recreate_strategy, EndJob, StrategyInv,
              InHooks, helmVars
<1>7. ASSUME Job, ~force_recreate_strategy
      PROVE  StrategyInv(s)'
  BY <1>1, <1>7 DEF Job, WriterRunning, WriterStopped, WaitFails, Refuse, Abort,
     MakeGeneration, CopyDatabase, SealGeneration, OpenPointer, OpenTemporary,
     ReplacePointer, LoadBackup, ScaleToZero, StageRestore, UnlinkSidecars,
     ReplaceDatabase, OpenReceipt, ReplaceReceipt, Goto, EndJob, helmVars,
     OperationInv, StrategyInv, InHooks
<1>8. ASSUME NEW v \in Services, Controller(v) \/ Application(v)
      PROVE  StrategyInv(s)'
  BY <1>1, <1>8 DEF Controller, Application, StartPod, StopPod, ExitPod,
     EvictPod, OpenDatabase, Write, Checkpoint, helmVars, StrategyInv, InHooks
<1> QED  BY <1>2, <1>3, <1>4, <1>5, <1>6, <1>7, <1>8 DEF Next, Helm

\* A step that starts no pod leaves each with its template and its release.
LEMMA PodsTraced ==
  ASSUME Typed, NEW s \in Services,
         \/ s = cur /\ UnlinkSidecars
         \/ \E p \in pods[s] : \/ StopPod(s, p) \/ ExitPod(s, p)
                               \/ EvictPod(s, p) \/ OpenDatabase(s, p)
  PROVE  \A q \in pods'[s] :
           \E o \in pods[s] : /\ q.tpl = o.tpl /\ q.rel = o.rel
                              /\ q.draining \/ ~o.draining
<1>0. pods \in [Services -> SUBSET Pod] /\ pods[s] \subseteq Pod
  BY DEF Typed, TypeOK
<1>1. CASE s = cur /\ UnlinkSidecars
  <2>1. pods'[s] = {[p EXCEPT !.inode = 0, !.left = TRUE] : p \in pods[s]}
    BY <1>0, <1>1 DEF UnlinkSidecars, LeftBehind
  <2>2. ASSUME NEW o \in Pod
        PROVE  /\ [o EXCEPT !.inode = 0, !.left = TRUE].tpl = o.tpl
               /\ [o EXCEPT !.inode = 0, !.left = TRUE].rel = o.rel
               /\ [o EXCEPT !.inode = 0, !.left = TRUE].draining = o.draining
    BY DEF Pod
  <2> QED  BY <1>0, <2>1, <2>2
<1>2. ASSUME NEW p \in pods[s], StopPod(s, p) \/ EvictPod(s, p)
      PROVE  \A q \in pods'[s] :
               \E o \in pods[s] : /\ q.tpl = o.tpl /\ q.rel = o.rel
                                  /\ q.draining \/ ~o.draining
  <2>1. pods'[s] = (pods[s] \ {p}) \cup {[p EXCEPT !.draining = TRUE]}
    BY <1>0, <1>2 DEF StopPod, EvictPod, Drain
  <2>2. /\ [p EXCEPT !.draining = TRUE].tpl = p.tpl
        /\ [p EXCEPT !.draining = TRUE].rel = p.rel
        /\ [p EXCEPT !.draining = TRUE].draining
    BY <1>0 DEF Pod
  <2> QED  BY <2>1, <2>2
<1>3. ASSUME NEW p \in pods[s], ExitPod(s, p)
      PROVE  pods'[s] \subseteq pods[s]
  BY <1>0, <1>3 DEF ExitPod
<1>4. ASSUME NEW p \in pods[s], OpenDatabase(s, p)
      PROVE  \A q \in pods'[s] :
               \E o \in pods[s] : /\ q.tpl = o.tpl /\ q.rel = o.rel
                                  /\ q.draining \/ ~o.draining
  <2> DEFINE opened == [p EXCEPT !.ready = TRUE, !.inode = db[s].inode]
  <2>1. pods'[s] = (pods[s] \ {p}) \cup {opened}
    BY <1>0, <1>4 DEF OpenDatabase
  <2>2. p \in Pod
    BY <1>0
  <2>3. /\ opened.tpl = p.tpl /\ opened.rel = p.rel
        /\ opened.draining = p.draining
    BY ONLY <2>2 DEF Pod
  <2> QED  BY <2>1, <2>3
<1> QED  BY <1>1, <1>2, <1>3, <1>4

\* Pods of two templates never run side by side.
LEMMA TemplateNext ==
  ASSUME IInv, Next, NEW s \in Services, TemplateInv(s), StrategyInv(s)
  PROVE  TemplateInv(s)'
<1> USE DEF IInv
<1>0. /\ dep[s] \in Deployment /\ dep'[s] \in Deployment
      /\ pods \in [Services -> SUBSET Pod] /\ pods[s] \subseteq Pod
  BY NextTyped DEF Typed, TypeOK
<1>1. CASE dep'[s] # dep[s]
  <2>1. UNCHANGED pods
    BY <1>1, DeploymentTouched
  <2>2. ASSUME dep'[s].tpl = dep[s].tpl, dep'[s].rel = dep[s].rel,
               dep[s].strategy = "Recreate" => dep'[s].strategy = "Recreate"
        PROVE  TemplateInv(s)'
    BY <2>1, <2>2 DEF TemplateInv
  <2>3. CASE TlsRollout(s) /\ dep'[s] = [dep[s] EXCEPT !.tpl = @ + 1]
    <3>1. op = "upgrade" /\ pc = "tls"
      BY <2>3 DEF TlsRollout, OperationInv
    <3>2. /\ dep'[s].strategy = "Recreate" /\ dep'[s].tpl = dep[s].tpl + 1
      BY <1>0, <2>3, <3>1 DEF StrategyInv, Deployment
    <3>3. \A p \in pods[s] : p.tpl <= dep'[s].tpl /\ p.tpl # dep'[s].tpl
      BY <1>0, <3>2 DEF TemplateInv, Deployment, Pod
    <3> QED  BY <2>1, <3>2, <3>3 DEF TemplateInv
  <2>4. CASE dep'[s] = [rel |-> target, tpl |-> dep[s].tpl + 1,
                        replicas |-> 1, strategy |-> "Recreate"]
    <3>1. dep'[s].strategy = "Recreate" /\ dep'[s].tpl = dep[s].tpl + 1
      BY <2>4
    <3>2. \A p \in pods[s] : p.tpl <= dep'[s].tpl /\ p.tpl # dep'[s].tpl
      BY <1>0, <3>1 DEF TemplateInv, Deployment, Pod
    <3> QED  BY <2>1, <3>1, <3>2 DEF TemplateInv
  <2>5. CASE dep'[s] = [dep[s] EXCEPT !.strategy = "Recreate"]
    BY <1>0, <2>2, <2>5 DEF Deployment
  <2>6. CASE dep'[s] = [dep[s] EXCEPT !.replicas = 0]
    BY <1>0, <2>2, <2>6 DEF Deployment
  <2> QED  BY <1>1, <2>3, <2>4, <2>5, <2>6, DeploymentTouched
<1>2. CASE dep'[s] = dep[s] /\ pods'[s] = pods[s]
  BY <1>2 DEF TemplateInv
<1>3. CASE dep'[s] = dep[s] /\ StartPod(s)
  <2> DEFINE new == [tpl |-> dep[s].tpl, rel |-> dep[s].rel, inode |-> 0,
                     ready |-> FALSE, draining |-> FALSE, left |-> FALSE]
  <2>1. pods'[s] = pods[s] \cup {new}
    BY <1>0, <1>3 DEF StartPod
  <2>2. \A p \in pods[s] : p.tpl = dep[s].tpl /\ p.rel = dep[s].rel
    BY <1>3 DEF StartPod, TemplateInv
  <2> QED  BY <1>0, <1>3, <2>1, <2>2 DEF TemplateInv, Deployment
<1>4. ASSUME dep'[s] = dep[s],
             \A q \in pods'[s] : \E o \in pods[s] :
               q.tpl = o.tpl /\ q.rel = o.rel
      PROVE  TemplateInv(s)'
  <2>1. ASSUME NEW q \in pods'[s]
        PROVE  /\ q.tpl <= dep[s].tpl
               /\ q.tpl = dep[s].tpl => q.rel = dep[s].rel
               /\ \A r \in pods'[s] : r.rel = q.rel
               /\ dep[s].strategy # "Recreate" => q.tpl = dep[s].tpl
    <3>1. PICK o \in pods[s] : q.tpl = o.tpl /\ q.rel = o.rel
      BY <1>4
    <3>2. ASSUME NEW r \in pods'[s]
          PROVE  r.rel = o.rel
      <4>1. PICK u \in pods[s] : r.rel = u.rel
        BY <1>4
      <4> QED  BY <4>1 DEF TemplateInv
    <3>3. o.tpl <= dep[s].tpl /\ (o.tpl = dep[s].tpl => o.rel = dep[s].rel)
          /\ (dep[s].strategy # "Recreate" => o.tpl = dep[s].tpl)
      BY DEF TemplateInv
    <3> QED  BY <3>1, <3>2, <3>3
  <2> QED  BY <1>4, <2>1 DEF TemplateInv
<1>5. CASE s = cur /\ UnlinkSidecars /\ dep'[s] = dep[s]
  BY <1>4, <1>5, PodsTraced
<1>6. ASSUME dep'[s] = dep[s], NEW p \in pods[s],
             StopPod(s, p) \/ ExitPod(s, p) \/ EvictPod(s, p)
               \/ OpenDatabase(s, p)
      PROVE  TemplateInv(s)'
  BY <1>4, <1>6, PodsTraced
<1>7. ASSUME NEW p \in pods[s], Write(s, p) \/ Checkpoint(s, p)
      PROVE  pods'[s] = pods[s]
  BY <1>7 DEF Write, Checkpoint
<1>8. CASE ReplaceDatabase
  BY <1>2, <1>1, <1>8 DEF ReplaceDatabase
<1> QED  BY <1>1, <1>2, <1>3, <1>5, <1>6, <1>7, <1>8, FilesTouched
         DEF Controller, Application

\* A replacement starts only when no other pod can still be serving.
LEMMA WriterNext ==
  ASSUME IInv, Next, NEW s \in Services, TemplateInv(s), WriterInv(s)
  PROVE  WriterInv(s)'
<1> USE DEF IInv
<1>0. /\ pods \in [Services -> SUBSET Pod] /\ pods[s] \subseteq Pod
      /\ cur \in Services
  BY DEF Typed, TypeOK
<1>1. ASSUME application_pods(s)' \subseteq application_pods(s)
      PROVE  WriterInv(s)'
  BY <1>1 DEF WriterInv
<1>2. CASE pods'[s] = pods[s]
  BY <1>1, <1>2 DEF application_pods
<1>3. CASE StartPod(s)
  <2>1. application_pods(s) = {}
    BY <1>3 DEF StartPod, TemplateInv, application_pods
  <2>2. pods'[s] = pods[s] \cup
          {[tpl |-> dep[s].tpl, rel |-> dep[s].rel, inode |-> 0,
            ready |-> FALSE, draining |-> FALSE, left |-> FALSE]}
    BY <1>0, <1>3 DEF StartPod
  <2> QED  BY <2>1, <2>2 DEF application_pods, WriterInv
<1>4. ASSUME NEW p \in pods[s], StopPod(s, p) \/ EvictPod(s, p)
      PROVE  WriterInv(s)'
  <2>1. pods'[s] = (pods[s] \ {p}) \cup {[p EXCEPT !.draining = TRUE]}
    BY <1>0, <1>4 DEF StopPod, EvictPod, Drain
  <2>2. [p EXCEPT !.draining = TRUE].draining
    BY <1>0 DEF Pod
  <2> QED  BY <1>1, <2>1, <2>2 DEF application_pods
<1>5. ASSUME NEW p \in pods[s], ExitPod(s, p)
      PROVE  WriterInv(s)'
  BY <1>0, <1>1, <1>5 DEF ExitPod, application_pods
<1>6. ASSUME NEW p \in pods[s], OpenDatabase(s, p)
      PROVE  WriterInv(s)'
  <2> DEFINE opened == [p EXCEPT !.ready = TRUE, !.inode = db[s].inode]
  <2>1. pods'[s] = (pods[s] \ {p}) \cup {opened}
    BY <1>0, <1>6 DEF OpenDatabase
  <2>2. p \in Pod
    BY <1>0
  <2>3. opened.draining = p.draining
    BY ONLY <2>2 DEF Pod
  <2>4. p \in application_pods(s) => application_pods(s) = {p}
    BY DEF WriterInv
  <2> HIDE DEF opened
  <2> QED  BY <2>1, <2>3, <2>4 DEF application_pods, WriterInv
<1>7. ASSUME NEW p \in pods[s], Write(s, p) \/ Checkpoint(s, p)
      PROVE  WriterInv(s)'
  BY <1>2, <1>7 DEF Write, Checkpoint
<1>8. CASE s = cur /\ UnlinkSidecars
  <2>1. application_pods(s) = {}
    BY <1>8 DEF UnlinkSidecars, RestoreInv, RestoreSteps, NoWriter
  <2> QED  BY <1>8, <2>1, PodsTraced DEF application_pods, WriterInv
<1>9. CASE ReplaceDatabase
  BY <1>2, <1>9 DEF ReplaceDatabase
<1> QED  BY <1>2, <1>3, <1>4, <1>5, <1>6, <1>7, <1>8, <1>9, FilesTouched
         DEF Controller, Application

LEMMA SingleNext ==
  ASSUME IInv, [Next]_vars, NEW s \in Services, SingleInv(s)
  PROVE  SingleInv(s)'
<1>1. CASE Next
  BY <1>1, TemplateNext, StrategyNext, WriterNext DEF SingleInv
<1>2. CASE UNCHANGED vars
  BY <1>2 DEF vars, dataVars, helmVars, SingleInv, TemplateInv, StrategyInv,
     WriterInv, application_pods, InHooks
<1> QED  BY <1>1, <1>2

\* At no moment has a service two pods that are not terminating, whatever
\* strategy the chart before this one ran under and whichever step of the hooks,
\* of the TLS rollout or of the upgrade is next (force_recreate_strategy).  A
\* terminating pod may still be connected beside its replacement.
THEOREM WritersAlone == Spec => []SingleWriter
<1> DEFINE Inv == \A s \in Services : SingleInv(s)
<1>1. Init => Inv
  BY InitSingle
<1>2. IInv /\ Inv /\ [Next]_vars => Inv'
  BY SingleNext
<1>3. ASSUME Inv
      PROVE  SingleWriter
  <2>1. ASSUME NEW s \in Services
        PROVE  Cardinality(application_pods(s)) <= 1
    <3>1. CASE application_pods(s) = {}
      BY <3>1, FS_EmptySet
    <3>2. ASSUME NEW p \in application_pods(s)
          PROVE  Cardinality(application_pods(s)) <= 1
      <4>1. application_pods(s) = {p}
        BY <1>3, <3>2 DEF SingleInv, WriterInv
      <4> QED  BY <4>1, FS_Singleton
    <3> QED  BY <3>1, <3>2
  <2> QED  BY <2>1 DEF SingleWriter
<1> QED  BY Inductive, <1>1, <1>2, <1>3, PTL DEF Spec

(***************************************************************************)
(* What a running service finds in its database.                           *)
(*                                                                         *)
(* A restore that is killed between the unlinking of the journal and the   *)
(* replacement of the file leaves less than was committed; but nobody can  *)
(* connect until a later rollback has restored the service.                *)
(***************************************************************************)
MigrationInv(s) ==
    \A p \in pods[s] : ~p.left \/ p.inode = db[s].inode
                         => Content(db[s]).rel <= p.rel

Interrupted(s) ==
    /\ Detached(s)
    /\ \/ pc = "idle"
       \/ /\ InHooks /\ s \in todo
          /\ s = cur => pc \in {"hooks", "wait-one"} \cup
                               (RestoreSteps \ {"receipt-tmp", "receipt"})

CommitInv(s) == Content(db[s]) = committed[s] \/ Interrupted(s)

FloorInv(s) == op = "upgrade" => /\ floor[s].rel <= committed[s].rel
                                 /\ floor[s].commits <= committed[s].commits

DataInv(s) == MigrationInv(s) /\ CommitInv(s) /\ FloorInv(s)

LEMMA InitData == ASSUME Init, NEW s \in Services PROVE DataInv(s)
<1>1. /\ pods[s] = {FirstPod} /\ committed[s] = FirstData /\ op = "none"
      /\ db[s] = [inode |-> 1, main |-> FirstData, wal |-> NoData, of |-> 1]
  BY DEF Init
<1>2. FirstPod.rel = FirstRelease /\ FirstData.rel = FirstRelease
      /\ FirstRelease \in Nat
  BY UpgradeAssumption DEF FirstPod, FirstData
<1>3. Content(db[s]) = FirstData
  BY <1>1 DEF Content
<1> QED  BY <1>1, <1>2, <1>3 DEF DataInv, MigrationInv, CommitInv, FloorInv

\* What opening a database, writing to it and checkpointing its journal do.
LEMMA ContentWritten ==
  ASSUME Typed, NEW s \in Services, Migrated(s), NEW p \in pods[s],
         OpenDatabase(s, p) \/ Write(s, p) \/ Checkpoint(s, p)
  PROVE  /\ db'[s].inode = db[s].inode
         /\ \/ /\ Content(db'[s]) = Content(db[s])
               /\ committed'[s] = committed[s]
            \/ /\ Write(s, p) /\ Content(db'[s]) = committed'[s]
               /\ committed'[s].rel = Content(db[s]).rel
               /\ committed'[s].commits = Content(db[s]).commits + 1
            \/ /\ OpenDatabase(s, p) /\ Content(db'[s]) = committed'[s]
               /\ committed'[s].rel = p.rel /\ Content(db[s]).rel < p.rel
               /\ committed'[s].commits = Content(db[s]).commits
<1> DEFINE c == Content(db[s])
<1>0. /\ db \in [Services -> File] /\ committed \in [Services -> Data]
      /\ db[s] \in File /\ c \in Data /\ p \in Pod
  BY DEF Typed, TypeOK, Content, File
<1>1. 0 < c.rel /\ c.rel \in Nat /\ p.rel \in Nat
  BY <1>0 DEF Migrated, Content, Data, Pod
<1>2. ASSUME NEW data \in Data, 0 < data.rel, Commit(s, data)
      PROVE  /\ db'[s].inode = db[s].inode /\ committed'[s] = data
             /\ Content(db'[s]) = data
  <2>1. /\ db'[s] = [db[s] EXCEPT !.wal = data, !.of = db[s].inode]
        /\ committed'[s] = data
    BY <1>0, <1>2 DEF Commit
  <2>2. db'[s].inode = db[s].inode /\ db'[s].wal = data
    BY ONLY <1>0, <2>1 DEF File
  <2>3. data # NoData
    BY <1>2 DEF NoData
  <2> QED  BY <2>1, <2>2, <2>3 DEF Content
<1>3. CASE OpenDatabase(s, p) /\ c.rel < p.rel
  <2>1. /\ [c EXCEPT !.rel = p.rel] \in Data
        /\ [c EXCEPT !.rel = p.rel].rel = p.rel
        /\ [c EXCEPT !.rel = p.rel].commits = c.commits
    BY ONLY <1>0, <1>1 DEF Data
  <2>2. 0 < p.rel
    BY <1>1, <1>3
  <2>3. Commit(s, [c EXCEPT !.rel = p.rel])
    BY <1>3 DEF OpenDatabase
  <2> HIDE DEF c
  <2> QED  BY <1>2, <1>3, <2>1, <2>2, <2>3 DEF c
<1>4. CASE OpenDatabase(s, p) /\ ~(c.rel < p.rel)
  BY <1>4 DEF OpenDatabase, dataVars
<1>5. CASE Write(s, p)
  <2>1. /\ [c EXCEPT !.commits = c.commits + 1] \in Data
        /\ [c EXCEPT !.commits = c.commits + 1].rel = c.rel
        /\ [c EXCEPT !.commits = c.commits + 1].commits = c.commits + 1
    BY ONLY <1>0 DEF Data
  <2>2. Commit(s, [c EXCEPT !.commits = c.commits + 1])
    BY <1>5 DEF Write
  <2> QED  BY <1>1, <1>2, <1>5, <2>1, <2>2
<1>6. CASE Checkpoint(s, p)
  <2>1. /\ db'[s] = [db[s] EXCEPT !.main = db[s].wal, !.wal = NoData]
        /\ db[s].wal # NoData /\ UNCHANGED committed
    BY <1>0, <1>6 DEF Checkpoint
  <2>2. /\ db'[s].inode = db[s].inode /\ db'[s].main = db[s].wal
        /\ db'[s].wal = NoData
    BY ONLY <1>0, <2>1 DEF File
  <2> QED  BY <2>1, <2>2 DEF Content
<1> QED  BY <1>3, <1>4, <1>5, <1>6

\* Nobody is connected to a detached database.
LEMMA DetachedUnread ==
  ASSUME NEW s \in Services, Migrated(s), NotAhead(s), Detached(s),
         NEW p \in pods[s]
  PROVE  p.left /\ ~Connected(s, p) /\ p \notin application_pods(s)
  BY DEF Migrated, NotAhead, Detached, Connected, application_pods

\* The database a pod is, or will be, connected to is not of a later release.
LEMMA MigrationNext ==
  ASSUME ~LateOpens, IInv, Next, NEW s \in Services, TemplateInv(s), MigrationInv(s)
  PROVE  MigrationInv(s)'
<1> USE DEF IInv
<1>0. /\ pods \in [Services -> SUBSET Pod] /\ pods[s] \subseteq Pod
      /\ cur \in Services /\ Migrated(s) /\ Migrated(s)'
      /\ NotAhead(s) /\ NotAhead(s)' /\ RestoreInv'
      /\ dep[s] \in Deployment
  BY MigratedNext, NotAheadNext, RestoreNext DEF Typed, TypeOK
<1>1. CASE UNCHANGED <<db[s], committed[s], pods[s]>>
  BY <1>1 DEF MigrationInv
<1>2. ASSUME Detached(s)'
      PROVE  MigrationInv(s)'
  BY <1>0, <1>2 DEF MigrationInv, Detached, Migrated, NotAhead
<1>3. CASE s = cur /\ UnlinkSidecars
  <2>1. pc' = "replace" /\ cur' = cur
    BY <1>3 DEF UnlinkSidecars, Goto
  <2>2. Detached(cur)'
    BY <1>0, <2>1 DEF RestoreInv
  <2> QED  BY <1>2, <1>3, <2>1, <2>2 DEF Detached
<1>4. CASE s = cur /\ ReplaceDatabase
  <2>1. Detached(s)
    BY <1>4 DEF ReplaceDatabase, RestoreInv
  <2> QED  BY <1>2, <1>4, <2>1 DEF ReplaceDatabase, Detached
<1>5. CASE StartPod(s)
  <2>1. /\ pods'[s] = pods[s] \cup
             {[tpl |-> dep[s].tpl, rel |-> dep[s].rel, inode |-> 0,
               ready |-> FALSE, draining |-> FALSE, left |-> FALSE]}
        /\ UNCHANGED db
    BY <1>0, <1>5 DEF StartPod, dataVars
  <2>2. Content(db[s]).rel <= dep[s].rel
    BY <1>0 DEF NotAhead, Content
  <2> QED  BY <2>1, <2>2 DEF MigrationInv
<1>6. ASSUME NEW p \in pods[s], StopPod(s, p) \/ EvictPod(s, p)
      PROVE  MigrationInv(s)'
  <2>1. /\ pods'[s] = (pods[s] \ {p}) \cup {[p EXCEPT !.draining = TRUE]}
        /\ UNCHANGED db
    BY <1>0, <1>6 DEF StopPod, EvictPod, Drain, dataVars
  <2>2. /\ [p EXCEPT !.draining = TRUE].left = p.left
        /\ [p EXCEPT !.draining = TRUE].inode = p.inode
        /\ [p EXCEPT !.draining = TRUE].rel = p.rel
    BY <1>0 DEF Pod
  <2> QED  BY <2>1, <2>2 DEF MigrationInv
<1>7. ASSUME NEW p \in pods[s], ExitPod(s, p)
      PROVE  MigrationInv(s)'
  BY <1>0, <1>7 DEF ExitPod, dataVars, MigrationInv
<1>8. ASSUME NEW p \in pods[s], OpenDatabase(s, p)
      PROVE  MigrationInv(s)'
  <2> DEFINE opened == [p EXCEPT !.ready = TRUE, !.inode = db[s].inode]
  <2>1. pods'[s] = (pods[s] \ {p}) \cup {opened}
    BY <1>0, <1>8 DEF OpenDatabase
  <2>2. p \in Pod /\ ~p.left
    BY <1>0, <1>8 DEF OpenDatabase
  <2>3. opened.rel = p.rel
    BY ONLY <2>2 DEF Pod
  <2>4. \A q \in pods[s] : q.rel = p.rel
    BY DEF TemplateInv
  <2>5. db'[s].inode = db[s].inode /\ Content(db'[s]).rel <= p.rel
    <3>1. Content(db[s]).rel <= p.rel
      BY <2>2 DEF MigrationInv
    <3>2. p.rel <= p.rel
      BY ONLY <2>2 DEF Pod
    <3> QED  BY <1>0, <1>8, <3>1, <3>2, ContentWritten
  <2> HIDE DEF opened
  <2> QED  BY <2>1, <2>3, <2>4, <2>5 DEF MigrationInv
<1>9. ASSUME NEW p \in pods[s], Write(s, p) \/ Checkpoint(s, p)
      PROVE  MigrationInv(s)'
  <2>1. pods' = pods
    BY <1>9 DEF Write, Checkpoint
  <2>2. ~OpenDatabase(s, p)
    BY <1>9 DEF OpenDatabase, Write, Checkpoint, Connected
  <2>3. /\ db'[s].inode = db[s].inode
        /\ \/ Content(db'[s]).rel = Content(db[s]).rel
           \/ OpenDatabase(s, p)
    BY <1>0, <1>9, ContentWritten
  <2> QED  BY <2>1, <2>2, <2>3 DEF MigrationInv
<1> QED  BY <1>1, <1>3, <1>4, <1>5, <1>6, <1>7, <1>8, <1>9, FilesTouched
         DEF Controller, Application

\* An interrupted restore stays interrupted until a later one comes to it: no
\* backup, no TLS rollout and no release reaches the service.
LEMMA InterruptedStays ==
  ASSUME IInv, Next, NEW s \in Services, Interrupted(s),
         UNCHANGED <<db[s], committed[s], pods[s]>>
  PROVE  Interrupted(s)'
<1> USE DEF IInv, JobSteps, BackupSteps, RestoreSteps
<1>0. dep[s] \in Deployment
  BY DEF Typed, TypeOK
<1>1. Detached(s)'
  <2>1. ~TlsRollout(s) /\ ~ApplyDeployment(s)
    BY DEF Interrupted, InHooks, TlsRollout, ApplyDeployment
  <2>2. dep'[s].replicas = dep[s].replicas \/ dep'[s].replicas = 0
    <3>1. /\ [dep[s] EXCEPT !.strategy = "Recreate"].replicas = dep[s].replicas
          /\ [dep[s] EXCEPT !.replicas = 0].replicas = 0
      BY ONLY <1>0 DEF Deployment
    <3>2. Typed
      OBVIOUS
    <3> HIDE DEF IInv
    <3> QED  BY <2>1, <3>1, <3>2, DeploymentTouched
  <2> QED  BY <2>2 DEF Interrupted, Detached
<1>2. ASSUME pc' = "idle"
      PROVE  Interrupted(s)'
  BY <1>1, <1>2 DEF Interrupted
<1>3. ASSUME NEW release \in Releases, Upgrade(release) \/ Rollback(release)
      PROVE  Interrupted(s)'
  BY <1>1, <1>3 DEF Upgrade, Rollback, Begin, Interrupted, InHooks
<1>4. ASSUME Applied \/ Failure
      PROVE  Interrupted(s)'
  BY <1>2, <1>4 DEF Applied, Failure, HelmFails, JobErrors, JobKilled, Abort
<1>5. ASSUME HooksDone \/ TlsDone
             \/ \E v \in Services : TlsRollout(v) \/ ApplyDeployment(v)
      PROVE  FALSE
  BY <1>5 DEF HooksDone, TlsDone, TlsRollout, ApplyDeployment, Interrupted,
     InHooks
<1>6. ASSUME NEW v \in Services, StartJob(v)
      PROVE  Interrupted(s)'
  BY <1>1, <1>6 DEF StartJob, Interrupted, InHooks
<1>7. ~(s = cur /\ WriterRunning)
  <2>1. application_pods(s) = {}
    BY DEF Interrupted, Detached, Migrated, application_pods
  <2> QED  BY <2>1, FS_EmptySet DEF WriterRunning, OneWriter
<1>8. ASSUME \/ WriterRunning \/ MakeGeneration \/ CopyDatabase
             \/ SealGeneration \/ OpenPointer \/ ReplacePointer
             \/ force_recreate_strategy
      PROVE  Interrupted(s)'
  BY <1>1, <1>2, <1>7, <1>8 DEF WriterRunning, MakeGeneration, CopyDatabase,
     SealGeneration, OpenPointer, ReplacePointer, force_recreate_strategy,
     OpenTemporary, Refuse, Abort, Goto, EndJob, helmVars, OperationInv,
     Interrupted, InHooks
<1>9. ASSUME \/ WriterStopped \/ WaitFails \/ LoadBackup \/ ScaleToZero
             \/ StageRestore \/ UnlinkSidecars \/ OpenReceipt \/ ReplaceReceipt
      PROVE  Interrupted(s)'
  BY <1>1, <1>2, <1>9 DEF WriterStopped, WaitFails, LoadBackup, ScaleToZero,
     StageRestore, UnlinkSidecars, OpenReceipt, ReplaceReceipt, OpenTemporary,
     Refuse, Abort, Goto, EndJob, helmVars, OperationInv, Interrupted, InHooks
<1>10. ASSUME ReplaceDatabase
       PROVE  Interrupted(s)'
  <2>1. s # cur
    <3>1. db[s] \in File /\ db \in [Services -> File]
      BY DEF Typed, TypeOK
    <3>2. s = cur => db'[s] = [db[s] EXCEPT !.inode = @ + 1,
                                   !.main = gens[cur][loaded].data]
      BY <1>10, <3>1 DEF ReplaceDatabase
    <3>3. s = cur => db'[s].inode = db[s].inode + 1 /\ db[s].inode \in Nat
      BY ONLY <3>1, <3>2 DEF File
    <3> QED  BY <3>3
  <2> QED  BY <1>1, <1>10, <2>1 DEF ReplaceDatabase, Goto, helmVars,
              OperationInv, Interrupted, InHooks
<1>11. ASSUME NEW v \in Services, Controller(v) \/ Application(v)
       PROVE  Interrupted(s)'
  BY <1>1, <1>11 DEF Controller, Application, StartPod, StopPod, ExitPod,
     EvictPod, OpenDatabase, Write, Checkpoint, helmVars, Interrupted, InHooks
<1> QED  BY <1>3, <1>4, <1>5, <1>6, <1>8, <1>9, <1>10, <1>11
         DEF Next, Helm, Job

\* What was committed stays readable, or the restore is not over.
LEMMA CommitNext ==
  ASSUME ~LateOpens, IInv, Next, NEW s \in Services, CommitInv(s)
  PROVE  CommitInv(s)'
<1> USE DEF IInv
<1>0. /\ Migrated(s) /\ NotAhead(s) /\ RestoreInv' /\ db[s] \in File
      /\ db \in [Services -> File] /\ committed \in [Services -> Data]
      /\ cur \in Services
  BY RestoreNext DEF Typed, TypeOK
<1>1. CASE UNCHANGED <<db[s], committed[s], pods[s]>>
  BY <1>1, InterruptedStays DEF CommitInv
<1>2. CASE s = cur /\ UnlinkSidecars
  <2>1. pc' = "replace" /\ cur' = cur /\ todo' = todo /\ s \in todo
    BY <1>2 DEF UnlinkSidecars, Goto, OperationInv, JobSteps, RestoreSteps
  <2>2. Detached(s)'
    BY <1>0, <1>2, <2>1 DEF RestoreInv, RestoreSteps, Detached
  <2> QED  BY <1>2, <2>1, <2>2
           DEF CommitInv, Interrupted, InHooks, JobSteps, RestoreSteps
<1>3. CASE s = cur /\ ReplaceDatabase
  <2> DEFINE backup == gens[cur][loaded].data
  <2>1. /\ db'[s] = [db[s] EXCEPT !.inode = db[s].inode + 1, !.main = backup]
        /\ committed'[s] = backup /\ db[s].wal = NoData
    BY <1>0, <1>3 DEF ReplaceDatabase, RestoreInv
  <2>2. db'[s].main = backup /\ db'[s].wal = NoData
    BY ONLY <1>0, <2>1 DEF File
  <2> QED  BY <2>1, <2>2 DEF CommitInv, Content
<1>4. ASSUME UNCHANGED <<dep, pc, todo, cur>>, Controller(s) \/ Application(s)
      PROVE  CommitInv(s)'
  <2>1. CASE Interrupted(s)
    BY <1>0, <1>4, <2>1, DetachedStays DEF CommitInv, Interrupted, InHooks
  <2>2. CASE Content(db[s]) = committed[s]
    <3>1. ASSUME NEW p \in pods[s],
                 OpenDatabase(s, p) \/ Write(s, p) \/ Checkpoint(s, p)
          PROVE  Content(db'[s]) = committed'[s]
      BY <1>0, <2>2, <3>1, ContentWritten
    <3>2. ASSUME NEW p \in pods[s],
                 StopPod(s, p) \/ ExitPod(s, p) \/ EvictPod(s, p)
          PROVE  UNCHANGED <<db, committed>>
      BY <3>2 DEF StopPod, ExitPod, EvictPod, dataVars
    <3>3. CASE StartPod(s)
      BY <2>2, <3>3 DEF StartPod, dataVars, CommitInv
    <3> QED  BY <1>4, <2>2, <3>1, <3>2, <3>3
             DEF CommitInv, Controller, Application
  <2> QED  BY <2>1, <2>2 DEF CommitInv
<1>5. ASSUME Controller(s) \/ Application(s)
      PROVE  UNCHANGED <<dep, pc, todo, cur>>
  BY <1>5 DEF Controller, Application, StartPod, StopPod, ExitPod, EvictPod,
     OpenDatabase, Write, Checkpoint
<1> QED  BY <1>1, <1>2, <1>3, <1>4, <1>5, FilesTouched

\* An upgrade that is under way keeps its target, and what it began from.
LEMMA UpgradeKept ==
  ASSUME IInv, Next
  PROVE  \/ UNCHANGED <<op, target, floor, ops>>
         \/ op' = "none"
         \/ /\ floor' = committed /\ todo' = Services /\ pc' = "hooks"
            /\ UNCHANGED committed
<1>1. ASSUME NEW release \in Releases, Upgrade(release) \/ Rollback(release)
      PROVE  /\ floor' = committed /\ todo' = Services /\ pc' = "hooks"
             /\ UNCHANGED committed
  BY <1>1 DEF Upgrade, Rollback, Begin, dataVars
<1>2. CASE Helm \/ Failure
  BY <1>2 DEF Helm, StartJob, TlsRollout, ApplyDeployment, HooksDone, TlsDone,
     Applied, Failure, HelmFails, JobErrors, JobKilled, Abort, helmVars
<1>3. CASE Job
  BY <1>3 DEF Job, WriterRunning, WriterStopped, WaitFails, Refuse, Abort,
     MakeGeneration, CopyDatabase, SealGeneration, OpenPointer, OpenTemporary,
     ReplacePointer, force_recreate_strategy, LoadBackup, ScaleToZero,
     StageRestore, UnlinkSidecars, ReplaceDatabase, OpenReceipt,
     ReplaceReceipt, helmVars
<1>4. ASSUME NEW s \in Services, Controller(s) \/ Application(s)
      PROVE  UNCHANGED <<op, target, floor, ops>>
  BY <1>4 DEF Controller, Application, StartPod, StopPod, ExitPod, EvictPod,
     OpenDatabase, Write, Checkpoint, helmVars
<1> QED  BY <1>1, <1>2, <1>3, <1>4 DEF Next

\* No commit made before an upgrade is lost while it runs.
LEMMA FloorNext ==
  ASSUME ~LateOpens, IInv, Next, NEW s \in Services, CommitInv(s), FloorInv(s)
  PROVE  FloorInv(s)'
<1> USE DEF IInv
<1>0. /\ Migrated(s) /\ NotAhead(s) /\ cur \in Services
      /\ committed[s] \in Data /\ committed'[s] \in Data
      /\ floor[s] \in Data /\ floor'[s] \in Data
  BY NextTyped DEF Typed, TypeOK
<1>1. ASSUME UNCHANGED <<op, floor>>, op = "upgrade"
      PROVE  /\ committed[s].rel <= committed'[s].rel
             /\ committed[s].commits <= committed'[s].commits
  <2>1. CASE committed'[s] = committed[s]
    BY <1>0, <2>1 DEF Data
  <2>2. CASE s = cur /\ ReplaceDatabase
    BY <1>1, <2>2 DEF ReplaceDatabase, OperationInv, RestoreSteps
  <2>3. ASSUME NEW p \in pods[s],
               OpenDatabase(s, p) \/ Write(s, p) \/ Checkpoint(s, p),
               committed'[s] # committed[s]
        PROVE  /\ committed[s].rel <= committed'[s].rel
               /\ committed[s].commits <= committed'[s].commits
    <3>1. ~Interrupted(s)
      BY <1>0, <2>3, DetachedUnread
      DEF Interrupted, OpenDatabase, Write, Checkpoint
    <3>2. Content(db[s]) = committed[s]
      BY <3>1 DEF CommitInv
    <3>3. p \in Pod
      BY DEF Typed, TypeOK
    <3>4. \/ /\ committed'[s].rel = committed[s].rel
             /\ committed'[s].commits = committed[s].commits + 1
          \/ /\ committed[s].rel < committed'[s].rel
             /\ committed'[s].commits = committed[s].commits
      BY <1>0, <2>3, <3>2, ContentWritten
    <3> QED  BY <1>0, <3>4 DEF Data
  <2>4. CASE UnlinkSidecars
    BY <2>1, <2>4 DEF UnlinkSidecars
  <2>5. ASSUME NEW p \in pods[s], StopPod(s, p) \/ ExitPod(s, p) \/ EvictPod(s, p)
        PROVE  UNCHANGED committed
    BY <2>5 DEF StopPod, ExitPod, EvictPod, dataVars
  <2>6. CASE StartPod(s)
    BY <2>1, <2>6 DEF StartPod, dataVars
  <2> QED  BY <2>1, <2>2, <2>3, <2>4, <2>5, <2>6, FilesTouched
           DEF Controller, Application
<1>2. CASE UNCHANGED <<op, floor>>
  BY <1>0, <1>1, <1>2 DEF FloorInv, Data
<1>3. CASE floor' = committed /\ UNCHANGED committed
  BY <1>0, <1>3 DEF FloorInv, Data
<1>4. CASE op' = "none"
  BY <1>4 DEF FloorInv
<1> QED  BY <1>2, <1>3, <1>4, UpgradeKept

LEMMA DataNext ==
  ASSUME ~LateOpens, IInv, [Next]_vars, NEW s \in Services, SingleInv(s), DataInv(s)
  PROVE  DataInv(s)'
<1>1. CASE Next
  BY <1>1, MigrationNext, CommitNext, FloorNext DEF SingleInv, DataInv
<1>2. CASE UNCHANGED vars
  BY <1>2 DEF vars, dataVars, helmVars, DataInv, MigrationInv, CommitInv,
     FloorInv, Interrupted, Detached, InHooks
<1> QED  BY <1>1, <1>2

ServiceInv == \A s \in Services : SingleInv(s) /\ DataInv(s)

\* The inductive invariant of the services: which templates and releases their
\* pods are of, what these find in the database and what was committed
\* (services of both releases beside force_recreate_strategy and restore_database).
THEOREM ServicesSafe == ~LateOpens => (Spec => [](IInv /\ ServiceInv))
<1> SUFFICES ASSUME ~LateOpens
             PROVE  Spec => [](IInv /\ ServiceInv)
  OBVIOUS
<1>1. Init => ServiceInv
  BY InitSingle, InitData DEF ServiceInv
<1>2. IInv /\ ServiceInv /\ [Next]_vars => ServiceInv'
  BY SingleNext, DataNext DEF ServiceInv
<1> QED  BY Inductive, <1>1, <1>2, PTL DEF Spec

\* No pod, on its way out or not, is ever connected to a database that a later
\* release has migrated: not while an upgrade is rolled out, not after a
\* rollback, and not after either was interrupted (restore_database), as long as
\* no pod that a restore left behind opens the database by name again.
THEOREM NeverDowngraded == ~LateOpens => (Spec => []NoDowngrade)
<1> SUFFICES ASSUME ~LateOpens
             PROVE  Spec => []NoDowngrade
  OBVIOUS
<1>1. ServiceInv => NoDowngrade
  BY DEF ServiceInv, DataInv, MigrationInv, NoDowngrade, Connected
<1> QED  BY ServicesSafe, <1>1, PTL

\* What a connected service reads is what was last committed or restored: a
\* Job killed between unlinking a journal and replacing the file loses commits
\* only where nobody reads (restore_database), as long as no pod that a restore
\* left behind opens the database by name again.
THEOREM CommitsRead == ~LateOpens => (Spec => []ReadsCommitted)
<1> SUFFICES ASSUME ~LateOpens
             PROVE  Spec => []ReadsCommitted
  OBVIOUS
<1>1. IInv /\ ServiceInv => ReadsCommitted
  BY DetachedUnread DEF IInv, ServiceInv, DataInv, CommitInv, Interrupted,
     ReadsCommitted
<1> QED  BY ServicesSafe, <1>1, PTL

(***************************************************************************)
(* The backup an upgrade stands on.                                        *)
(***************************************************************************)
Bind(s) == gens[s][ops].source = dep[s].rel /\ gens[s][ops].target = target

Covers(s) == /\ gens[s][ops].data.rel >= floor[s].rel
             /\ gens[s][ops].data.commits >= floor[s].commits

\* The generation being made: bound first, then copied.
MakingInv ==
    /\ pc \in {"copy", "seal", "pointer-tmp", "point"} => Bind(cur)
    /\ pc \in {"seal", "pointer-tmp", "point"} => Covers(cur)

Protected(s) ==
    Bind(s) /\ Covers(s) /\ pointer[s] = ops /\ gens[s][ops].stage = "sealed"

\* The services an upgrade has backed up and not yet replaced.
IsProtected(s) ==
    \/ InHooks /\ s \notin todo
    \/ pc = "strategy" /\ s = cur
    \/ pc = "tls"
    \/ pc = "apply" /\ s \in todo

ProtectInv(s) == op = "upgrade" /\ IsProtected(s) => Protected(s)

\* The copy is bound to the live release and holds every commit from before.
LEMMA MakingNext ==
  ASSUME ~LateOpens, IInv, ServiceInv, MakingInv, Next
  PROVE  MakingInv'
<1> USE DEF IInv, JobSteps, BackupSteps, RestoreSteps
<1>1. ASSUME pc' \notin {"copy", "seal", "pointer-tmp", "point"}
      PROVE  MakingInv'
  BY <1>1 DEF MakingInv
<1>2. /\ cur \in Services /\ dep[cur] \in Deployment /\ db[cur] \in File
      /\ gens \in [Services -> [Operations -> Generation]]
      /\ committed[cur] \in Data /\ floor[cur] \in Data
  BY DEF Typed, TypeOK
<1>3. ASSUME MakeGeneration
      PROVE  MakingInv'
  BY <1>2, <1>3 DEF MakeGeneration, Goto, helmVars, Typed, Counted, MakingInv,
     Bind
<1>4. ASSUME CopyDatabase
      PROVE  MakingInv'
  <2>1. /\ gens'[cur][ops].source = gens[cur][ops].source
        /\ gens'[cur][ops].target = gens[cur][ops].target
        /\ gens'[cur][ops].data = Content(db[cur])
        /\ pc = "copy" /\ pc' = "seal"
        /\ UNCHANGED <<cur, ops, dep, target, floor>>
    BY <1>2, <1>4 DEF CopyDatabase, Goto, helmVars, Typed, Counted, Generation
  <2>2. Content(db[cur]) = committed[cur]
    BY <1>2, <2>1 DEF ServiceInv, DataInv, CommitInv, Interrupted
  <2>3. op = "upgrade"
    BY <2>1 DEF OperationInv
  <2>4. /\ committed[cur].rel >= floor[cur].rel
        /\ committed[cur].commits >= floor[cur].commits
    BY <1>2, <2>3 DEF ServiceInv, DataInv, FloorInv, Data
  <2> QED  BY <2>1, <2>2, <2>4 DEF MakingInv, Bind, Covers
<1>5. ASSUME SealGeneration
      PROVE  MakingInv'
  <2>1. /\ gens'[cur][ops] = [gens[cur][ops] EXCEPT !.stage = "sealed"]
        /\ pc = "seal" /\ pc' = "pointer-tmp"
        /\ UNCHANGED <<cur, ops, dep, target, floor>>
        /\ gens[cur][ops] \in Generation
    BY <1>2, <1>5 DEF SealGeneration, Goto, helmVars, Typed, Counted
  <2>2. /\ gens'[cur][ops].source = gens[cur][ops].source
        /\ gens'[cur][ops].target = gens[cur][ops].target
        /\ gens'[cur][ops].data = gens[cur][ops].data
    BY ONLY <2>1 DEF Generation
  <2> QED  BY <2>1, <2>2 DEF MakingInv, Bind, Covers
<1>6. CASE OpenPointer
  BY <1>1, <1>6 DEF OpenPointer, OpenTemporary, Refuse, Abort, Goto, helmVars,
     MakingInv, Bind, Covers
<1>7. ASSUME NEW s \in Services, Controller(s) \/ Application(s)
      PROVE  MakingInv'
  BY <1>7 DEF Controller, Application, StartPod, StopPod, ExitPod, EvictPod,
     OpenDatabase, Write, Checkpoint, helmVars, backupVars, MakingInv, Bind,
     Covers
<1>8. ASSUME NEW release \in Releases, Upgrade(release) \/ Rollback(release)
      PROVE  MakingInv'
  BY <1>1, <1>8 DEF Upgrade, Rollback, Begin
<1>9. CASE Helm \/ Failure
  BY <1>1, <1>9 DEF Helm, StartJob, TlsRollout, ApplyDeployment, HooksDone,
     TlsDone, Applied, Failure, HelmFails, JobErrors, JobKilled, Abort
<1>10. CASE WriterRunning \/ WriterStopped \/ WaitFails \/ ReplacePointer
            \/ force_recreate_strategy
  BY <1>1, <1>10 DEF WriterRunning, WriterStopped, WaitFails, ReplacePointer,
     force_recreate_strategy, Refuse, Abort, Goto, EndJob
<1>11. CASE LoadBackup \/ ScaleToZero \/ StageRestore \/ UnlinkSidecars
            \/ ReplaceDatabase \/ OpenReceipt \/ ReplaceReceipt
  BY <1>1, <1>11 DEF LoadBackup, ScaleToZero, StageRestore, UnlinkSidecars,
     ReplaceDatabase, OpenReceipt, ReplaceReceipt, OpenTemporary, Refuse, Abort,
     Goto, EndJob
<1> QED  BY <1>3, <1>4, <1>5, <1>6, <1>7, <1>8, <1>9, <1>10, <1>11 DEF Next, Job

\* A service that has its backup keeps it until its Deployment is replaced.
LEMMA ProtectNext ==
  ASSUME ~LateOpens, IInv, MakingInv, Next, NEW s \in Services, ProtectInv(s)
  PROVE  ProtectInv(s)'
<1> USE DEF IInv, JobSteps, BackupSteps, RestoreSteps
<1>0. /\ cur \in Services /\ dep \in [Services -> Deployment]
      /\ gens \in [Services -> [Operations -> Generation]]
      /\ pointer \in [Services -> {0} \cup Operations]
  BY DEF Typed, TypeOK
<1>1. ASSUME IsProtected(s)' => IsProtected(s), gens'[s] = gens[s],
             pointer'[s] = pointer[s], dep'[s].rel = dep[s].rel,
             UNCHANGED <<op, target, floor, ops>>
      PROVE  ProtectInv(s)'
  BY <1>1 DEF ProtectInv, Protected, Bind, Covers
<1>2. ASSUME op' # "upgrade"
      PROVE  ProtectInv(s)'
  BY <1>2 DEF ProtectInv
<1>3. ASSUME NEW release \in Releases, Upgrade(release) \/ Rollback(release)
      PROVE  ProtectInv(s)'
  BY <1>3 DEF Upgrade, Rollback, Begin, ProtectInv, IsProtected, InHooks
<1>4. ASSUME Applied \/ Failure
      PROVE  ProtectInv(s)'
  BY <1>2, <1>4 DEF Applied, Failure, HelmFails, JobErrors, JobKilled, Abort
<1>5. ASSUME HooksDone \/ TlsDone \/ \E v \in Services : StartJob(v)
      PROVE  ProtectInv(s)'
  <2>1. UNCHANGED <<op, target, floor, ops, gens, pointer, dep>>
    BY <1>5 DEF HooksDone, TlsDone, StartJob, helmVars, backupVars
  <2>2. op = "upgrade" /\ IsProtected(s)' => IsProtected(s)
    BY <1>5 DEF HooksDone, TlsDone, StartJob, IsProtected, InHooks
  <2> QED  BY <1>1, <1>2, <2>1, <2>2
<1>6. ASSUME NEW v \in Services, TlsRollout(v)
      PROVE  ProtectInv(s)'
  <2>1. dep'[s].rel = dep[s].rel
    BY <1>0, <1>6 DEF TlsRollout, Deployment
  <2> QED  BY <1>1, <1>6, <2>1 DEF TlsRollout, helmVars, backupVars,
              IsProtected, InHooks
<1>7. ASSUME NEW v \in Services, ApplyDeployment(v)
      PROVE  ProtectInv(s)'
  <2>1. s # v => dep'[s] = dep[s]
    BY <1>0, <1>7 DEF ApplyDeployment
  <2>2. /\ pc = "apply" /\ pc' = pc /\ todo' = todo \ {v}
        /\ UNCHANGED <<op, target, floor, ops, gens, pointer>>
    BY <1>7 DEF ApplyDeployment, backupVars
  <2>3. IsProtected(s)' => IsProtected(s) /\ s # v
    BY <2>2 DEF IsProtected, InHooks
  <2> QED  BY <1>1, <2>1, <2>2, <2>3 DEF ProtectInv
<1>8. ASSUME MakeGeneration \/ CopyDatabase \/ SealGeneration
      PROVE  ProtectInv(s)'
  <2>1. /\ pc \in {"mkdir", "copy", "seal"} /\ cur \in todo
        /\ pc' \in {"copy", "seal", "pointer-tmp"}
        /\ UNCHANGED <<op, target, floor, ops, pointer, dep, todo, cur>>
    BY <1>8 DEF MakeGeneration, CopyDatabase, SealGeneration, Goto, helmVars,
       OperationInv
  <2>2. IsProtected(s)' => IsProtected(s) /\ s # cur
    BY <2>1 DEF IsProtected, InHooks
  <2>3. s # cur => gens'[s] = gens[s]
    BY <1>0, <1>8 DEF MakeGeneration, CopyDatabase, SealGeneration
  <2> QED  BY <1>1, <2>1, <2>2, <2>3 DEF ProtectInv
<1>9. ASSUME ReplacePointer
      PROVE  ProtectInv(s)'
  <2>1. /\ pc = "point" /\ pc' = "strategy" /\ cur \in todo
        /\ UNCHANGED <<op, target, floor, ops, gens, dep, todo, cur>>
        /\ pointer' = [pointer EXCEPT ![cur] = ops]
    BY <1>9 DEF ReplacePointer, Goto, helmVars, OperationInv
  <2>2. CASE s = cur
    <3>1. Bind(s) /\ Covers(s) /\ gens[s][ops].stage = "sealed"
      BY <2>1, <2>2 DEF MakingInv, BackupInv, Verified
    <3>2. pointer'[s] = ops
      BY <1>0, <2>1, <2>2
    <3> QED  BY <2>1, <3>1, <3>2 DEF ProtectInv, Protected, Bind, Covers
  <2>3. CASE s # cur
    <3>1. pointer'[s] = pointer[s]
      BY <1>0, <2>1, <2>3
    <3>2. IsProtected(s)' => IsProtected(s)
      BY <2>1, <2>3 DEF IsProtected, InHooks
    <3> QED  BY <1>1, <2>1, <3>1, <3>2
  <2> QED  BY <2>2, <2>3
<1>10. ASSUME force_recreate_strategy
       PROVE  ProtectInv(s)'
  <2>1. dep'[s].rel = dep[s].rel
    BY <1>0, <1>10 DEF force_recreate_strategy, Deployment
  <2>2. /\ pc = "strategy" /\ pc' = "hooks" /\ todo' = todo \ {cur}
        /\ UNCHANGED <<op, target, floor, ops, gens, pointer, cur>>
    BY <1>10 DEF force_recreate_strategy, EndJob, helmVars, backupVars
  <2>3. IsProtected(s)' => IsProtected(s)
    BY <2>2 DEF IsProtected, InHooks
  <2> QED  BY <1>1, <2>1, <2>2, <2>3
<1>11. ASSUME WriterRunning \/ OpenPointer \/ WaitFails
       PROVE  ProtectInv(s)'
  BY <1>1, <1>2, <1>11 DEF WriterRunning, OpenPointer, OpenTemporary, WaitFails,
     Refuse, Abort, Goto, helmVars, backupVars, IsProtected, InHooks
<1>12. ASSUME \/ WriterStopped \/ LoadBackup \/ ScaleToZero \/ StageRestore
              \/ UnlinkSidecars \/ ReplaceDatabase \/ OpenReceipt
              \/ ReplaceReceipt
       PROVE  ProtectInv(s)'
  BY <1>2, <1>12 DEF WriterStopped, LoadBackup, ScaleToZero, StageRestore,
     UnlinkSidecars, ReplaceDatabase, OpenReceipt, ReplaceReceipt,
     OpenTemporary, Refuse, Abort, helmVars, OperationInv
<1>13. ASSUME NEW v \in Services, Controller(v) \/ Application(v)
       PROVE  ProtectInv(s)'
  BY <1>1, <1>13 DEF Controller, Application, StartPod, StopPod, ExitPod,
     EvictPod, OpenDatabase, Write, Checkpoint, helmVars, backupVars,
     IsProtected, InHooks
<1> QED  BY <1>3, <1>4, <1>5, <1>6, <1>7, <1>8, <1>9, <1>10, <1>11, <1>12,
            <1>13 DEF Next, Helm, Job

BackedUp == MakingInv /\ \A s \in Services : ProtectInv(s)

LEMMA BackedUpHeld == ~LateOpens => (Spec => []BackedUp)
<1> SUFFICES ASSUME ~LateOpens
             PROVE  Spec => []BackedUp
  OBVIOUS
<1>1. Init => BackedUp
  BY DEF Init, BackedUp, MakingInv, ProtectInv
<1>2. IInv /\ ServiceInv /\ BackedUp /\ [Next]_vars => BackedUp'
  <2>1. IInv /\ ServiceInv /\ BackedUp /\ Next => BackedUp'
    BY MakingNext, ProtectNext DEF BackedUp
  <2>2. BackedUp /\ UNCHANGED vars => BackedUp'
    BY DEF vars, backupVars, helmVars, BackedUp, MakingInv, ProtectInv, Bind,
       Covers, Protected, IsProtected, InHooks
  <2> QED  BY <2>1, <2>2
<1> QED  BY ServicesSafe, <1>1, <1>2, PTL DEF Spec

\* Whatever failed before, an upgrade reaches a Deployment only over a sealed
\* backup of this very operation, bound to the release it replaces, with every
\* commit its clients were told of before it began (backup_database), as long as
\* no pod that a restore left behind opens the database by name again.
THEOREM UpgradesProtected == ~LateOpens => (Spec => []UpgradeProtected)
<1> SUFFICES ASSUME ~LateOpens
             PROVE  Spec => []UpgradeProtected
  OBVIOUS
<1>1. IInv /\ BackedUp => UpgradeProtected
  BY DEF IInv, Typed, TypeOK, BackedUp, ProtectInv, Protected, IsProtected,
     Bind, Covers, UpgradeProtected
<1> QED  BY ServicesSafe, BackedUpHeld, <1>1, PTL

(***************************************************************************)
(* The transaction implements the store.                                   *)
(***************************************************************************)
\* Whoever is connected sees what clients were told, of no later release.
ViewsFaithful ==
    \A s \in Services : Views[s] \subseteq Store!View /\ Store!Faithful(s)

LEMMA FaithfulViews == ~LateOpens /\ IInv /\ ServiceInv => ViewsFaithful
<1> SUFFICES ASSUME ~LateOpens, IInv, ServiceInv, NEW s \in Services
             PROVE  Views[s] \subseteq Store!View /\ Store!Faithful(s)
  BY DEF ViewsFaithful
<1>1. pods[s] \subseteq Pod /\ Content(db[s]) \in Data
  BY DEF IInv, Typed, TypeOK, Content, File
<1>2. ASSUME NEW p \in pods[s], Connected(s, p)
      PROVE  Content(db[s]) = committed[s] /\ Content(db[s]).rel <= p.rel
  BY <1>2, DetachedUnread
  DEF IInv, ServiceInv, DataInv, CommitInv, MigrationInv, Interrupted, Connected
<1> DEFINE view(p) == [by |-> p.rel, data |-> Content(db[s])]
<1>3. ASSUME NEW p \in pods[s], Connected(s, p)
      PROVE  /\ view(p) \in Store!View
             /\ view(p).data = committed[s] /\ view(p).data.rel <= view(p).by
  <2>1. p.rel \in Nat
    BY <1>1 DEF Pod
  <2> QED  BY <1>1, <1>2, <1>3, <2>1 DEF Store!View, Store!Data, Data
<1>4. Views[s] = {view(p) : p \in {q \in pods[s] : Connected(s, q)}}
  BY DEF Views
<1> HIDE DEF view
<1> QED  BY <1>3, <1>4 DEF Store!Faithful

LEMMA ImplementsInit == ~LateOpens /\ Init => Store!Init
<1> SUFFICES ASSUME ~LateOpens, Init
             PROVE  Store!Init
  OBVIOUS
<1>1. IInv /\ ServiceInv
  BY InitIInv, InitSingle, InitData DEF ServiceInv
<1>2. /\ committed \in [Services -> Store!Data]
      /\ Deployed \in [Services -> Nat]
  BY <1>1 DEF IInv, Typed, TypeOK, Store!Data, Data, Deployed, Deployment
<1>3. /\ Copied = [s \in Services |-> {}]
      /\ Saved = [s \in Services |-> {}]
  BY DEF Init, Copied, Saved
<1>4. Views \in [Services -> SUBSET Store!View]
  <2> DEFINE seen(s) == {[by |-> p.rel, data |-> Content(db[s])] :
                           p \in {q \in pods[s] : Connected(s, q)}}
  <2>1. Views = [s \in Services |-> seen(s)]
    BY DEF Views
  <2> HIDE DEF seen
  <2>2. \A s \in Services : seen(s) \subseteq Store!View
    BY <1>1, <2>1, FaithfulViews DEF ViewsFaithful
  <2> QED  BY <2>1, <2>2
<1>5. ASSUME NEW s \in Services
      PROVE  committed[s].rel <= Deployed[s] /\ Store!Faithful(s)
  <2>1. Store!Faithful(s)
    BY <1>1, FaithfulViews DEF ViewsFaithful
  <2>2. committed[s].rel = FirstRelease /\ Deployed[s] = FirstRelease
    BY DEF Init, Deployed, FirstData
  <2> QED  BY <2>1, <2>2, UpgradeAssumption
<1> QED  BY <1>2, <1>3, <1>4, <1>5 DEF Store!Init

\* What a step leaves alone of the database and pods of a service, its
\* pointer and its Deployment, it leaves alone in the store.
LEMMA ViewsKept ==
  ASSUME NEW s \in Services, UNCHANGED <<db[s], pods[s]>>
  PROVE  Views'[s] = Views[s]
  BY DEF Views, Connected

LEMMA SavedKept ==
  ASSUME IInv, Next, UNCHANGED pointer
  PROVE  UNCHANGED Saved
<1>1. ASSUME NEW s \in Services
      PROVE  (IF pointer[s] = 0 THEN {} ELSE {BackupOf(s, pointer[s])})'
               = (IF pointer[s] = 0 THEN {} ELSE {BackupOf(s, pointer[s])})
  BY PointedKept DEF IInv, BackupOf
<1> QED  BY <1>1 DEF Saved

LEMMA DeployedKept ==
  ASSUME IInv, Next, \A s \in Services : ~ApplyDeployment(s)
  PROVE  UNCHANGED Deployed
<1>1. ASSUME NEW s \in Services
      PROVE  dep'[s].rel = dep[s].rel
  <2>1. dep[s] \in Deployment
    BY DEF IInv, Typed, TypeOK
  <2>2. \/ dep'[s] = dep[s]
        \/ dep'[s] = [dep[s] EXCEPT !.tpl = @ + 1]
        \/ dep'[s] = [dep[s] EXCEPT !.strategy = "Recreate"]
        \/ dep'[s] = [dep[s] EXCEPT !.replicas = 0]
    BY DeploymentTouched DEF IInv
  <2> QED  BY ONLY <2>1, <2>2 DEF Deployment
<1> QED  BY <1>1 DEF Deployed

\* No generation is being made, or none is any more.
LEMMA NoneCopied ==
  ASSUME pc \notin {"seal", "pointer-tmp", "point"}
  PROVE  Copied = [s \in Services |-> {}]
  BY DEF Copied

LEMMA CopyGone ==
  ASSUME Typed, pc' \notin {"seal", "pointer-tmp", "point"}
  PROVE  Copied' = [Copied EXCEPT ![cur] = {}]
<1>1. Copied' = [s \in Services |-> {}]
  BY DEF Copied
<1>2. \A s \in Services \ {cur} : Copied[s] = {}
  BY DEF Copied
<1>3. DOMAIN Copied = Services /\ cur \in Services
  BY DEF Copied, Typed, TypeOK
<1>4. Copied = [s \in Services |-> Copied[s]]
  BY DEF Copied
<1> QED  BY <1>1, <1>2, <1>3, <1>4

\* Connected pods, their number and what they read change for one service.
LEMMA ImplementsRead ==
  ASSUME ViewsFaithful', NEW s \in Services,
         \A t \in Services \ {s} : Views'[t] = Views[t],
         UNCHANGED <<committed, Deployed, Copied, Saved>>
  PROVE  Store!Read(s)
<1>1. Views'[s] \subseteq Store!View /\ Store!Faithful(s)'
  BY DEF ViewsFaithful, Store!Faithful
<1>2. Views' = [Views EXCEPT ![s] = Views'[s]]
  <2>1. /\ Views = [t \in Services |-> Views[t]]
        /\ Views' = [t \in Services |-> Views'[t]]
    BY DEF Views
  <2> QED  BY <2>1
<1> QED  BY <1>1, <1>2 DEF Store!Read

\* The online backup copies what the clients were told, under the release
\* that is deployed, whatever was interrupted before.
LEMMA ImplementsCopy ==
  ASSUME ~LateOpens, IInv, ServiceInv, CopyDatabase, Next
  PROVE  Store!Copy(cur)
<1>0. /\ cur \in Services /\ ops \in Operations /\ cur \in todo
      /\ gens \in [Services -> [Operations -> Generation]]
  BY DEF CopyDatabase, IInv, Typed, TypeOK, Counted, OperationInv, JobSteps,
         BackupSteps
<1>1. Content(db[cur]) = committed[cur]
  BY <1>0 DEF CopyDatabase, ServiceInv, DataInv, CommitInv, Interrupted,
              RestoreSteps
<1>2. gens[cur][ops].source = dep[cur].rel
  BY DEF CopyDatabase, IInv, BackupInv
<1>3. BackupOf(cur, ops)' = [data |-> committed[cur], source |-> Deployed[cur]]
  <2> DEFINE g == [gens[cur][ops] EXCEPT !.stage = "copied", !.data = Content(db[cur])]
  <2>1. gens'[cur][ops] = g /\ cur' = cur /\ ops' = ops
    BY <1>0 DEF CopyDatabase, helmVars
  <2>2. gens[cur][ops] \in Generation
    BY <1>0
  <2>3. g.data = Content(db[cur]) /\ g.source = gens[cur][ops].source
    BY ONLY <2>2 DEF Generation
  <2> HIDE DEF g
  <2> QED  BY <1>0, <1>1, <1>2, <2>1, <2>3 DEF BackupOf, Deployed
<1>4. /\ pc = "copy" /\ pc' = "seal" /\ cur' = cur
      /\ UNCHANGED <<committed, db, pods, pointer>>
  BY DEF CopyDatabase, Goto, dataVars
<1>5. Copied' = [Copied EXCEPT ![cur] = {[data |-> committed[cur], source |-> Deployed[cur]]}]
  <2>1. Copied = [s \in Services |-> {}]
    BY <1>4, NoneCopied
  <2>2. Copied' = [s \in Services |-> IF s = cur THEN {BackupOf(cur, ops)'} ELSE {}]
    BY <1>4 DEF Copied
  <2> QED  BY <1>0, <1>3, <2>1, <2>2
<1>6. UNCHANGED <<Saved, Deployed, Views>>
  <2>1. \A s \in Services : ~ApplyDeployment(s)
    BY <1>4 DEF ApplyDeployment
  <2>2. UNCHANGED Views
    BY <1>4 DEF Views, Connected
  <2> QED  BY <1>4, <2>1, <2>2, SavedKept, DeployedKept
<1> QED  BY <1>4, <1>5, <1>6 DEF Store!Copy

\* current.json moves to the generation that was copied.
LEMMA ImplementsPublish ==
  ASSUME ~LateOpens, IInv, ReplacePointer, Next
  PROVE  Store!Publish(cur)
<1>0. cur \in Services /\ ops \in Operations /\ pointer \in [Services -> {0} \cup Operations]
  BY DEF ReplacePointer, IInv, Typed, TypeOK, Counted
<1>1. /\ pc = "point" /\ pc' = "strategy" /\ pointer' = [pointer EXCEPT ![cur] = ops]
      /\ UNCHANGED <<committed, db, dep, pods, gens, ops, cur>>
  BY DEF ReplacePointer, Goto, dataVars, helmVars
<1>2. Copied[cur] = {BackupOf(cur, ops)}
  BY <1>0, <1>1 DEF Copied
<1>3. Copied' = [Copied EXCEPT ![cur] = {}]
  BY <1>1, CopyGone DEF IInv
<1>4. Saved' = [Saved EXCEPT ![cur] = Copied[cur]]
  <2>1. ops # 0
    BY <1>0 DEF Operations
  <2> DEFINE named(s, n) == IF n = 0 THEN {} ELSE {BackupOf(s, n)}
  <2>2. Saved = [s \in Services |-> named(s, pointer[s])]
    BY DEF Saved
  <2>3. Saved' = [s \in Services |-> named(s, pointer'[s])]
    BY <1>1 DEF Saved, BackupOf
  <2>4. named(cur, ops) = Copied[cur]
    BY <1>2, <2>1
  <2> HIDE DEF named
  <2> QED  BY <1>0, <1>1, <2>2, <2>3, <2>4
<1>5. UNCHANGED <<Deployed, Views>>
  BY <1>1 DEF Deployed, Views, Connected
<1> QED  BY <1>1, <1>2, <1>3, <1>4, <1>5 DEF Store!Publish

\* The file is replaced by the published backup, when nobody is connected.
LEMMA ImplementsRestore ==
  ASSUME ~LateOpens, IInv, ReplaceDatabase, Next
  PROVE  Store!Restore(cur)
<1>0. /\ cur \in Services /\ db \in [Services -> File] /\ db[cur] \in File
      /\ dep[cur] \in Deployment /\ pc = "replace"
      /\ Migrated(cur) /\ NotAhead(cur)
  BY DEF ReplaceDatabase, IInv, Typed, TypeOK
<1>1. /\ pointer[cur] # 0 /\ loaded = pointer[cur]
      /\ gens[cur][loaded].source = target /\ target <= dep[cur].rel
      /\ Detached(cur)
  BY <1>0 DEF IInv, RestoreInv, RestoreSteps
<1> DEFINE b == BackupOf(cur, pointer[cur])
<1>2. /\ Saved[cur] = {b} /\ b.data = gens[cur][loaded].data
      /\ b.source <= Deployed[cur]
  BY <1>0, <1>1 DEF Saved, BackupOf, Deployed
<1>3. /\ committed' = [committed EXCEPT ![cur] = gens[cur][loaded].data]
      /\ pc' = "receipt-tmp" /\ UNCHANGED <<pods, pointer>>
      /\ db' = [db EXCEPT ![cur].inode = @ + 1, ![cur].main = gens[cur][loaded].data]
  BY DEF ReplaceDatabase, Goto
<1>4. Views[cur] = {}
  BY <1>0, <1>1, DetachedUnread DEF Views
<1>5. UNCHANGED Views
  <2>1. \A s \in Services \ {cur} : Views'[s] = Views[s]
    BY <1>0, <1>3, ViewsKept
  <2>2. Views'[cur] = {}
    <3>1. db'[cur] = [db[cur] EXCEPT !.inode = db[cur].inode + 1, !.main = gens[cur][loaded].data]
      BY <1>0, <1>3
    <3>2. db'[cur].inode = db[cur].inode + 1 /\ db[cur].inode \in Nat
      BY ONLY <1>0, <3>1 DEF File
    <3>3. \A p \in pods'[cur] : p.inode = 0
      BY <1>0, <1>1, <1>3 DEF Detached, NotAhead
    <3>4. \A p \in pods'[cur] : p.inode # db'[cur].inode
      BY <3>2, <3>3
    <3> QED  BY <1>0, <3>4 DEF Views, Connected
  <2>3. /\ Views = [t \in Services |-> Views[t]]
        /\ Views' = [t \in Services |-> Views'[t]]
    BY DEF Views
  <2> QED  BY <1>4, <2>1, <2>2, <2>3
<1>6. UNCHANGED <<Saved, Deployed, Copied>>
  <2>1. \A s \in Services : ~ApplyDeployment(s)
    BY <1>0 DEF ApplyDeployment
  <2>2. UNCHANGED Copied
    BY <1>0, <1>3 DEF Copied
  <2> QED  BY <1>3, <2>1, <2>2, SavedKept, DeployedKept
<1> HIDE DEF b
<1> QED  BY <1>2, <1>3, <1>4, <1>5, <1>6 DEF Store!Restore

\* Helm replaces a release over its backup, or brings one back onto its own.
LEMMA ImplementsReplace ==
  ASSUME ~LateOpens, IInv, ServiceInv, BackedUp, Next, NEW s \in Services, ApplyDeployment(s)
  PROVE  Store!Upgrade(s) \/ Store!Rollback(s)
<1>0. /\ dep \in [Services -> Deployment] /\ target \in Nat
      /\ dep[s].rel \in Nat /\ db[s] \in File
  BY UpgradeAssumption DEF IInv, Typed, TypeOK, Deployment
<1>1. /\ pc = "apply" /\ s \in todo /\ pc' = pc
      /\ UNCHANGED <<committed, db, pods, gens, pointer>>
      /\ dep' = [dep EXCEPT ![s] = [rel |-> target, tpl |-> dep[s].tpl + 1,
                                    replicas |-> 1, strategy |-> "Recreate"]]
  BY <1>0 DEF ApplyDeployment, dataVars, backupVars
<1>2. Deployed' = [Deployed EXCEPT ![s] = target]
  BY <1>0, <1>1 DEF Deployed
<1>3. UNCHANGED <<Saved, Copied, Views>>
  BY <1>1, SavedKept DEF Copied, Views, Connected
<1>4. Deployed[s] = dep[s].rel /\ Deployed'[s] = target
  BY <1>1, <1>2 DEF Deployed
<1> DEFINE b == BackupOf(s, pointer[s])
<1>5. /\ b.source = gens[s][pointer[s]].source
      /\ b.data = gens[s][pointer[s]].data
      /\ pointer[s] # 0 => Saved[s] = {b}
  BY DEF BackupOf, Saved
<1> HIDE DEF b
<1>6. CASE op = "upgrade"
  <2>1. pointer[s] = ops /\ gens[s][ops].source = dep[s].rel
    BY <1>1, <1>6 DEF BackedUp, ProtectInv, Protected, IsProtected, Bind
  <2>2. pointer[s] # 0
    BY <1>1, <2>1 DEF IInv, Typed, Counted, Operations
  <2>3. dep[s].rel <= target
    BY <1>6 DEF IInv, OperationInv
  <2>4. Store!Upgrade(s)
    BY <1>0, <1>1, <1>2, <1>3, <1>4, <1>5, <2>1, <2>2, <2>3 DEF Store!Upgrade
  <2> QED  BY <2>4
<1>7. CASE op = "rollback"
  <2>1. /\ Detached(s) /\ Migrated(s) /\ NotAhead(s)
        /\ pointer[s] # 0 /\ gens[s][pointer[s]].source = target
        /\ db[s].main = gens[s][pointer[s]].data /\ db[s].wal = NoData
    BY <1>1, <1>7 DEF IInv, RollbackInv, IsRestored, Restored
  <2>2. Content(db[s]) = b.data
    BY <1>5, <2>1 DEF Content
  <2>3. committed[s] = b.data
    BY <1>1, <2>2 DEF ServiceInv, DataInv, CommitInv, Interrupted, InHooks,
                      JobSteps, BackupSteps, RestoreSteps
  <2>4. Views[s] = {}
    BY <2>1, DetachedUnread DEF Views
  <2>5. Deployed' = [Deployed EXCEPT ![s] = b.source]
    BY <1>2, <1>5, <2>1
  <2> QED  BY <1>1, <1>3, <1>5, <2>1, <2>3, <2>4, <2>5 DEF Store!Rollback
<1>8. op \in {"upgrade", "rollback"}
  BY <1>1 DEF IInv, Typed, TypeOK, OperationInv
<1> QED  BY <1>6, <1>7, <1>8

\* A step of a service or of its controller is seen by its readers only, and
\* adds to its data only what somebody connected migrates or commits.
LEMMA ImplementsCluster ==
  ASSUME ~LateOpens, IInv, ServiceInv, IInv', ViewsFaithful', Next,
         NEW s \in Services, Controller(s) \/ Application(s)
  PROVE  Store!Read(s) \/ Store!Update(s)
<1>0. /\ db \in [Services -> File] /\ committed \in [Services -> Data]
      /\ pods \in [Services -> SUBSET Pod] /\ dep[s] \in Deployment
      /\ committed[s] \in Data /\ committed'[s] \in Data
      /\ Migrated(s) /\ NotAhead(s)
  BY DEF IInv, Typed, TypeOK
<1>1. UNCHANGED <<dep, gens, pointer, leftover, ops, cur, pc>>
  BY DEF Controller, Application, StartPod, StopPod, ExitPod, EvictPod,
         OpenDatabase, Write, Checkpoint, helmVars, backupVars
<1>2. UNCHANGED <<Deployed, Copied, Saved>>
  BY <1>1 DEF Deployed, Copied, Saved, BackupOf
<1>3. \A t \in Services \ {s} : UNCHANGED <<db[t], committed[t], pods[t]>>
  BY <1>0 DEF Controller, Application, StartPod, StopPod, ExitPod,
     EvictPod, Drain, OpenDatabase, Write, Checkpoint, Commit, dataVars
<1>4. \A t \in Services \ {s} : Views'[t] = Views[t]
  BY <1>3, ViewsKept
<1>5. CASE committed'[s] = committed[s]
  <2>1. committed' = committed
    <3>1. committed' \in [Services -> Data]
      BY DEF IInv, Typed, TypeOK
    <3> QED  BY <1>0, <1>3, <1>5, <3>1
  <2> QED  BY <1>2, <1>4, <2>1, ImplementsRead
<1>6. CASE committed'[s] # committed[s]
  <2>1. PICK p \in pods[s] : OpenDatabase(s, p) \/ Write(s, p)
    BY <1>6 DEF Controller, Application, StartPod, StopPod, ExitPod, EvictPod,
                Checkpoint, dataVars
  <2>2. Content(db[s]) = committed[s]
    <3>1. ~Interrupted(s)
      BY <1>0, <2>1, DetachedUnread DEF Interrupted, OpenDatabase, Write
    <3> QED  BY <3>1 DEF ServiceInv, DataInv, CommitInv
  <2>3. p \in Pod /\ Typed
    BY <1>0 DEF IInv
  <2>4. /\ db'[s].inode = db[s].inode /\ Content(db'[s]) = committed'[s]
        /\ \/ /\ committed'[s].rel = committed[s].rel
              /\ committed'[s].commits = committed[s].commits + 1
           \/ /\ committed[s].rel < committed'[s].rel
              /\ committed'[s].commits = committed[s].commits
    BY <1>0, <1>6, <2>1, <2>2, <2>3, ContentWritten
  <2>5. /\ committed[s].rel <= committed'[s].rel
        /\ committed[s].commits <= committed'[s].commits
    BY <1>0, <2>4 DEF Data
  <2>6. committed'[s].rel <= Deployed[s]
    <3>1. Content(db'[s]).rel <= dep'[s].rel
      BY DEF IInv, NotAhead, Content
    <3> QED  BY <1>1, <2>4, <3>1 DEF Deployed
  <2>7. \E q \in pods'[s] : q.ready /\ q.inode = db'[s].inode
    <3>1. CASE Write(s, p)
      BY <2>4, <3>1 DEF Write, Connected
    <3>2. CASE OpenDatabase(s, p)
      <4> DEFINE opened == [p EXCEPT !.ready = TRUE, !.inode = db[s].inode]
      <4>1. opened.ready /\ opened.inode = db[s].inode
        BY ONLY <2>3 DEF Pod
      <4>2. opened \in pods'[s]
        BY <1>0, <3>2 DEF OpenDatabase
      <4> HIDE DEF opened
      <4> QED  BY <2>4, <4>1, <4>2
    <3> QED  BY <2>1, <3>1, <3>2
  <2>8. Views'[s] # {}
    BY <2>7 DEF Views, Connected
  <2>9. Views'[s] \subseteq Store!View /\ Store!Faithful(s)'
    BY DEF ViewsFaithful, Store!Faithful
  <2>10. Views' = [Views EXCEPT ![s] = Views'[s]]
    <3>1. /\ Views = [t \in Services |-> Views[t]]
          /\ Views' = [t \in Services |-> Views'[t]]
      BY DEF Views
    <3> QED  BY <1>4, <3>1
  <2>11. committed' = [committed EXCEPT ![s] = committed'[s]]
    <3>1. committed' \in [Services -> Data]
      BY DEF IInv, Typed, TypeOK
    <3>2. /\ committed = [t \in Services |-> committed[t]]
          /\ committed' = [t \in Services |-> committed'[t]]
      BY <1>0, <3>1
    <3>3. \A t \in Services \ {s} : committed'[t] = committed[t]
      BY <1>3
    <3> QED  BY <3>2, <3>3
  <2>12. committed'[s] \in Store!Data
    BY <1>0 DEF Data, Store!Data
  <2> QED  BY <1>2, <2>5, <2>6, <2>8, <2>9, <2>10, <2>11, <2>12 DEF Store!Update
<1> QED  BY <1>5, <1>6

\* Helm's own steps, and the steps of a Job that wait, prepare, seal or fail,
\* leave the store alone, or give up the backup that was being made.
LEMMA ImplementsQuiet ==
  ASSUME ~LateOpens, IInv, Next, UNCHANGED <<committed, db, pods, pointer>>,
         \A s \in Services : ~ApplyDeployment(s),
         UNCHANGED Copied \/ pc' \notin {"seal", "pointer-tmp", "point"}
  PROVE  [Store!Next]_(Store!vars)
<1>1. UNCHANGED <<Saved, Deployed, Views>>
  <2>1. UNCHANGED Views
    BY DEF Views, Connected
  <2> QED  BY <2>1, SavedKept, DeployedKept
<1>2. CASE UNCHANGED Copied
  BY <1>1, <1>2 DEF Store!vars
<1>3. CASE pc' \notin {"seal", "pointer-tmp", "point"}
  <2>1. Copied' = [Copied EXCEPT ![cur] = {}] /\ cur \in Services
    BY <1>3, CopyGone DEF IInv, Typed, TypeOK
  <2> QED  BY <1>1, <2>1 DEF Store!Discard, Store!Next
<1> QED  BY <1>2, <1>3

\* What is being made is kept while it is sealed and its pointer is prepared.
LEMMA CopiedKept ==
  ASSUME ~LateOpens, IInv, SealGeneration \/ (OpenPointer /\ pc' = "point")
  PROVE  UNCHANGED Copied
<1>0. /\ cur \in Services /\ ops \in Operations
      /\ gens \in [Services -> [Operations -> Generation]]
  BY DEF SealGeneration, OpenPointer, OpenTemporary, IInv, Typed, TypeOK, Counted,
         JobSteps, BackupSteps
<1>1. /\ {pc, pc'} \subseteq {"seal", "pointer-tmp", "point"}
      /\ UNCHANGED <<cur, ops>>
  BY DEF SealGeneration, OpenPointer, OpenTemporary, Goto, helmVars, Refuse, Abort
<1>2. BackupOf(cur, ops)' = BackupOf(cur, ops)
  <2>1. CASE SealGeneration
    <3>1. gens'[cur][ops] = [gens[cur][ops] EXCEPT !.stage = "sealed"]
      BY <1>0, <2>1 DEF SealGeneration
    <3>2. gens[cur][ops] \in Generation
      BY <1>0
    <3>3. /\ gens'[cur][ops].data = gens[cur][ops].data
          /\ gens'[cur][ops].source = gens[cur][ops].source
      BY ONLY <3>1, <3>2 DEF Generation
    <3> QED  BY <1>1, <3>3 DEF BackupOf
  <2>2. CASE OpenPointer /\ pc' = "point"
    BY <1>1, <2>2 DEF OpenPointer, OpenTemporary, Refuse, Abort, BackupOf
  <2> QED  BY <2>1, <2>2
<1>3. /\ Copied = [s \in Services |-> IF s = cur THEN {BackupOf(cur, ops)} ELSE {}]
      /\ Copied' = [s \in Services |-> IF s = cur THEN {BackupOf(cur, ops)'} ELSE {}]
  BY <1>1 DEF Copied
<1> QED  BY <1>2, <1>3

LEMMA ImplementsNext ==
  ASSUME ~LateOpens, IInv, ServiceInv, BackedUp, IInv', ViewsFaithful', [Next]_vars
  PROVE  [Store!Next]_(Store!vars)
<1>1. CASE UNCHANGED vars
  BY <1>1 DEF vars, dataVars, backupVars, helmVars, Store!vars, Deployed, Copied,
              Saved, Views, BackupOf, Connected
<1> SUFFICES ASSUME Next
             PROVE  [Store!Next]_(Store!vars)
  BY <1>1
<1>0. cur \in Services
  BY DEF IInv, Typed, TypeOK
<1> DEFINE making == {"seal", "pointer-tmp", "point"}
           Quiet == /\ UNCHANGED <<committed, db, pods, pointer>>
                    /\ pc # "apply" \/ pc' = "idle"
                    /\ UNCHANGED Copied \/ pc' \notin making
<1>2. ASSUME Quiet
      PROVE  [Store!Next]_(Store!vars)
  <2>1. \A s \in Services : ~ApplyDeployment(s)
    BY <1>2 DEF ApplyDeployment
  <2> QED  BY <1>2, <2>1, ImplementsQuiet
<1>3. ASSUME NEW release \in Releases, Upgrade(release) \/ Rollback(release)
      PROVE  Quiet
  BY <1>3 DEF Upgrade, Rollback, Begin, dataVars, backupVars
<1>4. ASSUME NEW s \in Services, StartJob(s) \/ TlsRollout(s)
      PROVE  Quiet
  BY <1>4 DEF StartJob, TlsRollout, dataVars, backupVars
<1>5. ASSUME NEW s \in Services, ApplyDeployment(s)
      PROVE  [Store!Next]_(Store!vars)
  BY <1>5, ImplementsReplace DEF Store!Next
<1>6. CASE HooksDone \/ TlsDone \/ Applied \/ Failure
  <2>1. Quiet
    BY <1>6 DEF HooksDone, TlsDone, Applied, Failure, HelmFails, JobErrors,
       JobKilled, Abort, dataVars, backupVars, JobSteps, BackupSteps, RestoreSteps
  <2> QED  BY <1>2, <2>1
<1>7. CASE SealGeneration \/ (OpenPointer /\ pc' = "point")
  <2>1. UNCHANGED Copied
    BY <1>7, CopiedKept
  <2>2. Quiet
    BY <1>7, <2>1 DEF SealGeneration, OpenPointer, OpenTemporary, Refuse, Abort,
       dataVars, backupVars
  <2> QED  BY <1>2, <2>2
<1>8. CASE \/ WriterRunning \/ WriterStopped \/ WaitFails \/ MakeGeneration
           \/ (OpenPointer /\ pc' # "point") \/ force_recreate_strategy
           \/ LoadBackup \/ ScaleToZero \/ StageRestore \/ OpenReceipt
           \/ ReplaceReceipt
  <2>1. Quiet
    BY <1>8 DEF WriterRunning, WriterStopped, WaitFails, MakeGeneration,
       OpenPointer, OpenTemporary, force_recreate_strategy, LoadBackup,
       ScaleToZero, StageRestore, OpenReceipt, ReplaceReceipt, Refuse, Abort,
       Goto, EndJob, dataVars, backupVars
  <2> QED  BY <1>2, <2>1
<1>9. CASE CopyDatabase
  BY <1>0, <1>9, ImplementsCopy DEF Store!Next
<1>10. CASE ReplacePointer
  BY <1>0, <1>10, ImplementsPublish DEF Store!Next
<1>11. CASE ReplaceDatabase
  BY <1>0, <1>11, ImplementsRestore DEF Store!Next
<1>12. CASE UnlinkSidecars
  <2>1. /\ UNCHANGED <<committed, dep, pointer, gens, cur, ops>>
        /\ pc = "unlink" /\ pc' = "replace"
    BY <1>12 DEF UnlinkSidecars, Goto, backupVars, helmVars
  <2>2. \A t \in Services \ {cur} : UNCHANGED <<db[t], pods[t]>>
    BY <1>12 DEF UnlinkSidecars, IInv, Typed, TypeOK
  <2>3. \A t \in Services \ {cur} : Views'[t] = Views[t]
    BY <2>2, ViewsKept
  <2>4. UNCHANGED <<Deployed, Copied, Saved>>
    BY <2>1 DEF Deployed, Copied, Saved, BackupOf
  <2> QED  BY <1>0, <2>1, <2>3, <2>4, ImplementsRead DEF Store!Next
<1>13. ASSUME NEW s \in Services, Controller(s) \/ Application(s)
       PROVE  [Store!Next]_(Store!vars)
  BY <1>13, ImplementsCluster DEF Store!Next
<1> HIDE DEF Quiet
<1> QED  BY <1>2, <1>3, <1>4, <1>5, <1>6, <1>7, <1>8, <1>9, <1>10, <1>11, <1>12,
            <1>13 DEF Next, Helm, Job

\* The whole transaction is the abstract store: with every kill and failing
\* call of a Job, every interrupted operation, and the services running all the
\* while (backup_database, restore_database and Helm's apply between them), as
\* long as no pod that a restore left behind opens the database by name again.
THEOREM TransactionIsStore == ~LateOpens => (Spec => ImplementsStore)
<1> SUFFICES ASSUME ~LateOpens
             PROVE  Spec => ImplementsStore
  OBVIOUS
<1>1. Spec => [](IInv /\ ServiceInv /\ BackedUp)
  BY ServicesSafe, BackedUpHeld, PTL
<1>2. IInv /\ ServiceInv /\ BackedUp /\ IInv' /\ ViewsFaithful' /\ [Next]_vars
        => [Store!Next]_(Store!vars)
  BY ImplementsNext
<1> QED  BY <1>1, <1>2, ImplementsInit, FaithfulViews, PTL
         DEF Spec, ImplementsStore, Store!Spec
================================================================================

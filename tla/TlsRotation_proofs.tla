--------------------------- MODULE TlsRotation_proofs ---------------------------
(***************************************************************************)
(* What the hook may act on, for any workloads, requests and faults: a lost *)
(* pod leaves the Secret in any of the states between two calls, and the   *)
(* next pod starts from whatever it finds.                                 *)
(***************************************************************************)
EXTENDS TlsRotation, TLAPS

\* The metadata snapshot.sh recorded; what mint.sh has compared it with.
Found(s) == s.ann.state = "stable" /\ s.ann.ready
Verified(s) == s.ann.rev = s.bundle.rev /\ s.trust = {s.bundle.ca}

\* FailClosed, from the moment a decision is taken to the end of the Job.
Vetted ==
    /\ snap.shape \in Shapes
    /\ pc \in {"mint", "start", "exited"} \cup ApplySteps
         => (snap.shape = "canonical" => Found(snap))
    /\ pc \in {"start", "exited"} \cup ApplySteps
         => (snap.shape = "canonical" => Verified(snap))

\* Steps that keep the snapshot stay where it has been vetted, or leave.
LEMMA SnapshotKept ==
  ASSUME Vetted, UNCHANGED snap,
         \/ pc \in {"start", "exited"} \cup ApplySteps
         \/ pc' \notin {"mint", "start", "exited"} \cup ApplySteps
         \/ UNCHANGED pc
  PROVE  Vetted'
  BY DEF Vetted, Found, Verified

\* mint.sh goes on only with bytes that are exactly what was recorded.
LEMMA MintVerifies ==
  ASSUME NEW age, MintAdmits(age), snap.shape = "canonical", Found(snap)
  PROVE  Verified(snap)
<1>1. /\ ValidatesActive(snap.bundle, snap.trust, req, age)
      /\ DigestsMatch(snap.bundle, snap.trust, snap.ann)
  BY DEF MintAdmits
<1>2. ~IsLegacy(snap.ann)
  BY DEF Found, IsLegacy
<1> QED  BY <1>1, <1>2 DEF ValidatesActive, DigestsMatch, Verified

LEMMA VettedNext == Vetted /\ [Next]_vars => Vetted'
<1> SUFFICES ASSUME Vetted, [Next]_vars
             PROVE  Vetted'
  OBVIOUS
<1> USE DEF ApplySteps
<1>1. CASE UNCHANGED vars
  BY <1>1, SnapshotKept DEF vars, stateVars
<1>2. CASE (\E r \in Requests : Upgrade(r)) \/ SnapshotGetFails \/ LosePod
  <2>1. snap' = NoSnapshot
    BY <1>2 DEF Upgrade, SnapshotGetFails, LosePod
  <2> QED  BY <2>1 DEF Vetted, NoSnapshot, Shapes
<1>3. CASE Snapshot
  <2>1. pc' = "mint"
    BY <1>3 DEF Snapshot, Goto
  <2>2. CASE bundle = NoBundle
    BY <1>3, <2>1, <2>2 DEF Snapshot, Vetted, NoSnapshot, Shapes
  <2>3. CASE bundle # NoBundle /\ IsLegacy(ann)
    BY <1>3, <2>1, <2>3 DEF Snapshot, Vetted, Shapes
  <2>4. CASE bundle # NoBundle /\ ~IsLegacy(ann)
    <3>1. IsCanonical(ann)
      BY <1>3, <2>4 DEF Snapshot, SnapshotAccepts
    <3>2. snap'.shape = "canonical" /\ snap'.ann = ann
      BY <1>3, <2>4 DEF Snapshot
    <3> QED  BY <2>1, <3>1, <3>2 DEF Vetted, Shapes, Found, IsCanonical
  <2> QED  BY <2>2, <2>3, <2>4
<1>4. ASSUME NEW age \in Ages, Mint(age)
      PROVE  Vetted'
  <2>1. UNCHANGED snap /\ pc = "mint" /\ MintAdmits(age)
    BY <1>4 DEF Mint
  <2>2. snap.shape = "canonical" => Found(snap) /\ Verified(snap)
    BY <2>1, MintVerifies DEF Vetted
  <2> QED  BY <2>1, <2>2 DEF Vetted, Found, Verified
<1>5. CASE SnapshotRefuses \/ (\E age \in Ages : MintRefuses(age)) \/ GiveUp
           \/ HelmApplies
  BY <1>5, SnapshotKept DEF SnapshotRefuses, MintRefuses, GiveUp, HelmApplies,
     JobFails, stateVars
<1>6. CASE ApplyStart \/ RestartContainer
  BY <1>6, SnapshotKept DEF ApplyStart, RestartContainer, stateVars
<1>7. CASE WriteData \/ LabelSecret \/ AnnotateSecret
           \/ (\E w \in Workloads : GetWorkload(w) \/ SkipWorkload(w))
           \/ PatchWorkload \/ RolloutConverges \/ EndRollout \/ RecordReady
           \/ OverlapOpen \/ CheckHistory \/ CreateHistory \/ Committed
  BY <1>7, SnapshotKept DEF WriteData, LabelSecret, AnnotateSecret, GetWorkload,
     SkipWorkload, IsNext, PatchWorkload, RolloutConverges, EndRollout,
     RecordReady, OverlapOpen, CheckHistory, CreateHistory, Committed,
     stateVars
<1>8. CASE CallFails \/ PatchFails \/ RolloutTimesOut \/ OverlapExpired
           \/ HistoryFails \/ Terminate \/ Kill
  BY <1>8, SnapshotKept DEF CallFails, PatchFails, RolloutTimesOut,
     OverlapExpired, HistoryFails, Terminate, Kill, stateVars
<1>9. ASSUME NEW w \in Workloads,
             Controller(w) \/ \E p \in pods[w] : ReplacePod(w, p)
      PROVE  Vetted'
  BY <1>9, SnapshotKept DEF Controller, StartPod, StopPod, ReplacePod, stateVars
<1> QED  BY <1>1, <1>2, <1>3, <1>4, <1>5, <1>6, <1>7, <1>8, <1>9
         DEF Next, HookStep, FaultStep

\* Whatever state of the Secret a failed, killed or lost run has left, the hook
\* acts on recorded metadata only when it describes exactly the bytes that are
\* there: one signer, no second root, digests that match (snapshot.sh, mint.sh).
THEOREM HookFailsClosed == Spec => []FailClosed
<1>1. Init => Vetted
  BY DEF Init, Vetted, NoSnapshot, Shapes, ApplySteps
<1>2. Vetted => FailClosed
  BY DEF Vetted, FailClosed, Found, Verified
<1> QED  BY VettedNext, <1>1, <1>2, PTL DEF Spec

\* Agreement of the materials is acceptance of the pods that hold them.
LEMMA AgreementIsMutual == Rollover!Agreement => MutualTrust
<1> SUFFICES ASSUME Rollover!Agreement,
                    NEW v \in Workloads, NEW w \in Workloads,
                    NEW p \in pods[v], NEW q \in pods[w]
             PROVE  Accepts(p.trust, q.bundle)
  BY DEF MutualTrust
<1> DEFINE m == Material(p.bundle, p.trust)
           n == Material(q.bundle, q.trust)
<1>1. {m, n} \subseteq Rollover!Live
  BY DEF Rollover!Live
<1>2. n.signer \in m.roots
  BY <1>1 DEF Rollover!Agreement, Rollover!Agree
<1> QED  BY <1>2 DEF Material, Accepts

\* A hook that implements the rollover never lets two live pods refuse each
\* other, for any workloads, requests and faults under which it does.
THEOREM RolloverIsMutual == ImplementsRollover => []MutualTrust
<1>1. Rollover!Spec => []Rollover!Agreement
  BY Rollover!RolloverAgrees
<1> QED  BY <1>1, AgreementIsMutual, PTL DEF ImplementsRollover

(***************************************************************************)
(* Types.                                                                  *)
(***************************************************************************)
\* The apply container is always in one of its own phases: the annotations and
\* the token it writes are those of a phase that has some.
ApplyPhases == Phases \ {"none", "snapshot"}
PhaseKnown == pc \in ApplySteps => phase \in ApplyPhases
Typed == TypeOK /\ PhaseKnown

LEMMA InitTyped == Init => Typed
<1> SUFFICES ASSUME Init
             PROVE  Typed
  OBVIOUS
<1> USE RotationAssumption, BundleAssumption
<1>1. FirstGeneration \in Generations /\ StableToken(FirstGeneration) \in Token
  BY DEF StableToken, Token, Tags
<1>2. Unset \in Annotations
  BY <1>1 DEF Unset, Annotations, States, CA
<1>3. NoBundle \in Bundle
  BY DEF NoBundle, Bundle, CA
<1>4. \A exact \in BOOLEAN : InitialBundle(exact) \in Bundle
  BY DEF InitialBundle, Bundle, CA
<1>5. ChartTemplate(FirstGeneration) \in PodTemplate
  BY <1>1 DEF ChartTemplate, PodTemplate, CA
<1>6. NoSnapshot \in Snapshots
  BY <1>2, <1>3 DEF NoSnapshot, Snapshots, Shapes
<1>7. /\ bundle \in Bundle /\ trust \subseteq CA /\ labelled \in BOOLEAN
      /\ ann \in Annotations /\ deployed \subseteq Workloads
      /\ pods \in [Workloads -> SUBSET Pod]
  <2>1. CASE EmptyCluster
    BY <2>1, <1>2, <1>3 DEF EmptyCluster
  <2>2. ASSUME NEW exact \in BOOLEAN, NEW annotations \in Annotations,
               RunningCluster(InitialBundle(exact), annotations)
        PROVE  <1>7
    <3> DEFINE b == InitialBundle(exact)
    <3>1. b \in Bundle /\ b.ca \in CA /\ b.members \subseteq Workloads
      BY <1>4 DEF Bundle
    <3> HIDE DEF b
    <3>2. [template |-> ChartTemplate(FirstGeneration), bundle |-> b,
           trust |-> {b.ca}] \in Pod
      BY <3>1, <1>5 DEF Pod
    <3> QED  BY <2>2, <3>1, <3>2 DEF RunningCluster, b
  <2>3. \A exact \in BOOLEAN :
           StableAnnotations(FirstGeneration, InitialBundle(exact))
             \in Annotations
    BY <1>1, <1>4 DEF StableAnnotations, Annotations, States, Bundle
  <2> QED  BY <2>1, <2>2, <2>3, <1>2 DEF Init
<1>8. template \in [Workloads -> PodTemplate]
  BY <1>5 DEF Init
<1>9. PhaseKnown
  BY DEF Init, PhaseKnown, ApplySteps
<1> QED  BY <1>3, <1>6, <1>7, <1>8, <1>9
         DEF Init, Typed, TypeOK, Steps, Phases

SecretTyped ==
    /\ bundle \in Bundle /\ trust \subseteq CA /\ labelled \in BOOLEAN
    /\ ann \in Annotations /\ history \subseteq CA \X CA
ClusterTyped ==
    /\ deployed \subseteq Workloads
    /\ template \in [Workloads -> PodTemplate]
    /\ pods \in [Workloads -> SUBSET Pod]
ControlTyped ==
    /\ pc \in Steps /\ phase \in Phases /\ armed \in BOOLEAN /\ PhaseKnown
RolloutTyped == todo \subseteq Workloads /\ cur \in Workloads /\ missed \in BOOLEAN
StateTyped == snap \in Snapshots /\ cand \in Bundle
JobTyped ==
    /\ req \in Request /\ restarts \in Nat
    /\ result \in {"none", "succeeded", "failed"} /\ lost \in BOOLEAN
    /\ runs \in Nat
BoundsTyped == serial \in Nat /\ faults \in Nat

LEMMA TypedParts ==
  Typed <=> /\ SecretTyped /\ ClusterTyped /\ ControlTyped /\ RolloutTyped
            /\ StateTyped /\ JobTyped /\ BoundsTyped
  BY DEF Typed, TypeOK, SecretTyped, ClusterTyped, ControlTyped, RolloutTyped,
     StateTyped, JobTyped, BoundsTyped

\* What a phase writes has the type of what it is written to.
LEMMA PhaseTypes ==
  ASSUME StateTyped, JobTyped, NEW p \in ApplyPhases
  PROVE  /\ PhaseBundle(p) \in Bundle /\ PhaseTrust(p) \subseteq CA
         /\ PhaseToken(p) \in Token /\ PhaseGen(p) \in Generations
         /\ PhaseTemplate(p) \in PodTemplate
         /\ PreviousCa(p) \in Nat
<1>1. /\ snap.bundle \in Bundle /\ snap.bundle.ca \in CA
      /\ cand \in Bundle /\ cand.ca \in CA
      /\ snap.ann.gen \in Generations /\ req.gen \in Generations
  BY DEF StateTyped, JobTyped, Snapshots, Bundle, Annotations, Request
<1>2. PhaseBundle(p) \in Bundle /\ PhaseBundle(p).ca \in CA
  BY <1>1 DEF PhaseBundle, Bundle
<1>3. PhaseTrust(p) \subseteq CA
  BY <1>1, <1>2 DEF PhaseTrust
<1>4. PhaseGen(p) \in Generations
  BY <1>1 DEF PhaseGen
<1>5. PhaseToken(p) \in Token
  BY <1>1, <1>4 DEF PhaseToken, Token, Tags, DualTrust
<1>6. PhaseTemplate(p) \in PodTemplate
  BY <1>2, <1>3, <1>5 DEF PhaseTemplate, PodTemplate, Bundle
<1>7. PreviousCa(p) \in Nat
  BY <1>1 DEF PreviousCa, CA
<1> QED  BY <1>2, <1>3, <1>4, <1>5, <1>6, <1>7

LEMMA AnnotationTypes ==
  ASSUME StateTyped, JobTyped, ControlTyped, phase \in ApplyPhases
  PROVE  /\ phase \notin {"commit", "migrate"}
              => PendingAnnotations(phase) \in Annotations
         /\ FinalAnnotations \in Annotations
<1>1. /\ PhaseBundle(phase) \in Bundle /\ PhaseTrust(phase) \subseteq CA
      /\ PhaseToken(phase) \in Token /\ PhaseGen(phase) \in Generations
      /\ PreviousCa(phase) \in Nat
  BY PhaseTypes
<1>2. ASSUME phase \notin {"commit", "migrate"}
      PROVE  PendingAnnotations(phase) \in Annotations
  <2>1. PhaseState(phase) \in States
    BY <1>2 DEF PhaseState, States, ApplyPhases, Phases, RollbackPhases
  <2> QED  BY <1>1, <2>1 DEF PendingAnnotations, Annotations, Bundle, ControlTyped
<1>3. FinalAnnotations \in Annotations
  <2> DEFINE b == IF phase = "migrate" THEN snap.bundle ELSE cand
  <2>1. b \in Bundle /\ b.ca \in CA /\ b.rev \in Nat
    BY DEF StateTyped, Snapshots, Bundle
  <2>2. req.gen \in Generations
    BY DEF JobTyped, Request
  <2>3. FinalAnnotations = [StableAnnotations(req.gen, b) EXCEPT
                              !.previousCa = PreviousCa(phase)]
    BY DEF FinalAnnotations
  <2> HIDE DEF b
  <2> QED  BY <1>1, <2>1, <2>2, <2>3
           DEF StableAnnotations, StableToken, Annotations, Token, Tags, States
<1> QED  BY <1>2, <1>3

\* The moves of the script stay among its steps and phases.
LEMMA EnterTyped ==
  ASSUME ControlTyped, NEW p \in ApplyPhases, Enter(p)
  PROVE  ControlTyped'
  BY DEF ControlTyped, PhaseKnown, Enter, ArmedIn, Steps, ApplySteps,
     ApplyPhases

LEMMA GotoTyped ==
  ASSUME ControlTyped, NEW step \in Steps, Goto(step),
         pc \in ApplySteps \/ step \notin ApplySteps
  PROVE  ControlTyped'
  BY DEF ControlTyped, PhaseKnown, Goto

LEMMA MovesTyped ==
  ASSUME ControlTyped, pc \in ApplySteps,
         Die \/ AfterRollout \/ AfterCall
  PROVE  ControlTyped'
<1> USE DEF ApplyPhases, Phases, RollbackPhases
<1>1. CASE Die
  BY <1>1, EnterTyped, GotoTyped DEF Die, Steps
<1>2. ASSUME AfterRollout
      PROVE  ControlTyped'
  BY <1>2, EnterTyped, GotoTyped DEF AfterRollout, Steps, ApplySteps
<1>3. CASE AfterCall
  <2>1. CASE pc \in {"data", "label", "annotate"}
    BY <1>3, <2>1, GotoTyped DEF AfterCall, Steps, ApplySteps
  <2>2. CASE pc \notin {"data", "label", "annotate"}
    BY <1>2, <1>3, <2>2 DEF AfterCall
  <2> QED  BY <2>1, <2>2
<1> QED  BY <1>1, <1>2, <1>3

PartsTyped ==
    /\ SecretTyped /\ ClusterTyped /\ ControlTyped /\ RolloutTyped
    /\ StateTyped /\ JobTyped /\ BoundsTyped

\* A variable that stays as it is keeps its type.
LEMMA PartsKept ==
  ASSUME PartsTyped
  PROVE  /\ UNCHANGED <<secretVars, history>> => SecretTyped'
         /\ UNCHANGED <<deployed, clusterVars>> => ClusterTyped'
         /\ UNCHANGED <<pc, phase, armed>> => ControlTyped'
         /\ UNCHANGED rolloutVars => RolloutTyped'
         /\ UNCHANGED stateVars => StateTyped'
         /\ UNCHANGED jobVars => JobTyped'
         /\ UNCHANGED serial /\ (UNCHANGED faults \/ faults' = faults + 1)
              => BoundsTyped'
  BY DEF PartsTyped, SecretTyped, ClusterTyped, ControlTyped, PhaseKnown,
     RolloutTyped, StateTyped, JobTyped, BoundsTyped, secretVars, clusterVars,
     rolloutVars, stateVars, jobVars

\* snapshot.sh and mint.sh, and what starts and ends a Job.
LEMMA InitContainersTyped ==
  ASSUME PartsTyped,
         \/ \E r \in Requests : Upgrade(r)
         \/ Snapshot \/ SnapshotGetFails \/ SnapshotRefuses
         \/ \E age \in Ages : Mint(age) \/ MintRefuses(age)
  PROVE  PartsTyped'
<1> USE DEF Steps, ApplySteps
<1>1. NoSnapshot \in Snapshots /\ NoBundle \in Bundle
  BY RotationAssumption, BundleAssumption
     DEF NoSnapshot, Snapshots, Shapes, NoBundle, Bundle, CA, Unset,
         Annotations, States, StableToken, Token, Tags
<1>2. ASSUME NEW r \in Requests, Upgrade(r)
      PROVE  PartsTyped'
  <2>1. ControlTyped'
    BY <1>2 DEF Upgrade, PartsTyped, ControlTyped, PhaseKnown, Phases
  <2>2. JobTyped'
    <3>1. lost' \in BOOLEAN
      BY <1>2 DEF Upgrade
    <3>2. req' \in Request /\ restarts' \in Nat /\ runs' \in Nat
          /\ result' = result
      BY <1>2, RotationAssumption DEF Upgrade, PartsTyped, JobTyped
    <3> QED  BY <3>1, <3>2 DEF PartsTyped, JobTyped
  <2>3. StateTyped'
    BY <1>1, <1>2 DEF Upgrade, PartsTyped, StateTyped
  <2> QED  BY <1>2, <2>1, <2>2, <2>3, PartsKept DEF Upgrade, PartsTyped
<1>3. CASE Snapshot \/ SnapshotGetFails
  <2>1. snap' \in Snapshots
    BY <1>1, <1>3 DEF Snapshot, SnapshotGetFails, PartsTyped, SecretTyped,
       Snapshots, Shapes
  <2>2. StateTyped'
    BY <1>3, <2>1 DEF Snapshot, SnapshotGetFails, PartsTyped, StateTyped
  <2>3. ControlTyped'
    BY <1>3, GotoTyped DEF Snapshot, SnapshotGetFails, PartsTyped
  <2> QED  BY <1>3, <2>2, <2>3, PartsKept
           DEF Snapshot, SnapshotGetFails, Fault, PartsTyped
<1>4. CASE SnapshotRefuses \/ \E age \in Ages : MintRefuses(age)
  <2>1. JobFails
    BY <1>4 DEF SnapshotRefuses, MintRefuses
  <2>2. ControlTyped' /\ RolloutTyped' /\ JobTyped'
    BY <2>1 DEF JobFails, PartsTyped, ControlTyped, RolloutTyped, JobTyped,
       PhaseKnown, Phases
  <2> QED  BY <1>4, <2>2, PartsKept DEF SnapshotRefuses, MintRefuses, PartsTyped
<1>5. ASSUME NEW age \in Ages, Mint(age)
      PROVE  PartsTyped'
  <2>1. Candidate(snap.bundle, req, serial + 1) \in Bundle
    <3>1. snap.bundle \in Bundle /\ serial + 1 \in Nat /\ req \in Request
      BY DEF PartsTyped, StateTyped, JobTyped, BoundsTyped, Snapshots
    <3> QED  BY <3>1 DEF Candidate, generate_bundle, generate_dns_bundle,
                generate_profile_bundle, Bundle, CA, Request
  <2>2. StateTyped' /\ BoundsTyped'
    BY <1>5, <2>1 DEF Mint, PartsTyped, StateTyped, BoundsTyped
  <2>3. ControlTyped'
    BY <1>5, GotoTyped DEF Mint, PartsTyped
  <2> QED  BY <1>5, <2>2, <2>3, PartsKept DEF Mint, PartsTyped
<1> QED  BY <1>2, <1>3, <1>4, <1>5

\* The calls of apply.sh that change the Secret.
LEMMA SecretCallsTyped ==
  ASSUME PartsTyped,
         WriteData \/ LabelSecret \/ AnnotateSecret \/ RecordReady \/ CallFails
  PROVE  PartsTyped'
<1>1. pc \in ApplySteps /\ phase \in ApplyPhases
  BY DEF WriteData, LabelSecret, AnnotateSecret, RecordReady, CallFails,
     PartsTyped, ControlTyped, PhaseKnown, ApplySteps
<1>2. ControlTyped'
  BY <1>1, MovesTyped
     DEF WriteData, LabelSecret, AnnotateSecret, RecordReady, CallFails,
         PartsTyped
<1>3. RolloutTyped'
  BY PartsKept
     DEF WriteData, LabelSecret, AnnotateSecret, RecordReady, CallFails,
         PartsTyped, StartRollout, RolloutTyped, rolloutVars, JobTyped, Request
<1>4. CASE WriteData
  <2>1. bundle' \in Bundle /\ trust' \subseteq CA
    BY <1>1, <1>4, PhaseTypes DEF WriteData, PartsTyped
  <2>2. SecretTyped'
    BY <1>4, <2>1 DEF WriteData, PartsTyped, SecretTyped
  <2> QED  BY <1>2, <1>3, <1>4, <2>2, PartsKept DEF WriteData, PartsTyped
<1>5. CASE LabelSecret
  <2>1. labelled' \in BOOLEAN
    BY <1>5 DEF LabelSecret
  <2>2. SecretTyped'
    BY <1>5, <2>1 DEF LabelSecret, PartsTyped, SecretTyped
  <2> QED  BY <1>2, <1>3, <1>5, <2>2, PartsKept DEF LabelSecret, PartsTyped
<1>6. CASE AnnotateSecret
  <2>1. ann' \in Annotations
    BY <1>1, <1>6, AnnotationTypes DEF AnnotateSecret, PartsTyped
  <2>2. SecretTyped'
    BY <1>6, <2>1 DEF AnnotateSecret, PartsTyped, SecretTyped
  <2> QED  BY <1>2, <1>3, <1>6, <2>2, PartsKept DEF AnnotateSecret, PartsTyped
<1>7. CASE RecordReady
  <2>1. PhaseToken(phase) \in Token
    BY <1>1, PhaseTypes DEF PartsTyped
  <2>2. ann' \in Annotations
    BY <1>7, <2>1 DEF RecordReady, PartsTyped, SecretTyped, Annotations
  <2>3. SecretTyped'
    BY <1>7, <2>2 DEF RecordReady, PartsTyped, SecretTyped
  <2> QED  BY <1>2, <1>3, <1>7, <2>3, PartsKept DEF RecordReady, PartsTyped
<1>8. CASE CallFails
  BY <1>2, <1>3, <1>8, PartsKept DEF CallFails, Fault, PartsTyped
<1> QED  BY <1>4, <1>5, <1>6, <1>7, <1>8

\* rollout_generation.
LEMMA RolloutTypedNext ==
  ASSUME PartsTyped,
         \/ \E w \in Workloads : GetWorkload(w) \/ SkipWorkload(w)
         \/ PatchWorkload \/ PatchFails \/ RolloutConverges \/ RolloutTimesOut
         \/ EndRollout
  PROVE  PartsTyped'
<1> USE DEF Steps, ApplySteps
<1>1. ASSUME NEW w \in Workloads, GetWorkload(w)
      PROVE  PartsTyped'
  <2>1. ControlTyped' /\ RolloutTyped'
    BY <1>1, GotoTyped DEF GetWorkload, IsNext, PartsTyped, RolloutTyped
  <2> QED  BY <1>1, <2>1, PartsKept DEF GetWorkload, PartsTyped
<1>2. ASSUME NEW w \in Workloads, SkipWorkload(w)
      PROVE  PartsTyped'
  <2>1. RolloutTyped'
    BY <1>2 DEF SkipWorkload, PartsTyped, RolloutTyped
  <2>2. UNCHANGED faults \/ faults' = faults + 1
    BY <1>2 DEF SkipWorkload, Fault
  <2> QED  BY <1>2, <2>1, <2>2, PartsKept DEF SkipWorkload, PartsTyped
<1>3. CASE PatchWorkload
  <2>1. phase \in ApplyPhases
    BY <1>3 DEF PatchWorkload, PartsTyped, ControlTyped, PhaseKnown
  <2>2. PhaseTemplate(phase) \in PodTemplate
    BY <2>1, PhaseTypes DEF PartsTyped
  <2>3. ClusterTyped'
    BY <1>3, <2>2 DEF PatchWorkload, PartsTyped, ClusterTyped
  <2>4. ControlTyped'
    BY <1>3, GotoTyped DEF PatchWorkload, PartsTyped
  <2> QED  BY <1>3, <2>3, <2>4, PartsKept DEF PatchWorkload, PartsTyped
<1>4. CASE PatchFails \/ RolloutConverges \/ RolloutTimesOut
  <2>1. missed' \in BOOLEAN
    BY <1>4 DEF PatchFails, RolloutConverges, RolloutTimesOut, PartsTyped,
       RolloutTyped
  <2>2. RolloutTyped'
    BY <1>4, <2>1 DEF PatchFails, RolloutConverges, RolloutTimesOut, PartsTyped,
       RolloutTyped
  <2>3. ControlTyped'
    BY <1>4, GotoTyped
       DEF PatchFails, RolloutConverges, RolloutTimesOut, PartsTyped
  <2> QED  BY <1>4, <2>2, <2>3, PartsKept
           DEF PatchFails, RolloutConverges, RolloutTimesOut, Fault, PartsTyped
<1>5. CASE EndRollout
  <2>1. pc = "next" /\ (Goto("ready") \/ AfterRollout \/ Die)
    BY <1>5 DEF EndRollout
  <2>2. ControlTyped'
    BY <2>1, GotoTyped, MovesTyped DEF PartsTyped
  <2> QED  BY <1>5, <2>2, PartsKept DEF EndRollout, PartsTyped
<1> QED  BY <1>1, <1>2, <1>3, <1>4, <1>5

\* The course of the script: its start, its gates, its record, its end, and
\* what stops it.
LEMMA CourseTyped ==
  ASSUME PartsTyped,
         \/ ApplyStart \/ OverlapOpen \/ CheckHistory \/ CreateHistory
         \/ Committed \/ OverlapExpired \/ HistoryFails \/ Terminate \/ Kill
  PROVE  PartsTyped'
<1> USE DEF Steps, ApplySteps, ApplyPhases, Phases, RollbackPhases
<1>1. CASE ApplyStart
  <2>1. \/ \E p \in {"rotating", "overlap-old", "initial", "migrate"} : Enter(p)
        \/ Goto("done")
    BY <1>1 DEF ApplyStart
  <2>2. ControlTyped'
    BY <2>1, EnterTyped, GotoTyped DEF PartsTyped
  <2> QED  BY <1>1, <2>2, PartsKept DEF ApplyStart, PartsTyped
<1>2. CASE OverlapOpen
  <2>1. ControlTyped'
    BY <1>2, EnterTyped DEF OverlapOpen, PartsTyped
  <2> QED  BY <1>2, <2>1, PartsKept DEF OverlapOpen, PartsTyped
<1>3. CASE CheckHistory
  <2>1. Die \/ Goto("history")
    BY <1>3 DEF CheckHistory
  <2>2. ControlTyped'
    BY <1>3, <2>1, MovesTyped, GotoTyped DEF CheckHistory, PartsTyped
  <2> QED  BY <1>3, <2>2, PartsKept DEF CheckHistory, PartsTyped
<1>4. CASE CreateHistory
  <2>1. HistoryEntry \in CA \X CA
    BY DEF HistoryEntry, PartsTyped, StateTyped, Snapshots, Bundle
  <2>2. SecretTyped'
    BY <1>4, <2>1 DEF CreateHistory, PartsTyped, SecretTyped, secretVars
  <2>3. ControlTyped'
    BY <1>4, EnterTyped DEF CreateHistory, PartsTyped
  <2> QED  BY <1>4, <2>2, <2>3, PartsKept DEF CreateHistory, PartsTyped
<1>5. CASE Committed
  <2>1. ControlTyped'
    BY <1>5 DEF Committed, PartsTyped, ControlTyped, PhaseKnown
  <2> QED  BY <1>5, <2>1, PartsKept DEF Committed, PartsTyped
<1>6. CASE OverlapExpired \/ HistoryFails \/ Terminate
  <2>1. ControlTyped'
    BY <1>6, MovesTyped DEF OverlapExpired, HistoryFails, Terminate, PartsTyped
  <2> QED  BY <1>6, <2>1, PartsKept
           DEF OverlapExpired, HistoryFails, Terminate, Fault, PartsTyped
<1>7. CASE Kill
  <2>1. ControlTyped'
    BY <1>7, GotoTyped DEF Kill, PartsTyped
  <2>2. JobTyped'
    <3>1. lost' \in BOOLEAN
      BY <1>7 DEF Kill, PartsTyped, JobTyped
    <3> QED  BY <1>7, <3>1 DEF Kill, PartsTyped, JobTyped
  <2> QED  BY <1>7, <2>1, <2>2, PartsKept DEF Kill, Fault, PartsTyped
<1> QED  BY <1>1, <1>2, <1>3, <1>4, <1>5, <1>6, <1>7

\* The Job's retries and its end, and the workload controllers.
LEMMA JobAndPodsTyped ==
  ASSUME PartsTyped,
         \/ RestartContainer \/ LosePod \/ GiveUp \/ HelmApplies
         \/ \E w \in Workloads :
              Controller(w) \/ \E p \in pods[w] : ReplacePod(w, p)
  PROVE  PartsTyped'
<1> USE DEF Steps, ApplySteps
<1>1. CASE RestartContainer
  <2>1. ControlTyped'
    BY <1>1 DEF RestartContainer, PartsTyped, ControlTyped, PhaseKnown, Phases
  <2>2. JobTyped'
    BY <1>1 DEF RestartContainer, PartsTyped, JobTyped
  <2> QED  BY <1>1, <2>1, <2>2, PartsKept DEF RestartContainer, PartsTyped
<1>2. CASE LosePod
  <2>1. ControlTyped'
    BY <1>2 DEF LosePod, PartsTyped, ControlTyped, PhaseKnown, Phases
  <2>2. lost' \in BOOLEAN /\ missed' \in BOOLEAN
    BY <1>2 DEF LosePod
  <2>3. JobTyped' /\ RolloutTyped'
    BY <1>2, <2>2 DEF LosePod, PartsTyped, JobTyped, RolloutTyped
  <2>4. NoSnapshot \in Snapshots /\ NoBundle \in Bundle
    BY RotationAssumption, BundleAssumption
       DEF NoSnapshot, Snapshots, Shapes, NoBundle, Bundle, CA, Unset,
           Annotations, States, StableToken, Token, Tags
  <2>5. StateTyped'
    BY <1>2, <2>4 DEF LosePod, StateTyped
  <2> QED  BY <1>2, <2>1, <2>3, <2>5, PartsKept DEF LosePod, Fault, PartsTyped
<1>3. CASE GiveUp
  <2>1. ControlTyped' /\ RolloutTyped' /\ JobTyped'
    BY <1>3 DEF GiveUp, JobFails, PartsTyped, ControlTyped, RolloutTyped,
       JobTyped, PhaseKnown, Phases
  <2> QED  BY <1>3, <2>1, PartsKept DEF GiveUp, PartsTyped
<1>4. \A t \in PodTemplate : PodOf(t) \in Pod
  BY DEF PodOf, Pod, PartsTyped, SecretTyped
<1>5. CASE HelmApplies
  <2>1. ControlTyped'
    BY <1>5 DEF HelmApplies, PartsTyped, ControlTyped, PhaseKnown, Phases
  <2>2. ClusterTyped'
    BY <1>4, <1>5 DEF HelmApplies, PartsTyped, ClusterTyped, JobTyped, Request
  <2>3. JobTyped'
    BY <1>5 DEF HelmApplies, PartsTyped, JobTyped
  <2> QED  BY <1>5, <2>1, <2>2, <2>3, PartsKept DEF HelmApplies, PartsTyped
<1>6. ASSUME NEW w \in Workloads, StartPod(w)
      PROVE  PartsTyped'
  <2>1. ClusterTyped'
    BY <1>4, <1>6 DEF StartPod, PartsTyped, ClusterTyped
  <2> QED  BY <1>6, <2>1, PartsKept DEF StartPod, PartsTyped
<1>7. ASSUME NEW w \in Workloads, NEW p \in pods[w], StopPod(w, p)
      PROVE  PartsTyped'
  <2>1. ClusterTyped'
    BY <1>7 DEF StopPod, PartsTyped, ClusterTyped, clusterVars
  <2> QED  BY <1>7, <2>1, PartsKept DEF StopPod, PartsTyped
<1>8. ASSUME NEW w \in Workloads, NEW p \in pods[w], ReplacePod(w, p)
      PROVE  PartsTyped'
  <2>1. PodOf(p.template) \in Pod
    BY <1>4 DEF PartsTyped, ClusterTyped, Pod
  <2>2. ClusterTyped'
    BY <1>8, <2>1 DEF ReplacePod, PartsTyped, ClusterTyped, clusterVars
  <2> QED  BY <1>8, <2>2, PartsKept DEF ReplacePod, PartsTyped
<1> QED  BY <1>1, <1>2, <1>3, <1>5, <1>6, <1>7, <1>8 DEF Controller

LEMMA PartsTypedNext == PartsTyped /\ [Next]_vars => PartsTyped'
<1> SUFFICES ASSUME PartsTyped, [Next]_vars
             PROVE  PartsTyped'
  OBVIOUS
<1>1. CASE UNCHANGED vars
  BY <1>1, PartsKept DEF vars, PartsTyped
<1>2. CASE Next
  BY <1>2, InitContainersTyped, SecretCallsTyped, RolloutTypedNext,
     CourseTyped, JobAndPodsTyped DEF Next, HookStep, FaultStep
<1> QED  BY <1>1, <1>2

\* Every step of the hook, of its failures and of the cluster keeps the types,
\* for any workloads, requests, faults and bounds.
THEOREM TypeCorrect == Spec => []TypeOK
<1>1. Init => PartsTyped
  BY InitTyped, TypedParts DEF PartsTyped
<1>2. PartsTyped => TypeOK
  BY TypedParts DEF PartsTyped, Typed
<1> QED  BY PartsTypedNext, <1>1, <1>2, PTL DEF Spec

(***************************************************************************)
(* What the Secret holds while the hook runs, fails and is run again, for  *)
(* any workloads, requests and bounds, and for every fault that a theorem  *)
(* does not exclude by name.                                               *)
(***************************************************************************)

(***************************************************************************)
(* The Secret and the script, by phase.                                    *)
(***************************************************************************)
\* snapshot.sh reads an absent Secret only where there is none.
NoMisread == <<"get", "snapshot">> \notin FaultPoints

\* From mint.sh's decision to the end of the Job.
Minted == pc \in {"start", "exited", "done"} \cup ApplySteps

Rotates == req.op = "rotate"

\* What mint.sh has admitted, and what it has minted for it.
Admitted ==
    /\ req.op \in {"reconcile", "rotate"}
    /\ Rotates => /\ snap.shape = "canonical"
                  /\ snap.bundle.members \subseteq req.members
                  /\ snap.ann.gen # req.gen
    /\ snap.shape # "absent" => snap.trust = {snap.bundle.ca}
    /\ IF Rotates \/ snap.shape = "absent"
       THEN cand.members = req.members /\ cand # NoBundle
       ELSE cand = NoBundle /\ snap.bundle.members = req.members

\* Where in a phase the script can be, and which phases a request has.
StepFits ==
    /\ pc = "snapshot" => phase = "snapshot"
    /\ pc \in ApplySteps => phase \in ApplyPhases
    /\ pc \in {"data", "next", "patch", "status", "ready"}
         => phase \notin {"commit", "migrate"}
    /\ pc = "gate" => phase \in {"overlap-old", "overlap-new"}
    /\ pc \in {"check-history", "history"} => phase = "retiring"
    /\ pc = "committed" => phase \in {"commit", "migrate"}

PhaseFits ==
    pc \in ApplySteps =>
      /\ phase = "initial" <=> snap.shape = "absent"
      /\ phase = "migrate" => snap.shape = "legacy" /\ ~Rotates
      /\ phase \notin {"initial", "migrate"} => Rotates
      /\ phase = "rotating" => KeepsSigner
      /\ phase \in {"overlap-old", "overlap-new", "retiring",
                    "rollback-new-dual", "rollback-old-dual"} => ~KeepsSigner

\* Only a rotation arms the rollback, and only its own shell can run it; up to
\* the last rollback write, or the final annotation over the same signer.
ArmedFits ==
    /\ armed => pc \in {"exited"} \cup ApplySteps /\ Rotates
    /\ pc \in ApplySteps /\ Rotates
         => (armed <=> /\ phase # "restore"
                       /\ ~(phase = "commit" /\ KeepsSigner))

\* The Secret holds what the hook found or what it minted, as far as the
\* phase has come.
Published(b, roots) == bundle = b /\ trust = roots

Rewritten ==
    pc \in ApplySteps \ {"data"} /\ phase \notin RollbackPhases =>
      /\ phase = "commit" => Published(cand, {cand.ca})
      /\ phase \notin {"commit", "migrate"}
           => Published(PhaseBundle(phase), PhaseTrust(phase))

Possible ==
    /\ Rotates => /\ bundle \in {snap.bundle, cand} /\ bundle.ca \in trust
                  /\ trust \subseteq {snap.bundle.ca, cand.ca}
    /\ ~Rotates /\ snap.shape = "absent" => \/ Published(NoBundle, {})
                                            \/ Published(cand, {cand.ca})
    /\ ~Rotates /\ snap.shape # "absent" => Published(snap.bundle, snap.trust)

Finished ==
    pc = "done" => IF Rotates \/ snap.shape = "absent"
                   THEN Published(cand, {cand.ca})
                   ELSE Published(snap.bundle, snap.trust)

\* What runs has its identity in what the hook found, and in what is there.
Identified(b) == IF b = NoBundle THEN deployed = {} ELSE deployed \subseteq b.members

Governed ==
    /\ bundle = NoBundle => trust = {}
    /\ Identified(bundle)
    /\ pc \in {"snapshot", "mint"} => cand = NoBundle
    /\ Minted \/ pc = "mint" =>
         IF snap.shape = "absent" THEN deployed = {}
         ELSE snap.bundle # NoBundle /\ Identified(snap.bundle)
    /\ pc = "mint" => IF snap.shape = "absent" THEN bundle = NoBundle
                      ELSE Published(snap.bundle, snap.trust) /\ ann = snap.ann

SecretInv ==
    /\ Governed
    /\ Minted => Admitted /\ Possible
    /\ StepFits /\ PhaseFits /\ ArmedFits /\ Rewritten /\ Finished

(***************************************************************************)
(* The moves of the script.                                                *)
(***************************************************************************)
\* The steps of apply.sh that leave the bytes of the Secret alone.
ScriptStep ==
    \/ LabelSecret \/ AnnotateSecret
    \/ \E w \in Workloads : GetWorkload(w) \/ SkipWorkload(w)
    \/ PatchWorkload \/ RolloutConverges \/ EndRollout \/ RecordReady
    \/ OverlapOpen \/ CheckHistory \/ CreateHistory
    \/ CallFails \/ PatchFails \/ RolloutTimesOut
    \/ OverlapExpired \/ HistoryFails \/ Terminate \/ Kill

\* On in the phase; out of the script; into its rollback; to the end of an
\* initialization; or into the next phase.
Passes == /\ pc' \in ApplySteps \ {"data"} /\ UNCHANGED <<phase, armed>>
          /\ pc = "data" => phase \in RollbackPhases
Stops == pc' = "exited" /\ UNCHANGED <<phase, armed>>
RollsBack == /\ armed /\ phase \notin RollbackPhases
             /\ Enter(IF KeepsSigner THEN "restore" ELSE "rollback-new-dual")
Initialized == /\ phase = "initial" /\ pc = "ready"
               /\ pc' = "done" /\ UNCHANGED <<phase, armed>>
Advances ==
    \/ phase = "rotating" /\ pc = "ready" /\ Enter("commit")
    \/ phase = "overlap-old" /\ pc = "gate" /\ Enter("overlap-new")
    \/ phase = "overlap-new" /\ pc = "gate" /\ Enter("retiring")
    \/ phase = "retiring" /\ pc = "history" /\ Enter("commit")
    \/ /\ phase = "rollback-new-dual" /\ pc \in {"next", "ready"}
       /\ Enter("rollback-old-dual")
    \/ /\ phase = "rollback-old-dual" /\ pc \in {"next", "ready"}
       /\ Enter("restore")

Moves ==
    /\ pc \in ApplySteps
    /\ Passes \/ Stops \/ RollsBack \/ Initialized \/ Advances

\* Every step of apply.sh is one of these moves, and stays where it fits.
LEMMA ScriptMoves ==
  ASSUME StepFits, ScriptStep
  PROVE  Moves /\ StepFits'
<1> USE DEF ApplySteps, StepFits, ApplyPhases, Phases, RollbackPhases
<1>1. ASSUME pc \in ApplySteps, Die
      PROVE  Moves /\ StepFits'
  BY <1>1 DEF Die, Enter, Goto, Moves, RollsBack, Stops
<1>2. CASE LabelSecret \/ AnnotateSecret
  BY <1>2 DEF LabelSecret, AnnotateSecret, AfterCall, Goto, Moves, Passes
<1>3. ASSUME NEW w \in Workloads, GetWorkload(w) \/ SkipWorkload(w)
      PROVE  Moves /\ StepFits'
  BY <1>3 DEF GetWorkload, SkipWorkload, IsNext, Goto, Moves, Passes
<1>4. CASE PatchWorkload \/ PatchFails \/ RolloutConverges \/ RolloutTimesOut
  BY <1>4 DEF PatchWorkload, PatchFails, RolloutConverges, RolloutTimesOut,
     Goto, Moves, Passes
<1>5. ASSUME pc \in {"next", "ready"}, AfterRollout,
             pc = "next" => phase \in RollbackPhases
      PROVE  Moves /\ StepFits'
  BY <1>5 DEF AfterRollout, Enter, Goto, Moves, Passes, Stops, Initialized,
     Advances
<1>6. CASE EndRollout
  <2>1. CASE ~missed
    BY <1>6, <2>1 DEF EndRollout, Goto, Moves, Passes
  <2>2. CASE missed /\ phase \in RollbackPhases
    BY <1>5, <1>6, <2>2 DEF EndRollout
  <2>3. CASE missed /\ phase \notin RollbackPhases
    BY <1>1, <1>6, <2>3 DEF EndRollout
  <2> QED  BY <2>1, <2>2, <2>3
<1>7. CASE RecordReady
  BY <1>5, <1>7 DEF RecordReady, AfterCall
<1>8. CASE OverlapOpen \/ CreateHistory
  BY <1>8 DEF OverlapOpen, CreateHistory, Enter, Moves, Advances
<1>9. CASE CheckHistory
  BY <1>1, <1>9 DEF CheckHistory, Goto, Moves, Passes
<1>10. CASE OverlapExpired \/ HistoryFails \/ Terminate
  BY <1>1, <1>10 DEF OverlapExpired, HistoryFails, Terminate
<1>11. CASE Kill
  BY <1>11 DEF Kill, Goto, Moves, Stops
<1>12. CASE CallFails
  <2>1. CASE phase \notin RollbackPhases
    BY <1>1, <1>12, <2>1 DEF CallFails
  <2>2. CASE phase \in RollbackPhases /\ pc = "ready"
    BY <1>5, <1>12, <2>2 DEF CallFails, AfterCall
  <2>3. CASE phase \in RollbackPhases /\ pc # "ready"
    BY <1>12, <2>3 DEF CallFails, AfterCall, Goto, Moves, Passes
  <2> QED  BY <2>1, <2>2, <2>3
<1> QED  BY <1>2, <1>3, <1>4, <1>6, <1>7, <1>8, <1>9, <1>10, <1>11, <1>12
         DEF ScriptStep

\* What these steps leave alone.
LEMMA ScriptKeeps ==
  ASSUME ScriptStep
  PROVE  UNCHANGED <<bundle, trust, deployed, stateVars, req>>
  BY DEF ScriptStep, LabelSecret, AnnotateSecret, GetWorkload, SkipWorkload,
     PatchWorkload, RolloutConverges, EndRollout, RecordReady, OverlapOpen,
     CheckHistory, CreateHistory, CallFails, PatchFails, RolloutTimesOut,
     OverlapExpired, HistoryFails, Terminate, Kill, secretVars, stateVars,
     jobVars

(***************************************************************************)
(* The Secret, the metadata found and the identities, step by step.        *)
(***************************************************************************)
LEMMA SecretInit == Init => SecretInv
<1> SUFFICES ASSUME Init
             PROVE  SecretInv
  OBVIOUS
<1>1. pc = "idle" /\ ~armed
  BY DEF Init
<1>2. \A exact \in BOOLEAN : InitialBundle(exact) # NoBundle
  BY DEF InitialBundle, NoBundle
<1>3. Governed
  <2>1. CASE EmptyCluster
    BY <1>1, <2>1 DEF EmptyCluster, Governed, Identified, Minted, ApplySteps
  <2>2. ASSUME NEW exact \in BOOLEAN, NEW annotations,
               RunningCluster(InitialBundle(exact), annotations)
        PROVE  Governed
    BY <1>1, <1>2, <2>2
       DEF RunningCluster, Governed, Identified, Minted, ApplySteps
  <2> QED  BY <2>1, <2>2 DEF Init
<1> QED  BY <1>1, <1>3
         DEF SecretInv, Minted, StepFits, PhaseFits, ArmedFits, Rewritten,
             Finished, ApplySteps

\* What the script wrote in its phase stays there when it moves on.
LEMMA RewrittenKept ==
  ASSUME SecretInv, Minted, Moves, UNCHANGED <<bundle, trust, stateVars, req>>
  PROVE  Rewritten'
<1> SUFFICES ASSUME pc' \in ApplySteps \ {"data"}, phase' \notin RollbackPhases
             PROVE  /\ phase' = "commit" => Published(cand, {cand.ca})'
                    /\ phase' \notin {"commit", "migrate"}
                         => Published(PhaseBundle(phase), PhaseTrust(phase))'
  BY DEF Rewritten
<1> USE DEF ApplySteps, RollbackPhases
<1>1. CASE Passes
  BY <1>1 DEF Passes, SecretInv, Rewritten, Published, PhaseBundle, PhaseTrust,
     stateVars, Moves
<1>2. CASE RollsBack
  BY <1>2 DEF RollsBack, Enter
<1>3. CASE Advances
  <2>1. phase' = "commit" /\ phase \in {"rotating", "retiring"}
        /\ pc \in {"ready", "history"}
    BY <1>3 DEF Advances, Enter
  <2>2. Published(PhaseBundle(phase), PhaseTrust(phase))
    BY <2>1 DEF SecretInv, Rewritten
  <2>3. PhaseBundle(phase) = cand /\ PhaseTrust(phase) = {cand.ca}
    BY <2>1 DEF PhaseBundle, PhaseTrust, WritesOld, DualTrust
  <2> QED  BY <2>1, <2>2, <2>3 DEF Published, stateVars
<1> QED  BY <1>1, <1>2, <1>3 DEF Moves, Stops, Initialized

\* The moves keep the phase and the rollback those of the request.
LEMMA FitsKept ==
  ASSUME SecretInv, Minted, Moves, UNCHANGED <<stateVars, req>>
  PROVE  PhaseFits' /\ ArmedFits'
<1> USE DEF ApplySteps, ApplyPhases, Phases, RollbackPhases
<1>1. PhaseFits /\ ArmedFits /\ Admitted
  BY DEF SecretInv
<1>2. pc \in ApplySteps
  BY DEF Moves
<1>3. Rotates' = Rotates /\ KeepsSigner' = KeepsSigner
      /\ snap'.shape = snap.shape
  BY DEF Rotates, KeepsSigner, stateVars
<1>4. Rotates => snap.shape = "canonical"
  BY <1>1 DEF Admitted
<1>5. CASE Passes \/ Stops \/ Initialized
  BY <1>1, <1>2, <1>3, <1>4, <1>5
     DEF Passes, Stops, Initialized, PhaseFits, ArmedFits
<1>6. CASE RollsBack
  BY <1>1, <1>2, <1>3, <1>4, <1>6
     DEF RollsBack, Enter, ArmedIn, PhaseFits, ArmedFits
<1>7. CASE Advances
  BY <1>1, <1>2, <1>3, <1>4, <1>7
     DEF Advances, Enter, ArmedIn, PhaseFits, ArmedFits
<1> QED  BY <1>5, <1>6, <1>7 DEF Moves

\* A step that changes nothing but where the script is.
LEMMA GovernedKept ==
  ASSUME SecretInv, Minted, Minted',
         UNCHANGED <<bundle, trust, deployed, stateVars, req>>
  PROVE  Governed' /\ Admitted' /\ Possible'
<1>1. Governed /\ Admitted /\ Possible
  BY DEF SecretInv
<1>2. Governed'
  BY <1>1 DEF Governed, Identified, Minted, stateVars, ApplySteps
<1>3. Admitted' /\ Possible'
  BY <1>1 DEF Admitted, Possible, Published, Rotates, stateVars
<1> QED  BY <1>2, <1>3

LEMMA ScriptSecret ==
  ASSUME SecretInv, ScriptStep
  PROVE  SecretInv'
<1>1. UNCHANGED <<bundle, trust, deployed, stateVars, req>>
  BY ScriptKeeps
<1>2. Moves /\ StepFits'
  BY ScriptMoves DEF SecretInv
<1>3. Minted /\ Minted'
  <2>1. pc' \in {"exited", "done"} \cup ApplySteps
    BY <1>2 DEF Moves, Passes, Stops, RollsBack, Initialized, Advances, Enter,
       ApplySteps
  <2> QED  BY <1>2, <2>1 DEF Moves, Minted
<1>4. Governed' /\ Admitted' /\ Possible'
  BY <1>1, <1>3, GovernedKept
<1>5. PhaseFits' /\ ArmedFits' /\ Rewritten'
  BY <1>1, <1>2, <1>3, FitsKept, RewrittenKept
<1>6. Finished'
  <2> SUFFICES ASSUME pc' = "done"
               PROVE  Finished'
    BY DEF Finished
  <2>1. Initialized
    BY <1>2 DEF Moves, Passes, Stops, RollsBack, Advances, Enter, ApplySteps
  <2>2. Published(PhaseBundle(phase), PhaseTrust(phase))
    BY <1>2, <2>1
       DEF Initialized, SecretInv, Rewritten, Moves, RollbackPhases
  <2>3. PhaseBundle(phase) = cand /\ PhaseTrust(phase) = {cand.ca}
    BY <2>1 DEF Initialized, PhaseBundle, PhaseTrust, WritesOld, DualTrust
  <2>4. snap.shape = "absent"
    BY <1>2, <2>1 DEF Initialized, SecretInv, PhaseFits, Moves
  <2> QED  BY <1>1, <2>2, <2>3, <2>4 DEF Finished, Published, stateVars
<1> QED  BY <1>2, <1>3, <1>4, <1>5, <1>6 DEF SecretInv

\* The bytes of a phase are the ones found or the ones minted; each holds the
\* identities of what runs.
LEMMA PhaseMaterial ==
  ASSUME SecretInv, pc = "data"
  PROVE  /\ Rotates => /\ PhaseBundle(phase) \in {snap.bundle, cand}
                       /\ PhaseBundle(phase).ca \in PhaseTrust(phase)
                       /\ PhaseTrust(phase) \subseteq {snap.bundle.ca, cand.ca}
         /\ ~Rotates => /\ snap.shape = "absent"
                        /\ PhaseBundle(phase) = cand
                        /\ PhaseTrust(phase) = {cand.ca}
         /\ PhaseBundle(phase) # NoBundle
         /\ Identified(PhaseBundle(phase))
<1>1. /\ Admitted /\ Minted
      /\ phase \in ApplyPhases \ {"commit", "migrate"}
      /\ phase = "initial" <=> snap.shape = "absent"
      /\ phase # "initial" => Rotates
      /\ IF snap.shape = "absent" THEN deployed = {}
         ELSE snap.bundle # NoBundle /\ Identified(snap.bundle)
  BY DEF SecretInv, StepFits, PhaseFits, Governed, Minted, ApplySteps
<1>2. CASE Rotates
  <2>1. snap.shape = "canonical" /\ cand # NoBundle
        /\ deployed \subseteq snap.bundle.members
        /\ deployed \subseteq cand.members
    BY <1>1, <1>2 DEF Admitted, Identified
  <2>2. PhaseBundle(phase) \in {snap.bundle, cand}
        /\ PhaseBundle(phase).ca \in PhaseTrust(phase)
        /\ PhaseTrust(phase) \subseteq {snap.bundle.ca, cand.ca}
    BY DEF PhaseBundle, PhaseTrust
  <2> QED  BY <1>1, <1>2, <2>1, <2>2 DEF Identified
<1>3. CASE ~Rotates
  <2>1. phase = "initial" /\ snap.shape = "absent"
    BY <1>1, <1>3
  <2>2. PhaseBundle(phase) = cand /\ PhaseTrust(phase) = {cand.ca}
    BY <2>1 DEF PhaseBundle, PhaseTrust, WritesOld, DualTrust
  <2> QED  BY <1>1, <1>3, <2>1, <2>2 DEF Admitted, Identified
<1> QED  BY <1>2, <1>3

LEMMA WriteSecret ==
  ASSUME SecretInv, WriteData
  PROVE  SecretInv'
<1>1. /\ pc = "data" /\ pc' = "label"
      /\ bundle' = PhaseBundle(phase) /\ trust' = PhaseTrust(phase)
      /\ UNCHANGED <<phase, armed, labelled, ann, deployed, stateVars, req>>
  BY DEF WriteData, AfterCall, Goto, jobVars
<1>2. snap' = snap /\ cand' = cand
  BY <1>1 DEF stateVars
<1>3. Governed'
  <2>1. bundle' # NoBundle /\ Identified(bundle)'
    BY <1>1, PhaseMaterial DEF Identified
  <2>2. IF snap.shape = "absent" THEN deployed = {}
        ELSE snap.bundle # NoBundle /\ Identified(snap.bundle)
    BY <1>1 DEF SecretInv, Governed, Minted, ApplySteps
  <2> QED  BY <1>1, <1>2, <2>1, <2>2 DEF Governed, Identified
<1>4. Admitted /\ Admitted'
  BY <1>1, <1>2 DEF SecretInv, Minted, ApplySteps, Admitted, Rotates
<1>5. Possible'
  BY <1>1, <1>2, PhaseMaterial DEF Possible, Published, Rotates
<1>6. StepFits' /\ PhaseFits' /\ ArmedFits'
  BY <1>1, <1>2
     DEF SecretInv, StepFits, PhaseFits, ArmedFits, ApplySteps, Rotates,
         KeepsSigner
<1>7. Rewritten'
  <2>1. phase \notin {"commit", "migrate"}
    BY <1>1 DEF SecretInv, StepFits, ApplySteps
  <2> QED  BY <1>1, <1>2, <2>1
           DEF Rewritten, Published, PhaseBundle, PhaseTrust
<1>8. Finished'
  BY <1>1 DEF Finished
<1> QED  BY <1>3, <1>4, <1>5, <1>6, <1>7, <1>8 DEF SecretInv

\* Outside a decision only what runs and what is published matters.
LEMMA OutsideGoverned ==
  ASSUME SecretInv, UNCHANGED <<bundle, trust, deployed>>, ~armed',
         \/ pc' = "idle"
         \/ pc' = "snapshot" /\ phase' = "snapshot" /\ cand' = NoBundle
  PROVE  SecretInv'
<1>1. ~Minted' /\ pc' \notin ApplySteps \cup {"mint", "done"}
  BY DEF Minted, ApplySteps
<1>2. Governed'
  BY <1>1 DEF SecretInv, Governed, Identified
<1>3. StepFits'
  BY DEF StepFits, ApplySteps
<1> QED  BY <1>1, <1>2, <1>3
         DEF SecretInv, PhaseFits, ArmedFits, Rewritten, Finished

\* Helm and the Job around the script; snapshot.sh.
LEMMA JobSecret ==
  ASSUME NoMisread, SecretInv,
         \/ \E r \in Requests : Upgrade(r)
         \/ Snapshot \/ SnapshotGetFails \/ SnapshotRefuses
         \/ \E age \in Ages : MintRefuses(age)
         \/ LosePod \/ GiveUp \/ HelmApplies
  PROVE  SecretInv'
<1> USE DEF ApplySteps
<1>1. ~SnapshotGetFails
  BY DEF SnapshotGetFails, Fault, SecretInv, StepFits, NoMisread
<1>2. ASSUME NEW r \in Requests, Upgrade(r)
      PROVE  SecretInv'
  BY <1>2, OutsideGoverned DEF Upgrade, SecretInv, ArmedFits, secretVars
<1>3. CASE SnapshotRefuses \/ (\E age \in Ages : MintRefuses(age)) \/ GiveUp
           \/ LosePod
  BY <1>3, OutsideGoverned
     DEF SnapshotRefuses, MintRefuses, GiveUp, LosePod, JobFails, secretVars
<1>4. CASE Snapshot
  <2>1. /\ pc = "snapshot" /\ pc' = "mint"
        /\ UNCHANGED <<bundle, trust, ann, deployed, phase, armed, cand>>
    BY <1>4 DEF Snapshot, Goto, secretVars
  <2>2. IF bundle = NoBundle THEN snap' = NoSnapshot
        ELSE /\ snap'.shape # "absent" /\ snap'.bundle = bundle
             /\ snap'.trust = trust /\ snap'.ann = ann
    BY <1>4 DEF Snapshot
  <2>3. Governed'
    BY <2>1, <2>2
       DEF SecretInv, Governed, Identified, Minted, Published, NoSnapshot
  <2>4. ~Minted' /\ StepFits' /\ PhaseFits' /\ Rewritten' /\ Finished'
    BY <2>1 DEF Minted, StepFits, PhaseFits, Rewritten, Finished
  <2>5. ArmedFits'
    BY <2>1 DEF SecretInv, ArmedFits
  <2> QED  BY <2>3, <2>4, <2>5 DEF SecretInv
<1>5. CASE HelmApplies
  <2>1. /\ pc = "done" /\ pc' = "idle" /\ UNCHANGED <<bundle, trust, armed>>
        /\ deployed' = deployed \cup req.members
    BY <1>5 DEF HelmApplies, secretVars
  <2>2. /\ Admitted /\ Finished
        /\ IF snap.shape = "absent" THEN deployed = {}
           ELSE snap.bundle # NoBundle /\ Identified(snap.bundle)
    BY <2>1 DEF SecretInv, Governed, Minted
  <2>3. bundle # NoBundle /\ deployed' \subseteq bundle.members
    BY <2>1, <2>2 DEF Admitted, Finished, Published, Identified
  <2>4. Governed'
    BY <2>1, <2>3 DEF Governed, Identified, Minted
  <2>5. ~Minted' /\ StepFits' /\ PhaseFits' /\ Rewritten' /\ Finished'
    BY <2>1 DEF Minted, StepFits, PhaseFits, Rewritten, Finished
  <2>6. ArmedFits'
    BY <2>1 DEF SecretInv, ArmedFits
  <2> QED  BY <2>4, <2>5, <2>6 DEF SecretInv
<1> QED  BY <1>1, <1>2, <1>3, <1>4, <1>5

\* What mint.sh mints is no empty bundle, and holds what was asked for.
LEMMA Minting ==
  ASSUME NEW age, MintAdmits(age), req \in Request, serial \in Nat,
         snap.bundle \in Bundle
  PROVE  LET new == Candidate(snap.bundle, req, serial + 1)
         IN  /\ new # NoBundle
             /\ Rotates => new.members = req.members
             /\ snap.shape = "absent" => new.members = req.members
<1> USE DEF generate_bundle, generate_dns_bundle, generate_profile_bundle
<1> DEFINE new == Candidate(snap.bundle, req, serial + 1)
<1>1. new.rev = serial + 1
  BY DEF Candidate, Bundle, CA
<1>2. new # NoBundle
  BY <1>1 DEF NoBundle
<1>3. ASSUME Rotates
      PROVE  new.members = req.members
  <2>1. CASE snap.shape = "absent"
    BY <1>3, <2>1 DEF MintAdmits, Rotates
  <2>2. CASE snap.shape # "absent"
    <3>1. AdmitsRotate(snap.shape, snap.bundle, snap.ann.gen, req, age)
      BY <1>3, <2>2 DEF MintAdmits, AdmitsReconcile, Rotates
    <3>2. req.reason \in {"dns", "profile"} => snap.bundle.members = req.members
      BY <3>1 DEF AdmitsRotate
    <3> QED  BY <3>2 DEF Candidate, Bundle
  <2> QED  BY <2>1, <2>2
<1>4. ASSUME snap.shape = "absent"
      PROVE  new.members = req.members
  BY <1>4 DEF MintAdmits, Candidate
<1> QED  BY <1>2, <1>3, <1>4

\* mint.sh's decision, the start of apply.sh and its end.
LEMMA MintSecret ==
  ASSUME SecretInv, StateTyped, JobTyped, BoundsTyped, NEW age \in Ages, Mint(age)
  PROVE  SecretInv'
<1> USE DEF ApplySteps
<1>1. /\ pc = "mint" /\ pc' = "start" /\ MintAdmits(age)
      /\ UNCHANGED <<bundle, trust, ann, deployed, phase, armed, snap, req>>
  BY DEF Mint, Goto, secretVars, jobVars
<1>2. snap.bundle \in Bundle /\ req \in Request /\ serial \in Nat
  BY DEF StateTyped, Snapshots, JobTyped, BoundsTyped
<1>3. /\ IF snap.shape = "absent" THEN deployed = {} /\ bundle = NoBundle
         ELSE /\ snap.bundle # NoBundle /\ Identified(snap.bundle)
              /\ Published(snap.bundle, snap.trust)
      /\ bundle = NoBundle => trust = {}
      /\ Identified(bundle) /\ cand = NoBundle
  BY <1>1 DEF SecretInv, Governed
<1>4. Governed'
  BY <1>1, <1>3 DEF Governed, Identified, Minted
<1>5. snap.shape # "absent" => /\ snap.trust = {snap.bundle.ca}
                               /\ \/ AdmitsReconcile(snap.shape, snap.bundle,
                                                     snap.ann.gen, req)
                                  \/ AdmitsRotate(snap.shape, snap.bundle,
                                                  snap.ann.gen, req, age)
  BY <1>1 DEF MintAdmits, ValidatesActive
<1>6. snap.shape = "absent" => req.op = "reconcile"
  BY <1>1 DEF MintAdmits
<1>7. Rotates => /\ snap.shape = "canonical" /\ snap.ann.gen # req.gen
                 /\ snap.bundle.members \subseteq req.members
  BY <1>2, <1>5, <1>6 DEF AdmitsReconcile, AdmitsRotate, Rotates, Bundle
<1>8. IF Rotates \/ snap.shape = "absent"
      THEN cand'.members = req.members /\ cand' # NoBundle
      ELSE snap.bundle.members = req.members /\ cand' = NoBundle
  <2>1. MintKeeps <=> ~(Rotates \/ snap.shape = "absent")
    BY <1>2 DEF MintKeeps, Rotates, Request
  <2>2. CASE MintKeeps
    BY <1>3, <1>5, <2>1, <2>2 DEF Mint, MintKeeps, AdmitsReconcile, AdmitsRotate
  <2>3. CASE ~MintKeeps
    BY <1>1, <1>2, <2>1, <2>3, Minting DEF Mint
  <2> QED  BY <2>1, <2>2, <2>3
<1>9. Admitted'
  BY <1>1, <1>2, <1>5, <1>7, <1>8 DEF Admitted, Rotates, Request
<1>10. Possible'
  BY <1>1, <1>3, <1>5, <1>6, <1>7 DEF Possible, Published, Rotates
<1>11. StepFits' /\ PhaseFits' /\ ArmedFits' /\ Rewritten' /\ Finished'
  BY <1>1 DEF SecretInv, StepFits, PhaseFits, ArmedFits, Rewritten, Finished
<1> QED  BY <1>4, <1>9, <1>10, <1>11 DEF SecretInv

LEMMA CourseSecret ==
  ASSUME SecretInv, StateTyped, ApplyStart \/ Committed \/ RestartContainer
  PROVE  SecretInv'
<1> USE DEF ApplySteps
<1>1. Minted /\ Minted' /\ UNCHANGED <<bundle, trust, deployed, stateVars, req>>
  BY DEF ApplyStart, Committed, RestartContainer, Enter, Goto, Minted,
     secretVars, jobVars
<1>2. Governed' /\ Admitted' /\ Possible'
  BY <1>1, GovernedKept
<1>3. Rotates' = Rotates /\ KeepsSigner' = KeepsSigner
      /\ snap' = snap /\ cand' = cand
  BY <1>1 DEF Rotates, KeepsSigner, stateVars
<1>4. Admitted /\ Possible /\ Rewritten
  BY <1>1 DEF SecretInv
<1>5. CASE ApplyStart
  <2>1. ~armed
    BY <1>5 DEF ApplyStart, SecretInv, ArmedFits
  <2>2. /\ Rotates => /\ phase' \in {"rotating", "overlap-old"}
                      /\ phase' = "rotating" <=> KeepsSigner
                      /\ pc' = "data" /\ armed' = TRUE
        /\ ~Rotates => /\ ~armed'
                       /\ \/ snap.shape = "absent" /\ phase' = "initial"
                             /\ pc' = "data"
                          \/ snap.shape = "legacy" /\ phase' = "migrate"
                             /\ pc' = "label"
                          \/ snap.shape \notin {"absent", "legacy"}
                             /\ pc' = "done"
    <3>1. CASE Rotates /\ KeepsSigner
      <4>1. Enter("rotating")
        BY <1>4, <1>5, <3>1 DEF ApplyStart, Admitted, Rotates
      <4> QED  BY <3>1, <4>1 DEF Enter, ArmedIn
    <3>2. CASE Rotates /\ ~KeepsSigner
      <4>1. Enter("overlap-old")
        BY <1>4, <1>5, <3>2 DEF ApplyStart, Admitted, Rotates
      <4> QED  BY <3>2, <4>1 DEF Enter, ArmedIn
    <3>3. CASE ~Rotates /\ snap.shape = "absent"
      BY <1>5, <2>1, <3>3 DEF ApplyStart, Rotates, Enter, ArmedIn
    <3>4. CASE ~Rotates /\ snap.shape = "legacy"
      BY <1>5, <2>1, <3>4 DEF ApplyStart, Rotates, Enter, ArmedIn
    <3>5. CASE ~Rotates /\ snap.shape \notin {"absent", "legacy"}
      BY <1>5, <2>1, <3>5 DEF ApplyStart, Rotates, Goto
    <3> QED  BY <3>1, <3>2, <3>3, <3>4, <3>5
  <2>3. StepFits' /\ PhaseFits' /\ ArmedFits'
    BY <1>3, <1>4, <2>1, <2>2
       DEF StepFits, PhaseFits, ArmedFits, Admitted, ApplyPhases, Phases
  <2>4. Rewritten' /\ Finished'
    BY <1>1, <1>3, <1>4, <2>2 DEF Rewritten, Finished, Possible, Published
  <2> QED  BY <1>2, <2>3, <2>4 DEF SecretInv
<1>6. CASE Committed
  <2>1. /\ pc = "committed" /\ pc' = "done" /\ ~armed'
        /\ phase \in {"commit", "migrate"}
    BY <1>6 DEF Committed, SecretInv, StepFits
  <2>2. Finished'
    BY <1>1, <1>3, <1>4, <2>1
       DEF Finished, Rewritten, Possible, Published, SecretInv, PhaseFits,
           RollbackPhases
  <2> QED  BY <1>2, <2>1, <2>2
           DEF SecretInv, StepFits, PhaseFits, ArmedFits, Rewritten
<1>7. CASE RestartContainer
  BY <1>2, <1>7
     DEF RestartContainer, SecretInv, StepFits, PhaseFits, ArmedFits, Rewritten,
         Finished
<1> QED  BY <1>5, <1>6, <1>7

\* The controllers copy the Secret; they change neither it nor the script.
LEMMA PodsSecret ==
  ASSUME SecretInv,
         \/ UNCHANGED vars
         \/ \E w \in Workloads :
              Controller(w) \/ \E p \in pods[w] : ReplacePod(w, p)
  PROVE  SecretInv'
<1>1. UNCHANGED <<secretVars, deployed, pc, phase, armed, stateVars, jobVars>>
  BY DEF vars, Controller, StartPod, StopPod, ReplacePod
<1> QED  BY <1>1
         DEF SecretInv, Governed, Identified, Minted, Admitted, Possible,
             Published, StepFits, PhaseFits, ArmedFits, Rewritten, Finished,
             Rotates, KeepsSigner, PhaseBundle, PhaseTrust, secretVars,
             stateVars, jobVars

LEMMA SecretNext ==
  ASSUME NoMisread, PartsTyped, SecretInv, [Next]_vars
  PROVE  SecretInv'
  BY ScriptSecret, WriteSecret, JobSecret, MintSecret, CourseSecret, PodsSecret
     DEF Next, HookStep, FaultStep, ScriptStep, PartsTyped

\* The hook, its failures and the cluster keep the Secret to what the phase
\* says of it, whenever an absent Secret is only read where there is none.
THEOREM SecretHeld ==
  ASSUME NoMisread
  PROVE  Spec => []SecretInv
<1>1. Init => PartsTyped
  BY InitTyped, TypedParts DEF PartsTyped
<1>2. PartsTyped /\ [Next]_vars => PartsTyped'
  BY PartsTypedNext
<1>3. PartsTyped /\ SecretInv /\ [Next]_vars => SecretInv'
  BY SecretNext
<1> QED  BY <1>1, <1>2, <1>3, SecretInit, PTL DEF Spec

\* No workload that runs is ever without its identity in the Secret, whatever
\* fails: a rotation adds identities before anything asks for them, and takes
\* the additions back only where nothing runs with them yet (apply.sh).
THEOREM RunningIdentified ==
  ASSUME NoMisread
  PROVE  Spec => []RunningHaveIdentity
<1>1. SecretInv => RunningHaveIdentity
  BY DEF SecretInv, Governed, Identified, RunningHaveIdentity
<1> QED  BY SecretHeld, <1>1, PTL

\* A reconcile never replaces trust that exists, not even when it is killed in
\* the middle of an initialization and starts over with what it has minted
\* (apply.sh, mint.sh).
THEOREM ReconcileKeepsTrust ==
  ASSUME NoMisread
  PROVE  Spec => ReconcilePreserves
<1>1. ASSUME SecretInv, [Next]_vars, pc # "idle", ~Rotates, bundle # NoBundle
      PROVE  UNCHANGED <<bundle, trust>>
  <2>1. CASE WriteData
    <3>1. snap.shape = "absent" /\ bundle' = cand /\ trust' = {cand.ca}
      BY <1>1, <2>1, PhaseMaterial DEF WriteData
    <3>2. Published(cand, {cand.ca})
      BY <1>1, <2>1, <3>1
         DEF SecretInv, Possible, Minted, WriteData, ApplySteps, Published
    <3> QED  BY <3>1, <3>2 DEF Published
  <2>2. CASE ~WriteData
    BY <1>1, <2>2, ScriptKeeps
       DEF Next, HookStep, FaultStep, ScriptStep, vars, secretVars, Upgrade,
           Snapshot, SnapshotRefuses, SnapshotGetFails, Mint, MintRefuses,
           ApplyStart, Committed, RestartContainer, LosePod, GiveUp,
           HelmApplies, Controller, StartPod, StopPod, ReplacePod
  <2> QED  BY <2>1, <2>2
<1>2. SecretInv /\ [Next]_vars
        => [(pc # "idle" /\ req.op = "reconcile" /\ bundle # NoBundle)
              => UNCHANGED <<bundle, trust>>]_vars
  BY <1>1 DEF Rotates
<1> QED  BY SecretHeld, <1>2, PTL DEF ReconcilePreserves, Spec

(***************************************************************************)
(* The metadata.                                                           *)
(***************************************************************************)
\* The last phase of a rollback meets no failed call, and nothing but a lost
\* container or pod stops a commit.
RestoreUndisturbed ==
    FaultPoints \cap (({"api", "patch", "rollout"} \X {"restore"})
                      \cup ({"api", "term"} \X {"commit"})) = {}

\* The generation g over the revision rev is recorded, ready or not yet ready.
Recorded(g, rev) ==
    ann.state = "stable" /\ ann.gen = g /\ ann.rev = rev /\ ~ann.canRollback
Announced(g, rev) == IsCanonical(ann) /\ ann.gen = g /\ ann.rev = rev

\* The hook left what it found: data, trust and metadata.
Restored ==
    /\ Published(snap.bundle, snap.trust)
    /\ Announced(snap.ann.gen, snap.ann.rev)

RollingOut == pc \in {"next", "patch", "status", "ready"}

SnapshotFits ==
    /\ pc = "snapshot" => snap = NoSnapshot
    /\ snap.shape = "canonical" /\ (pc = "mint" \/ Minted)
         => IsCanonical(snap.ann)

Announcing ==
    /\ pc \in ApplySteps /\ phase = "restore" =>
         /\ pc # "data" => Published(snap.bundle, {snap.bundle.ca})
         /\ RollingOut => Recorded(snap.ann.gen, snap.ann.rev) /\ ~missed
    /\ phase = "initial" /\ RollingOut => Recorded(req.gen, cand.rev)
    /\ pc = "committed" /\ phase = "commit" => Announced(req.gen, cand.rev)
    /\ pc = "done" /\ cand # NoBundle => Announced(req.gen, cand.rev)

GivesUpRestored ==
    pc = "exited" /\ restarts = MaxRestarts /\ ~lost /\ snap.shape = "canonical"
      => Restored

MetadataInv ==
    SnapshotFits /\ Announcing /\ GivesUpRestored /\ AllOrNothing

\* What a step of the script does to the metadata: it dies, is killed, goes on
\* without a word, announces the phase, calls it ready, or turns to another.
Dies == Die /\ phase \notin RollbackPhases \cup {"commit"} /\ UNCHANGED ann
Quiet == /\ Passes /\ UNCHANGED ann /\ pc' # "committed"
         /\ phase \in {"initial", "restore"} => (RollingOut' => RollingOut)
         /\ phase = "restore" => UNCHANGED missed /\ pc # "data"
Turns == Advances /\ UNCHANGED ann

LEMMA MetadataSteps ==
  ASSUME RestoreUndisturbed, SecretInv, MetadataInv, ScriptStep
  PROVE  pc \in ApplySteps
         /\ (Dies \/ Kill \/ Quiet \/ AnnotateSecret \/ RecordReady \/ Turns)
<1> USE DEF ApplySteps, RollbackPhases, RollingOut
<1>1. StepFits
  BY DEF SecretInv
<1>2. /\ <<"api", "commit">> \notin FaultPoints
      /\ <<"term", "commit">> \notin FaultPoints
      /\ <<"api", "restore">> \notin FaultPoints
      /\ <<"patch", "restore">> \notin FaultPoints
      /\ <<"rollout", "restore">> \notin FaultPoints
  BY DEF RestoreUndisturbed
<1>3. pc \in ApplySteps
  BY <1>1, ScriptMoves DEF Moves
<1>4. CASE LabelSecret
  BY <1>4 DEF LabelSecret, AfterCall, Goto, Quiet, Passes, rolloutVars
<1>5. ASSUME NEW w \in Workloads, GetWorkload(w) \/ SkipWorkload(w)
      PROVE  Quiet
  <2>1. CASE GetWorkload(w)
    BY <2>1 DEF GetWorkload, IsNext, Goto, Quiet, Passes, secretVars
  <2>2. CASE SkipWorkload(w)
    BY <2>2 DEF SkipWorkload, IsNext, Quiet, Passes, secretVars
  <2> QED  BY <1>5, <2>1, <2>2
<1>6. CASE PatchWorkload \/ RolloutConverges
  BY <1>6 DEF PatchWorkload, RolloutConverges, Goto, Quiet, Passes, secretVars,
     rolloutVars
<1>7. CASE PatchFails \/ RolloutTimesOut
  BY <1>2, <1>7 DEF PatchFails, RolloutTimesOut, Fault, Goto, Quiet, Passes,
     secretVars
<1>8. CASE EndRollout
  <2>1. CASE ~missed
    BY <1>8, <2>1 DEF EndRollout, Goto, Quiet, Passes, secretVars, rolloutVars
  <2>2. CASE missed /\ phase \in RollbackPhases
    <3>1. phase # "restore"
      BY <1>8, <2>2 DEF EndRollout, MetadataInv, Announcing
    <3>2. AfterRollout /\ pc = "next" /\ UNCHANGED ann
      BY <1>8, <2>2 DEF EndRollout, secretVars
    <3> QED  BY <2>2, <3>1, <3>2 DEF AfterRollout, Turns, Advances
  <2>3. CASE missed /\ phase \notin RollbackPhases
    BY <1>1, <1>8, <2>3 DEF EndRollout, Dies, StepFits, secretVars
  <2> QED  BY <2>1, <2>2, <2>3
<1>9. CASE OverlapOpen \/ CreateHistory
  BY <1>1, <1>9 DEF OverlapOpen, CreateHistory, Turns, Advances, StepFits,
     secretVars
<1>10. CASE CheckHistory \/ OverlapExpired \/ HistoryFails \/ Terminate
  <2>1. CASE Die
    BY <1>1, <1>2, <1>10, <2>1
       DEF CheckHistory, OverlapExpired, HistoryFails, Terminate, Dies, Fault,
           StepFits, secretVars
  <2>2. CASE ~Die
    BY <1>1, <1>10, <2>2
       DEF CheckHistory, OverlapExpired, HistoryFails, Terminate, Goto, Quiet,
           Passes, StepFits, secretVars
  <2> QED  BY <2>1, <2>2
<1>11. CASE CallFails
  <2>1. phase \notin {"restore", "commit"}
    BY <1>2, <1>11 DEF CallFails, Fault
  <2>2. UNCHANGED ann
    BY <1>11 DEF CallFails, secretVars
  <2>3. CASE phase \notin RollbackPhases
    BY <1>11, <2>1, <2>2, <2>3 DEF CallFails, Dies
  <2>4. CASE phase \in RollbackPhases /\ pc = "ready"
    BY <1>11, <2>1, <2>2, <2>4 DEF CallFails, AfterCall, AfterRollout, Turns,
       Advances
  <2>5. CASE phase \in RollbackPhases /\ pc # "ready"
    BY <1>11, <2>1, <2>2, <2>5 DEF CallFails, AfterCall, Goto, Quiet, Passes
  <2> QED  BY <2>3, <2>4, <2>5
<1> QED  BY <1>3, <1>4, <1>5, <1>6, <1>7, <1>8, <1>9, <1>10, <1>11
         DEF ScriptStep

\* Where nothing the metadata is about changes, and nothing is claimed anew.
LEMMA MetadataScript ==
  ASSUME RestoreUndisturbed, SecretInv, MetadataInv, Vetted, SecretTyped,
         ScriptStep
  PROVE  MetadataInv'
<1> USE DEF ApplySteps, RollbackPhases, RollingOut
<1>1. /\ UNCHANGED <<bundle, trust, snap, cand, req>>
      /\ Rotates' = Rotates /\ KeepsSigner' = KeepsSigner
  BY ScriptKeeps DEF stateVars, Rotates, KeepsSigner
<1>2. pc \in ApplySteps /\ Minted
      /\ (Dies \/ Kill \/ Quiet \/ AnnotateSecret \/ RecordReady \/ Turns)
  BY MetadataSteps DEF Minted
<1>3. /\ StepFits /\ PhaseFits /\ ArmedFits /\ Admitted
      /\ SnapshotFits /\ Announcing
      /\ Rotates \/ snap.shape # "canonical"
  BY <1>2 DEF SecretInv, PhaseFits, StepFits, MetadataInv
<1>4. SnapshotFits' /\ AllOrNothing'
  <2>1. pc' \in {"exited", "done"} \cup ApplySteps
    BY <1>3, ScriptMoves DEF Moves, Passes, Stops, RollsBack, Initialized,
       Advances, Enter
  <2> QED  BY <1>1, <1>2, <1>3, <2>1 DEF SnapshotFits, AllOrNothing
<1>5. CASE Dies
  <2>1. CASE Rotates
    <3>1. /\ pc' = "data" /\ phase' \in {"restore", "rollback-new-dual"}
      BY <1>2, <1>3, <1>5, <2>1 DEF Dies, Die, Enter, ArmedFits
    <3> QED  BY <1>1, <1>4, <3>1
             DEF MetadataInv, Announcing, GivesUpRestored
  <2>2. CASE ~Rotates
    <3>1. pc' = "exited" /\ phase' = phase
      BY <1>3, <1>5, <2>2 DEF Dies, Die, Goto, ArmedFits
    <3> QED  BY <1>1, <1>3, <1>4, <2>2, <3>1
             DEF MetadataInv, Announcing, GivesUpRestored
  <2> QED  BY <2>1, <2>2
<1>6. CASE Kill
  BY <1>4, <1>6 DEF Kill, Goto, MetadataInv, Announcing,
     GivesUpRestored
<1>7. CASE Quiet
  <2>1. /\ pc' \in ApplySteps \ {"data", "committed"}
        /\ UNCHANGED <<phase, armed, ann>>
        /\ phase \in {"initial", "restore"} => (RollingOut' => RollingOut)
        /\ phase = "restore" => UNCHANGED missed /\ pc # "data"
    BY <1>7 DEF Quiet, Passes
  <2>2. GivesUpRestored'
    BY <2>1 DEF GivesUpRestored
  <2>3. Announcing'
    BY <1>1, <1>2, <1>3, <2>1 DEF Announcing, Published, Recorded
  <2> QED  BY <1>4, <2>2, <2>3 DEF MetadataInv
<1>8. CASE Turns
  <2>1. /\ pc' \in {"data", "label"} /\ phase' # "initial"
        /\ phase' = "restore" => pc' = "data"
    BY <1>8 DEF Turns, Advances, Enter
  <2> QED  BY <1>1, <1>2, <1>3, <1>4, <2>1
           DEF MetadataInv, Announcing, GivesUpRestored
<1>9. CASE AnnotateSecret
  <2>1. /\ pc = "annotate" /\ ~missed' /\ UNCHANGED <<phase, armed>>
        /\ phase \in {"commit", "migrate"}
             => pc' = "committed" /\ ann' = FinalAnnotations
        /\ phase \notin {"commit", "migrate"}
             => pc' = "next" /\ ann' = PendingAnnotations(phase)
    BY <1>9 DEF AnnotateSecret, AfterCall, Goto, StartRollout
  <2>2. ASSUME phase = "restore"
        PROVE  Recorded(snap.ann.gen, snap.ann.rev)'
               /\ Published(snap.bundle, {snap.bundle.ca})
    <3>1. Rotates /\ snap.shape = "canonical" /\ ~armed
      BY <1>2, <1>3, <2>2 DEF PhaseFits, Admitted, ArmedFits
    <3>2. snap.ann.rev = snap.bundle.rev
      BY <1>2, <3>1 DEF Vetted, Verified
    <3>3. Published(snap.bundle, {snap.bundle.ca})
      BY <1>3, <2>1, <2>2 DEF Announcing
    <3> QED  BY <1>1, <2>1, <2>2, <3>1, <3>2, <3>3
             DEF Recorded, PendingAnnotations, PhaseState, PhaseGen,
                 PhaseBundle, WritesOld
  <2>3. ASSUME phase = "initial"
        PROVE  Recorded(req.gen, cand.rev)'
    <3>1. ~armed
      BY <1>2, <1>3, <2>3 DEF PhaseFits, Admitted, ArmedFits
    <3> QED  BY <1>1, <2>1, <2>3, <3>1
             DEF Recorded, PendingAnnotations, PhaseState, PhaseGen,
                 PhaseBundle, WritesOld
  <2>4. ASSUME phase = "commit"
        PROVE  Announced(req.gen, cand.rev)'
    BY <1>1, <2>1, <2>4 DEF Announced, IsCanonical, FinalAnnotations,
       StableAnnotations, StableToken
  <2>5. GivesUpRestored'
    BY <2>1 DEF GivesUpRestored
  <2>6. Announcing'
    BY <1>1, <1>2, <1>3, <2>1, <2>2, <2>3, <2>4 DEF Announcing, Published
  <2> QED  BY <1>4, <2>5, <2>6 DEF MetadataInv
<1>10. CASE RecordReady
  <2>1. /\ pc = "ready" /\ AfterRollout
        /\ ann'.state = ann.state /\ ann'.gen = ann.gen /\ ann'.rev = ann.rev
        /\ ann'.canRollback = ann.canRollback
        /\ ann'.ready /\ ann'.readyToken = PhaseToken(phase)
    BY <1>10 DEF RecordReady, AfterCall, SecretTyped, Annotations
  <2>2. CASE phase = "initial"
    <3>1. pc' = "done" /\ UNCHANGED <<phase, armed>>
      BY <2>1, <2>2 DEF AfterRollout, Goto
    <3>2. Announced(req.gen, cand.rev)'
      BY <1>1, <1>3, <2>1, <2>2
         DEF Announcing, Recorded, Announced, IsCanonical, PhaseToken,
             PhaseGen, WritesOld, DualTrust
    <3> QED  BY <1>1, <1>4, <2>2, <3>1, <3>2
             DEF MetadataInv, Announcing, GivesUpRestored
  <2>3. CASE phase = "restore"
    <3>1. pc' = "exited" /\ UNCHANGED <<phase, armed>>
      BY <2>1, <2>3 DEF AfterRollout, Goto
    <3>2. /\ Published(snap.bundle, {snap.bundle.ca})
          /\ Recorded(snap.ann.gen, snap.ann.rev)
      BY <1>2, <1>3, <2>1, <2>3 DEF Announcing
    <3>3. snap.shape # "absent" /\ snap.trust = {snap.bundle.ca}
      BY <1>2, <1>3, <2>3 DEF PhaseFits, Admitted
    <3>4. Announced(snap.ann.gen, snap.ann.rev)'
      BY <1>1, <2>1, <2>3, <3>2
         DEF Recorded, Announced, IsCanonical, PhaseToken, PhaseGen,
             WritesOld, DualTrust
    <3>5. Restored'
      BY <1>1, <3>2, <3>3, <3>4 DEF Restored, Published
    <3> QED  BY <1>1, <1>4, <2>3, <3>1, <3>5
             DEF MetadataInv, Announcing, GivesUpRestored
  <2>4. CASE phase \notin {"initial", "restore"}
    <3>1. CASE phase = "rotating"
      BY <1>1, <1>2, <1>3, <1>4, <2>1, <3>1
         DEF AfterRollout, Enter, MetadataInv, Announcing, GivesUpRestored
    <3>2. CASE phase \in {"overlap-old", "overlap-new", "retiring"}
      <4>1. pc' \in {"gate", "check-history"} /\ UNCHANGED <<phase, armed>>
        BY <2>1, <3>2 DEF AfterRollout, Goto
      <4> QED  BY <1>1, <1>2, <1>3, <1>4, <3>2, <4>1
               DEF MetadataInv, Announcing, GivesUpRestored
    <3>3. CASE phase \in {"rollback-new-dual", "rollback-old-dual"}
      <4>1. /\ pc' = "data" /\ phase' \in {"rollback-old-dual", "restore"}
        BY <2>1, <3>3 DEF AfterRollout, Enter
      <4> QED  BY <1>1, <1>2, <1>3, <1>4, <3>3, <4>1
               DEF MetadataInv, Announcing, GivesUpRestored
    <3> QED  BY <1>2, <1>3, <2>1, <2>4, <3>1, <3>2, <3>3
             DEF StepFits, ApplyPhases, Phases
  <2> QED  BY <2>2, <2>3, <2>4
<1> QED  BY <1>2, <1>5, <1>6, <1>7, <1>8, <1>9, <1>10

LEMMA MetadataWrite ==
  ASSUME SecretInv, MetadataInv, WriteData
  PROVE  MetadataInv'
<1> USE DEF ApplySteps, RollingOut
<1>1. /\ pc = "data" /\ pc' = "label"
      /\ bundle' = PhaseBundle(phase) /\ trust' = PhaseTrust(phase)
      /\ UNCHANGED <<phase, armed, snap, cand, req>>
  BY DEF WriteData, AfterCall, Goto, jobVars, stateVars
<1>2. phase = "restore" => Published(snap.bundle, {snap.bundle.ca})'
  BY <1>1 DEF Published, PhaseBundle, PhaseTrust, WritesOld, DualTrust
<1>3. Minted /\ Rotates' = Rotates /\ KeepsSigner' = KeepsSigner
  BY <1>1 DEF Minted, Rotates, KeepsSigner
<1> QED  BY <1>1, <1>2, <1>3
         DEF MetadataInv, SnapshotFits, Announcing,
             GivesUpRestored, AllOrNothing

\* Outside the script: what a decision rests on, and what a Job leaves.
LEMMA MetadataJob ==
  ASSUME NoMisread, SecretInv, MetadataInv, SecretTyped,
         \/ \E r \in Requests : Upgrade(r)
         \/ Snapshot \/ SnapshotGetFails \/ SnapshotRefuses
         \/ \E age \in Ages : Mint(age) \/ MintRefuses(age)
         \/ LosePod \/ GiveUp \/ HelmApplies
  PROVE  MetadataInv'
<1> USE DEF ApplySteps, RollingOut, Minted
<1>1. ~SnapshotGetFails
  BY DEF SnapshotGetFails, Fault, SecretInv, StepFits, NoMisread
<1>2. CASE (\E r \in Requests : Upgrade(r)) \/ LosePod
  <2>1. pc' = "snapshot" /\ phase' = "snapshot" /\ snap' = NoSnapshot
    BY <1>2 DEF Upgrade, LosePod
  <2> QED  BY <2>1 DEF MetadataInv, SnapshotFits, Announcing,
           GivesUpRestored, AllOrNothing
<1>3. CASE Snapshot
  <2>1. pc' = "mint" /\ UNCHANGED <<phase, ann>>
    BY <1>3 DEF Snapshot, Goto, secretVars
  <2>2. snap'.shape = "canonical" => IsCanonical(snap.ann)'
    BY <1>3 DEF Snapshot, NoSnapshot, SnapshotAccepts, IsLegacy, IsCanonical
  <2> QED  BY <2>1, <2>2 DEF MetadataInv, SnapshotFits, Announcing, GivesUpRestored, AllOrNothing
<1>4. CASE SnapshotRefuses
  <2>1. /\ pc' = "idle" /\ phase' = "none" /\ result' = "failed"
        /\ snap' = NoSnapshot
    BY <1>4 DEF SnapshotRefuses, JobFails, stateVars, MetadataInv, SnapshotFits
  <2> QED  BY <2>1 DEF MetadataInv, SnapshotFits, Announcing,
           GivesUpRestored, AllOrNothing, NoSnapshot
<1>5. ASSUME NEW age \in Ages, Mint(age)
      PROVE  MetadataInv'
  <2>1. pc = "mint" /\ pc' = "start" /\ UNCHANGED <<phase, snap>>
    BY <1>5 DEF Mint, Goto
  <2> QED  BY <2>1 DEF MetadataInv, SnapshotFits, Announcing,
           GivesUpRestored, AllOrNothing
<1>6. ASSUME NEW age \in Ages, MintRefuses(age)
      PROVE  MetadataInv'
  <2>1. /\ pc = "mint" /\ pc' = "idle" /\ phase' = "none"
        /\ result' = "failed" /\ UNCHANGED <<bundle, trust, ann, snap>>
    BY <1>6 DEF MintRefuses, JobFails, stateVars, secretVars
  <2>2. snap.shape = "canonical"
          => Published(snap.bundle, snap.trust) /\ ann = snap.ann
             /\ IsCanonical(snap.ann)
    BY <2>1 DEF SecretInv, Governed, MetadataInv, SnapshotFits
  <2> QED  BY <2>1, <2>2 DEF MetadataInv, SnapshotFits, Announcing, GivesUpRestored, AllOrNothing, Published
<1>7. CASE GiveUp
  <2>1. /\ pc = "exited" /\ restarts = MaxRestarts
        /\ pc' = "idle" /\ phase' = "none" /\ result' = "failed"
        /\ UNCHANGED <<bundle, trust, ann, snap, lost>>
    BY <1>7 DEF GiveUp, JobFails, stateVars, secretVars
  <2>2. ~lost /\ snap.shape = "canonical" => Restored
    BY <2>1 DEF MetadataInv, GivesUpRestored
  <2> QED  BY <2>1, <2>2 DEF MetadataInv, SnapshotFits, Announcing, GivesUpRestored, AllOrNothing, Restored, Published,
           Announced
<1>8. CASE HelmApplies
  <2>1. /\ pc = "done" /\ pc' = "idle" /\ phase' = "none"
        /\ result' = "succeeded"
        /\ UNCHANGED <<bundle, trust, ann, snap, cand, req, lost>>
    BY <1>8 DEF HelmApplies, stateVars, secretVars
  <2>2. cand # NoBundle
          => Announced(req.gen, cand.rev) /\ Published(cand, {cand.ca})
    BY <2>1 DEF MetadataInv, Announcing, SecretInv, Finished, Admitted
  <2> QED  BY <2>1, <2>2 DEF MetadataInv, SnapshotFits, Announcing, GivesUpRestored, AllOrNothing, Published, Announced
<1> QED  BY <1>1, <1>2, <1>3, <1>4, <1>5, <1>6, <1>7, <1>8

LEMMA MetadataCourse ==
  ASSUME SecretInv, MetadataInv, ApplyStart \/ Committed \/ RestartContainer
  PROVE  MetadataInv'
<1> USE DEF ApplySteps, RollingOut, Minted
<1>1. /\ UNCHANGED <<bundle, trust, ann, snap, cand, req>>
      /\ Rotates' = Rotates /\ KeepsSigner' = KeepsSigner
      /\ pc \in {"start", "committed", "exited"}
      /\ pc' \in {"start", "done", "data", "label"}
  BY DEF ApplyStart, Committed, RestartContainer, Enter, Goto, stateVars,
     jobVars, secretVars, Rotates, KeepsSigner
<1>2. SnapshotFits' /\ GivesUpRestored' /\ AllOrNothing'
  BY <1>1 DEF MetadataInv, SnapshotFits, GivesUpRestored, AllOrNothing
<1>3. Admitted
  BY <1>1 DEF SecretInv
<1>4. CASE ApplyStart
  <2>1. CASE Rotates
    <3>1. pc' = "data" /\ phase' \in {"rotating", "overlap-old"}
      <4>1. CASE KeepsSigner
        <5>1. Enter("rotating")
          BY <1>3, <1>4, <2>1, <4>1 DEF ApplyStart, Rotates, Admitted
        <5> QED  BY <5>1 DEF Enter
      <4>2. CASE ~KeepsSigner
        <5>1. Enter("overlap-old")
          BY <1>3, <1>4, <2>1, <4>2 DEF ApplyStart, Rotates, Admitted
        <5> QED  BY <5>1 DEF Enter
      <4> QED  BY <4>1, <4>2
    <3> QED  BY <1>2, <3>1 DEF MetadataInv, Announcing
  <2>2. CASE ~Rotates
    <3>1. /\ pc' = "data" => phase' = "initial"
          /\ pc' = "label" => phase' = "migrate"
          /\ pc' = "done" => snap.shape \notin {"absent", "legacy"}
      <4>1. CASE snap.shape = "absent"
        BY <1>4, <2>2, <4>1 DEF ApplyStart, Rotates, Enter
      <4>2. CASE snap.shape = "legacy"
        BY <1>4, <2>2, <4>2 DEF ApplyStart, Rotates, Enter
      <4>3. CASE snap.shape \notin {"absent", "legacy"}
        BY <1>4, <2>2, <4>3 DEF ApplyStart, Rotates, Goto
      <4> QED  BY <4>1, <4>2, <4>3
    <3>2. pc' = "done" => cand = NoBundle
      BY <1>3, <2>2, <3>1 DEF Admitted
    <3>3. pc' \in {"data", "label", "done"}
      BY <1>4 DEF ApplyStart, Enter, Goto
    <3> QED  BY <1>1, <1>2, <2>2, <3>1, <3>2, <3>3
             DEF MetadataInv, Announcing
  <2> QED  BY <2>1, <2>2
<1>5. CASE Committed
  <2>1. pc = "committed" /\ pc' = "done" /\ UNCHANGED phase
        /\ phase \in {"commit", "migrate"}
    BY <1>5 DEF Committed, SecretInv, StepFits
  <2>2. phase = "migrate" => cand = NoBundle
    BY <1>3, <2>1 DEF SecretInv, PhaseFits, Admitted
  <2>3. phase = "commit" => Announced(req.gen, cand.rev)
    BY <2>1 DEF MetadataInv, Announcing
  <2> QED  BY <1>1, <1>2, <2>1, <2>2, <2>3
           DEF MetadataInv, Announcing, Announced
<1>6. CASE RestartContainer
  <2>1. pc' = "start" /\ phase' = "snapshot"
    BY <1>6 DEF RestartContainer
  <2> QED  BY <1>2, <2>1 DEF MetadataInv, Announcing
<1> QED  BY <1>4, <1>5, <1>6

LEMMA MetadataPods ==
  ASSUME MetadataInv,
         \/ UNCHANGED vars
         \/ \E w \in Workloads :
              Controller(w) \/ \E p \in pods[w] : ReplacePod(w, p)
  PROVE  MetadataInv'
<1>1. UNCHANGED <<secretVars, pc, phase, rolloutVars, armed, stateVars, jobVars>>
  BY DEF vars, Controller, StartPod, StopPod, ReplacePod
<1> QED  BY <1>1
         DEF MetadataInv, SnapshotFits, Announcing, RollingOut,
             GivesUpRestored, AllOrNothing, Restored, Minted, Published,
             Recorded, Announced, Rotates, KeepsSigner, secretVars, rolloutVars,
             stateVars, jobVars

LEMMA MetadataNext ==
  ASSUME NoMisread, RestoreUndisturbed, PartsTyped, Vetted, SecretInv,
         MetadataInv, [Next]_vars
  PROVE  MetadataInv'
  BY MetadataScript, MetadataWrite, MetadataJob, MetadataCourse, MetadataPods
     DEF Next, HookStep, FaultStep, ScriptStep, PartsTyped

\* A Job that kept its pod and whose last attempt could run its exit trap left
\* the generation it minted live, or the one it found: data, trust and metadata
\* together (apply.sh, on_exit and annotate_secret), as long as the last phase
\* of the rollback and the final annotation meet no failing call.
THEOREM HookIsAllOrNothing ==
  ASSUME NoMisread, RestoreUndisturbed
  PROVE  Spec => []AllOrNothing
<1>1. Init => MetadataInv
  <2>1. Init => pc = "idle" /\ phase = "none" /\ result = "none"
    BY DEF Init
  <2> QED  BY <2>1 DEF MetadataInv, SnapshotFits, Announcing,
           RollingOut, GivesUpRestored, AllOrNothing, Minted, ApplySteps
<1>2. Init => PartsTyped /\ Vetted
  <2>1. Init => PartsTyped
    BY InitTyped, TypedParts DEF PartsTyped
  <2>2. Init => Vetted
    BY DEF Init, Vetted, NoSnapshot, Shapes, ApplySteps
  <2> QED  BY <2>1, <2>2
<1>3. PartsTyped /\ [Next]_vars => PartsTyped'
  BY PartsTypedNext
<1>4. PartsTyped /\ Vetted /\ SecretInv /\ MetadataInv /\ [Next]_vars
        => MetadataInv'
  BY MetadataNext
<1>5. MetadataInv => AllOrNothing
  BY DEF MetadataInv
<1> QED  BY <1>1, <1>2, <1>3, <1>4, <1>5, VettedNext, SecretHeld, PTL DEF Spec

(***************************************************************************)
(* The history.                                                            *)
(***************************************************************************)
\* Serials are given out in order: nothing anywhere is younger than the last.
KnownBundle(b) == b.rev <= serial /\ b.ca.cert <= serial /\ b.ca.key <= serial
KnownRoots(roots) == \A c \in roots : c.cert <= serial
KnownTemplate(t) == t.rev <= serial /\ KnownRoots(t.trust)

KnownSecret ==
    /\ KnownBundle(bundle) /\ KnownRoots(trust) /\ ann.rev <= serial
    /\ \A entry \in history : entry[1].cert <= serial
KnownState ==
    /\ KnownBundle(snap.bundle) /\ KnownBundle(cand) /\ KnownRoots(snap.trust)
KnownCluster ==
    \A w \in Workloads : /\ KnownTemplate(template[w])
                         /\ \A p \in pods[w] : KnownTemplate(p.template)

Known == KnownSecret /\ KnownState /\ KnownCluster

\* Once the retirement is recorded nothing but a lost pod stops the hook.
CommitUndisturbed ==
    FaultPoints \cap ({"api", "term", "kill"} \X {"commit"}) = {}

Recording == phase = "commit" /\ pc \in {"done"} \cup ApplySteps

\* What a rotation mints has no past; what it replaces was never retired.
Succeeds ==
    Minted /\ Rotates /\ ~KeepsSigner =>
      /\ cand.ca # snap.bundle.ca /\ cand.ca.cert = cand.rev
      /\ Recording => HistoryEntry \in history

NeverRetired ==
    Minted => \A entry \in history :
      /\ cand # NoBundle => entry[1] # cand.ca
      /\ Rotates /\ ~Recording => entry[1] # snap.bundle.ca

HistoryInv ==
    /\ Succeeds /\ NeverRetired
    /\ pc = "exited" => phase # "commit"
    /\ HistoryTruthful

\* What a step leaves alone stays known, also when a serial is given out.
LEMMA KnownKept ==
  ASSUME PartsTyped, Known,
         UNCHANGED serial \/ serial' = serial + 1
  PROVE  /\ UNCHANGED <<bundle, trust, ann, history>> => KnownSecret'
         /\ UNCHANGED snap => KnownBundle(snap.bundle)' /\ KnownRoots(snap.trust)'
         /\ UNCHANGED cand => KnownBundle(cand)'
         /\ UNCHANGED <<template, pods>> => KnownCluster'
<1>1. /\ serial \in Nat /\ bundle \in Bundle /\ trust \subseteq CA
      /\ ann.rev \in Nat /\ history \subseteq CA \X CA
      /\ snap.bundle \in Bundle /\ snap.trust \subseteq CA /\ cand \in Bundle
  BY DEF PartsTyped, SecretTyped, StateTyped, BoundsTyped, Snapshots, Annotations
<1>2. \A n \in Nat : n <= serial => n <= serial'
  BY <1>1
<1>3. ASSUME NEW b \in Bundle, KnownBundle(b)
      PROVE  b.rev <= serial' /\ b.ca.cert <= serial' /\ b.ca.key <= serial'
  BY <1>2, <1>3 DEF KnownBundle, Bundle, CA
<1>4. ASSUME NEW roots \in SUBSET CA, KnownRoots(roots)
      PROVE  \A c \in roots : c.cert <= serial'
  BY <1>2, <1>4 DEF KnownRoots, CA
<1>5. \A entry \in history : entry[1].cert <= serial'
  BY <1>1, <1>2 DEF Known, KnownSecret, CA
<1>6. ASSUME NEW t \in PodTemplate, KnownTemplate(t)
      PROVE  t.rev <= serial' /\ \A c \in t.trust : c.cert <= serial'
  BY <1>2, <1>4, <1>6 DEF KnownTemplate, PodTemplate
<1>7. UNCHANGED <<bundle, trust, ann, history>> => KnownSecret'
  <2>1. /\ KnownBundle(bundle) /\ KnownRoots(trust) /\ ann.rev <= serial
    BY DEF Known, KnownSecret
  <2>2. ann.rev <= serial'
    BY <1>1, <1>2, <2>1
  <2> QED  BY <1>1, <1>3, <1>4, <1>5, <2>1, <2>2
           DEF KnownSecret, KnownBundle, KnownRoots
<1>8. UNCHANGED snap => KnownBundle(snap.bundle)' /\ KnownRoots(snap.trust)'
  BY <1>1, <1>3, <1>4 DEF Known, KnownState, KnownBundle, KnownRoots
<1>9. UNCHANGED cand => KnownBundle(cand)'
  BY <1>1, <1>3 DEF Known, KnownState, KnownBundle
<1>10. UNCHANGED <<template, pods>> => KnownCluster'
  <2>1. /\ \A w \in Workloads : template[w] \in PodTemplate
        /\ \A w \in Workloads : \A p \in pods[w] : p.template \in PodTemplate
    BY DEF PartsTyped, ClusterTyped, Pod
  <2>2. ASSUME UNCHANGED <<template, pods>>, NEW w \in Workloads
        PROVE  /\ KnownTemplate(template[w])'
               /\ \A p \in pods[w] : KnownTemplate(p.template)'
    BY <1>6, <2>1, <2>2 DEF Known, KnownCluster, KnownTemplate, KnownRoots
  <2> QED  BY <2>2 DEF KnownCluster
<1> QED  BY <1>7, <1>8, <1>9, <1>10

\* What a phase writes is made of what the hook found and what it minted.
LEMMA PhaseKnownBytes ==
  ASSUME KnownState, NEW p
  PROVE  /\ KnownBundle(PhaseBundle(p)) /\ KnownRoots(PhaseTrust(p))
         /\ KnownTemplate(PhaseTemplate(p))
<1>1. KnownBundle(PhaseBundle(p))
  BY DEF KnownState, PhaseBundle
<1>2. KnownRoots(PhaseTrust(p))
  BY <1>1 DEF KnownState, KnownBundle, KnownRoots, PhaseTrust
<1> QED  BY <1>1, <1>2 DEF KnownTemplate, KnownBundle, PhaseTemplate

LEMMA KnownMint ==
  ASSUME PartsTyped, Known, NEW age \in Ages, Mint(age)
  PROVE  Known'
<1>1. /\ UNCHANGED <<bundle, trust, ann, history, template, pods, snap>>
      /\ UNCHANGED serial \/ serial' = serial + 1
  BY DEF Mint, secretVars, clusterVars
<1>2. KnownSecret' /\ KnownCluster'
      /\ KnownBundle(snap.bundle)' /\ KnownRoots(snap.trust)'
  BY <1>1, KnownKept
<1>3. KnownBundle(cand)'
  <2>1. CASE MintKeeps
    <3>1. UNCHANGED cand
      BY <2>1 DEF Mint
    <3> QED  BY <1>1, <3>1, KnownKept
  <2>2. CASE ~MintKeeps
    <3>1. cand' = Candidate(snap.bundle, req, serial + 1) /\ serial' = serial + 1
      BY <2>2 DEF Mint
    <3>2. snap.bundle \in Bundle /\ serial \in Nat
      BY DEF PartsTyped, StateTyped, Snapshots, BoundsTyped
    <3>3. /\ snap.bundle.ca.cert <= serial' /\ snap.bundle.ca.key <= serial'
      BY <3>1, <3>2 DEF Known, KnownState, KnownBundle, Bundle, CA
    <3>4. CASE req.reason = "dns"
      <4>1. cand' = generate_dns_bundle(snap.bundle, req, serial + 1)
        BY <3>1, <3>4 DEF Candidate
      <4>2. cand'.rev = serial + 1 /\ cand'.ca = snap.bundle.ca
        BY <3>2, <4>1 DEF generate_dns_bundle, Bundle
      <4> QED  BY <3>1, <3>2, <3>3, <4>2 DEF KnownBundle
    <3>5. CASE req.reason = "profile"
      <4>1. cand' = generate_profile_bundle(snap.bundle, serial + 1)
        BY <3>1, <3>5 DEF Candidate
      <4>2. /\ cand'.rev = serial + 1 /\ cand'.ca.cert = serial + 1
            /\ cand'.ca.key = snap.bundle.ca.key
        BY <3>2, <4>1 DEF generate_profile_bundle, Bundle, CA
      <4> QED  BY <3>1, <3>2, <3>3, <4>2 DEF KnownBundle
    <3>6. CASE req.reason \notin {"dns", "profile"}
      BY <3>1, <3>2, <3>6 DEF Candidate, generate_bundle, KnownBundle
    <3> QED  BY <3>4, <3>5, <3>6
  <2> QED  BY <2>1, <2>2
<1> QED  BY <1>2, <1>3 DEF Known, KnownState

\* The pods that start have a template their workload or a pod of it had.
LEMMA KnownPods ==
  ASSUME PartsTyped, Known,
         \/ HelmApplies
         \/ \E w \in Workloads :
              Controller(w) \/ \E p \in pods[w] : ReplacePod(w, p)
  PROVE  Known'
<1>1. UNCHANGED <<bundle, trust, ann, history, template, snap, cand, serial>>
  BY DEF HelmApplies, Controller, StartPod, StopPod, ReplacePod, secretVars,
     stateVars
<1>2. KnownSecret' /\ KnownState'
  BY <1>1, KnownKept DEF KnownState
<1>3. pods \in [Workloads -> SUBSET Pod]
  BY DEF PartsTyped, ClusterTyped
<1>4. ASSUME NEW v \in Workloads, NEW q \in pods'[v]
      PROVE  \/ q.template = template[v]
             \/ \E p \in pods[v] : q.template = p.template
  BY <1>3, <1>4 DEF HelmApplies, Controller, StartPod, StopPod, ReplacePod, PodOf
<1>5. KnownCluster'
  <2>1. ASSUME NEW v \in Workloads
        PROVE  /\ KnownTemplate(template[v])'
               /\ \A q \in pods'[v] : KnownTemplate(q.template)'
    BY <1>1, <1>4 DEF Known, KnownCluster, KnownTemplate, KnownRoots
  <2> QED  BY <2>1 DEF KnownCluster
<1> QED  BY <1>2, <1>5 DEF Known

LEMMA KnownScript ==
  ASSUME PartsTyped, Known, ScriptStep \/ WriteData
  PROVE  Known'
<1>1. /\ UNCHANGED <<snap, cand, serial, pods>>
      /\ AnnotateSecret \/ RecordReady \/ UNCHANGED ann
      /\ WriteData \/ UNCHANGED <<bundle, trust>>
      /\ PatchWorkload \/ UNCHANGED template
      /\ CreateHistory \/ UNCHANGED history
  BY DEF ScriptStep, WriteData, LabelSecret, AnnotateSecret, GetWorkload,
     SkipWorkload, PatchWorkload, RolloutConverges, EndRollout, RecordReady,
     OverlapOpen, CheckHistory, CreateHistory, CallFails, PatchFails,
     RolloutTimesOut, OverlapExpired, HistoryFails, Terminate, Kill, secretVars,
     stateVars, clusterVars
<1>2. KnownState /\ KnownState'
  BY <1>1, KnownKept DEF KnownState, Known
<1>3. \A p : /\ KnownBundle(PhaseBundle(p)) /\ KnownRoots(PhaseTrust(p))
             /\ KnownTemplate(PhaseTemplate(p))
  BY <1>2, PhaseKnownBytes
<1>4. KnownBundle(bundle)' /\ KnownRoots(trust)'
  <2>1. CASE WriteData
    BY <1>1, <1>3, <2>1 DEF WriteData, KnownBundle, KnownRoots
  <2>2. CASE ~WriteData
    BY <1>1, <2>2 DEF Known, KnownSecret, KnownBundle, KnownRoots
  <2> QED  BY <2>1, <2>2
<1>5. ann'.rev <= serial'
  <2>1. CASE AnnotateSecret
    <3>1. ann'.rev \in {snap.bundle.rev, cand.rev}
      BY <2>1 DEF AnnotateSecret, FinalAnnotations, StableAnnotations,
         PendingAnnotations, PhaseBundle
    <3> QED  BY <1>1, <1>2, <3>1 DEF KnownState, KnownBundle
  <2>2. CASE RecordReady
    BY <1>1, <2>2 DEF RecordReady, Known, KnownSecret, PartsTyped, SecretTyped,
       Annotations
  <2>3. CASE UNCHANGED ann
    BY <1>1, <2>3 DEF Known, KnownSecret
  <2> QED  BY <1>1, <2>1, <2>2, <2>3
<1>6. \A entry \in history' : entry[1].cert <= serial'
  BY <1>1, <1>2 DEF CreateHistory, HistoryEntry, Known, KnownSecret, KnownState,
     KnownBundle
<1>7. KnownCluster'
  <2>1. ASSUME NEW w \in Workloads
        PROVE  template'[w] \in {template[w], PhaseTemplate(phase)}
    BY <1>1, <2>1 DEF PatchWorkload, PartsTyped, ClusterTyped
  <2> QED  BY <1>1, <1>3, <2>1
           DEF Known, KnownCluster, KnownTemplate, KnownRoots
<1> QED  BY <1>2, <1>4, <1>5, <1>6, <1>7 DEF Known, KnownSecret

LEMMA KnownNext ==
  ASSUME PartsTyped, Known, [Next]_vars
  PROVE  Known'
<1>1. KnownBundle(NoBundle) /\ KnownRoots({})
  BY DEF KnownBundle, KnownRoots, NoBundle, PartsTyped, BoundsTyped
<1>2. ASSUME UNCHANGED <<bundle, trust, ann, history, template, pods, serial>>,
             \/ snap' \in {snap, NoSnapshot}
             \/ snap'.bundle = bundle /\ snap'.trust = trust,
             cand' \in {cand, NoBundle}
      PROVE  Known'
  <2>1. KnownSecret' /\ KnownCluster'
    BY <1>2, KnownKept
  <2>2. KnownState'
    BY <1>1, <1>2 DEF Known, KnownSecret, KnownState, KnownBundle, KnownRoots,
       NoSnapshot
  <2> QED  BY <2>1, <2>2 DEF Known
<1>3. CASE \/ UNCHANGED vars
           \/ \E r \in Requests : Upgrade(r)
           \/ Snapshot \/ SnapshotRefuses \/ SnapshotGetFails
           \/ \E age \in Ages : MintRefuses(age)
           \/ ApplyStart \/ Committed \/ RestartContainer \/ LosePod \/ GiveUp
  BY <1>2, <1>3 DEF vars, Upgrade, Snapshot, SnapshotRefuses, SnapshotGetFails,
     MintRefuses, ApplyStart, Committed, RestartContainer, LosePod, GiveUp,
     secretVars, clusterVars, stateVars
<1> QED  BY <1>3, KnownMint, KnownPods, KnownScript
         DEF Next, HookStep, FaultStep, ScriptStep

LEMMA KnownInit == Init => Known
<1> SUFFICES ASSUME Init
             PROVE  Known
  OBVIOUS
<1> USE DEF KnownBundle, KnownRoots, KnownTemplate
<1>1. /\ serial = 1 /\ history = {} /\ snap = NoSnapshot /\ cand = NoBundle
      /\ template = [w \in Workloads |-> ChartTemplate(FirstGeneration)]
  BY DEF Init
<1>2. KnownState
  BY <1>1 DEF KnownState, NoSnapshot, NoBundle
<1>3. KnownTemplate(ChartTemplate(FirstGeneration))
  BY <1>1 DEF ChartTemplate
<1>4. KnownSecret /\ \A w \in Workloads : \A p \in pods[w] :
         p.template = ChartTemplate(FirstGeneration)
  <2>1. CASE EmptyCluster
    BY <1>1, <2>1 DEF EmptyCluster, KnownSecret, NoBundle, Unset
  <2>2. ASSUME NEW exact \in BOOLEAN,
               NEW annotations \in {Unset, StableAnnotations(FirstGeneration,
                                                     InitialBundle(exact))},
               RunningCluster(InitialBundle(exact), annotations)
        PROVE  <1>4
    <3>1. annotations.rev <= 1
      BY DEF Unset, StableAnnotations, InitialBundle
    <3>2. KnownSecret
      BY <1>1, <2>2, <3>1 DEF RunningCluster, KnownSecret, InitialBundle
    <3> QED  BY <2>2, <3>2 DEF RunningCluster
  <2> QED  BY <2>1, <2>2 DEF Init
<1>5. KnownCluster
  BY <1>1, <1>3, <1>4 DEF KnownCluster
<1> QED  BY <1>2, <1>4, <1>5 DEF Known

\* What mint.sh mints is a new revision; under a new signer unless asked to
\* keep it.
LEMMA MintsNew ==
  ASSUME PartsTyped, Known, NEW age, MintAdmits(age)
  PROVE  LET new == Candidate(snap.bundle, req, serial + 1)
         IN  /\ new.rev = serial + 1
             /\ ~KeepsSigner => /\ new.ca.cert = serial + 1
                                /\ new.ca.key = serial + 1
             /\ req.reason = "dns" => new.ca = snap.bundle.ca
             /\ req.reason = "profile" => /\ new.ca.cert = serial + 1
                                          /\ new.ca.key = snap.bundle.ca.key
<1> DEFINE new == Candidate(snap.bundle, req, serial + 1)
<1>1. snap.bundle \in Bundle /\ serial \in Nat
  BY DEF PartsTyped, StateTyped, Snapshots, BoundsTyped
<1>2. CASE req.reason = "dns"
  <2>1. new = generate_dns_bundle(snap.bundle, req, serial + 1)
    BY <1>2 DEF Candidate
  <2> QED  BY <1>1, <1>2, <2>1 DEF generate_dns_bundle, Bundle, KeepsSigner,
           SignerPreservingReasons
<1>3. CASE req.reason = "profile"
  <2>1. new = generate_profile_bundle(snap.bundle, serial + 1)
    BY <1>3 DEF Candidate
  <2>2. /\ new.rev = serial + 1 /\ new.ca.cert = serial + 1
        /\ new.ca.key = snap.bundle.ca.key
    <3>1. snap.bundle.ca \in CA
      BY <1>1 DEF Bundle
    <3> HIDE DEF new
    <3> QED  BY <1>1, <2>1, <3>1 DEF generate_profile_bundle, Bundle, CA
  <2> QED  BY <1>3, <2>2 DEF KeepsSigner, SignerPreservingReasons
<1>4. CASE req.reason \notin {"dns", "profile"}
  BY <1>4 DEF Candidate, generate_bundle
<1> QED  BY <1>2, <1>3, <1>4

LEMMA HistoryMint ==
  ASSUME PartsTyped, Known, SecretInv, HistoryInv, NEW age \in Ages, Mint(age),
         Admitted'
  PROVE  HistoryInv'
<1>1. /\ pc = "mint" /\ pc' = "start" /\ MintAdmits(age)
      /\ UNCHANGED <<bundle, trust, ann, history, snap, req>>
      /\ Rotates' = Rotates /\ KeepsSigner' = KeepsSigner
      /\ Recording' = FALSE
  BY DEF Mint, Goto, secretVars, jobVars, Rotates, KeepsSigner, Recording,
     ApplySteps
<1>2. MintKeeps => cand' = NoBundle /\ ~Rotates
  BY <1>1 DEF Mint, SecretInv, Governed, MintKeeps, Rotates
<1>3. ~MintKeeps => cand' = Candidate(snap.bundle, req, serial + 1)
  BY DEF Mint
<1>4. serial \in Nat /\ KnownBundle(snap.bundle)
      /\ snap.bundle \in Bundle /\ history \subseteq CA \X CA
      /\ \A entry \in history : entry[1].cert <= serial
  BY DEF PartsTyped, BoundsTyped, StateTyped, Snapshots, SecretTyped, Known,
     KnownState, KnownSecret
<1>5. snap.shape # "absent" => /\ bundle = snap.bundle /\ trust = snap.trust
                               /\ snap.trust = {snap.bundle.ca}
  BY <1>1 DEF SecretInv, Governed, Published, MintAdmits, ValidatesActive
<1>6. \A entry \in history : snap.shape # "absent" => entry[1] # snap.bundle.ca
  BY <1>5 DEF HistoryInv, HistoryTruthful, HistoryOnlyRetired
<1>7. Rotates => snap.shape # "absent"
  BY <1>1 DEF MintAdmits, Rotates
<1>8. Succeeds'
  BY <1>1, <1>2, <1>3, <1>4, MintsNew
     DEF Succeeds, KnownBundle, Bundle, CA
<1>9. NeverRetired'
  <2> SUFFICES ASSUME NEW entry \in history
               PROVE  /\ cand' # NoBundle => entry[1] # cand'.ca
                      /\ Rotates => entry[1] # snap.bundle.ca
    BY <1>1 DEF NeverRetired
  <2>1. entry[1] \in CA /\ entry[1].cert <= serial
    BY <1>4
  <2>2. CASE MintKeeps
    BY <1>2, <2>2
  <2>3. CASE ~MintKeeps /\ req.reason = "dns"
    <3>1. snap.shape # "absent"
      BY <1>1, <2>3 DEF MintAdmits
    <3> QED  BY <1>1, <1>3, <1>6, <2>3, <3>1, MintsNew
  <2>4. CASE ~MintKeeps /\ req.reason # "dns"
    <3>1. cand'.ca.cert = serial + 1
      BY <1>1, <1>3, <2>4, MintsNew DEF KeepsSigner, SignerPreservingReasons
    <3> QED  BY <1>4, <1>6, <1>7, <2>1, <3>1 DEF CA
  <2> QED  BY <2>2, <2>3, <2>4
<1>10. HistoryTruthful'
  BY <1>1 DEF HistoryInv, HistoryTruthful, HistoryOnlyRetired, LineageRecorded
<1> QED  BY <1>1, <1>8, <1>9, <1>10 DEF HistoryInv

\* Under the premise a commit only goes on.
LEMMA CommitGoesOn ==
  ASSUME CommitUndisturbed, StepFits, ScriptStep, phase = "commit"
  PROVE  LabelSecret \/ AnnotateSecret
<1>1. /\ <<"api", "commit">> \notin FaultPoints
      /\ <<"term", "commit">> \notin FaultPoints
      /\ <<"kill", "commit">> \notin FaultPoints
  BY DEF CommitUndisturbed
<1>2. pc \notin {"data", "next", "patch", "status", "ready", "gate",
                 "check-history", "history"}
  BY DEF StepFits
<1> QED  BY <1>1, <1>2
         DEF ScriptStep, GetWorkload, SkipWorkload, IsNext, PatchWorkload,
             RolloutConverges, EndRollout, RecordReady, OverlapOpen,
             CheckHistory, CreateHistory, CallFails, PatchFails,
             RolloutTimesOut, OverlapExpired, HistoryFails, Terminate, Kill,
             Fault

LEMMA HistoryScript ==
  ASSUME CommitUndisturbed, PartsTyped, SecretInv, HistoryInv, ScriptStep
  PROVE  HistoryInv'
<1> USE DEF ApplySteps
<1>1. /\ UNCHANGED <<bundle, trust, snap, cand, req>>
      /\ Rotates' = Rotates /\ KeepsSigner' = KeepsSigner
      /\ HistoryEntry' = HistoryEntry
  BY ScriptKeeps DEF stateVars, Rotates, KeepsSigner, HistoryEntry
<1>2. Moves /\ StepFits /\ pc \in ApplySteps /\ Minted
  BY ScriptMoves DEF SecretInv, Moves, Minted
<1>3. Succeeds /\ NeverRetired /\ HistoryTruthful /\ Admitted /\ PhaseFits
      /\ Rewritten
  BY <1>2 DEF HistoryInv, SecretInv
<1>4. CASE phase = "commit"
  <2>1. /\ pc' \in ApplySteps /\ UNCHANGED <<phase, history>>
        /\ AnnotateSecret \/ UNCHANGED ann
    BY <1>4, CommitGoesOn, <1>2
       DEF LabelSecret, AnnotateSecret, AfterCall, Goto
  <2>2. Succeeds' /\ NeverRetired' /\ HistoryOnlyRetired'
    BY <1>1, <1>2, <1>3, <1>4, <2>1
       DEF Succeeds, NeverRetired, Recording, Minted, HistoryTruthful,
           HistoryOnlyRetired
  <2>3. LineageRecorded'
    <3>1. CASE AnnotateSecret
      <4>1. ann' = FinalAnnotations
        BY <1>4, <3>1 DEF AnnotateSecret
      <4>2. ann'.rev = cand.rev /\ ann'.previousCa = PreviousCa("commit")
        BY <1>4, <4>1 DEF FinalAnnotations, StableAnnotations
      <4>3. CASE KeepsSigner
        BY <4>2, <4>3 DEF PreviousCa, LineageRecorded
      <4>4. CASE ~KeepsSigner
        <5>1. /\ HistoryEntry \in history /\ cand.ca.cert = cand.rev
          BY <1>2, <1>3, <1>4, <4>4 DEF Succeeds, PhaseFits, Recording
        <5>2. PreviousCa("commit") = snap.bundle.ca.cert
          BY <4>4 DEF PreviousCa
        <5> QED  BY <2>1, <4>2, <5>1, <5>2 DEF LineageRecorded, HistoryEntry
      <4> QED  BY <4>3, <4>4
    <3>2. CASE UNCHANGED ann
      BY <1>3, <2>1, <3>2 DEF HistoryTruthful, LineageRecorded
    <3> QED  BY <2>1, <3>1, <3>2
  <2> QED  BY <1>2, <2>1, <2>2, <2>3 DEF HistoryInv, HistoryTruthful
<1>5. CASE CreateHistory
  <2>1. /\ pc = "history" /\ phase = "retiring" /\ phase' = "commit"
        /\ pc' = "label" /\ history' = history \cup {HistoryEntry}
        /\ UNCHANGED ann
    BY <1>2, <1>5 DEF CreateHistory, Enter, StepFits, secretVars
  <2>2. Rotates /\ ~KeepsSigner /\ ~Recording
    BY <1>2, <1>3, <2>1 DEF PhaseFits, Recording
  <2>3. cand.ca # snap.bundle.ca /\ trust = {cand.ca}
    BY <1>2, <1>3, <2>1, <2>2
       DEF Succeeds, Rewritten, RollbackPhases, Published, PhaseTrust,
           PhaseBundle, DualTrust, WritesOld
  <2>4. HistoryEntry[1] = snap.bundle.ca
    BY DEF HistoryEntry
  <2>5. Succeeds'
    BY <1>1, <1>2, <1>3, <2>1, <2>2 DEF Succeeds
  <2>6. Recording'
    BY <2>1 DEF Recording
  <2>7. NeverRetired'
    BY <1>1, <1>2, <1>3, <2>1, <2>3, <2>4, <2>6 DEF NeverRetired
  <2>8. HistoryOnlyRetired'
    BY <1>1, <1>3, <2>1, <2>3, <2>4 DEF HistoryTruthful, HistoryOnlyRetired
  <2>9. LineageRecorded'
    BY <1>3, <2>1 DEF HistoryTruthful, LineageRecorded
  <2> QED  BY <2>1, <2>5, <2>7, <2>8, <2>9 DEF HistoryInv, HistoryTruthful
<1>6. CASE phase # "commit" /\ ~CreateHistory
  <2>1. UNCHANGED history
    BY <1>6 DEF ScriptStep, LabelSecret, AnnotateSecret, GetWorkload,
       SkipWorkload, PatchWorkload, RolloutConverges, EndRollout, RecordReady,
       OverlapOpen, CheckHistory, CallFails, PatchFails, RolloutTimesOut,
       OverlapExpired, HistoryFails, Terminate, Kill
  <2>2. Rotates /\ ~KeepsSigner => phase' # "commit"
    <3>1. pc = "history" => phase' # "commit"
      BY <1>6 DEF ScriptStep, LabelSecret, AnnotateSecret, GetWorkload,
         SkipWorkload, IsNext, PatchWorkload, RolloutConverges, EndRollout,
         RecordReady, OverlapOpen, CheckHistory, CallFails, PatchFails,
         RolloutTimesOut, OverlapExpired, HistoryFails, Terminate, Kill, Die,
         Enter, Goto
    <3> QED  BY <1>2, <1>3, <1>6, <3>1
             DEF Moves, Passes, Stops, RollsBack, Initialized, Advances, Enter,
                 PhaseFits
  <2>3. ~Recording /\ Minted'
    BY <1>2, <1>6 DEF Recording, Minted, Moves, Passes, Stops, RollsBack,
       Initialized, Advances, Enter
  <2>4. Succeeds' /\ NeverRetired' /\ HistoryOnlyRetired'
    BY <1>1, <1>2, <1>3, <2>1, <2>2, <2>3
       DEF Succeeds, NeverRetired, Recording, HistoryTruthful,
           HistoryOnlyRetired
  <2>5. pc' = "exited" => phase' # "commit"
    BY <1>2, <1>6
       DEF Moves, Passes, Stops, RollsBack, Initialized, Advances, Enter
  <2>6. LineageRecorded'
    <3>1. CASE AnnotateSecret /\ phase = "migrate"
      BY <3>1 DEF AnnotateSecret, FinalAnnotations, PreviousCa,
         StableAnnotations, LineageRecorded
    <3>2. CASE AnnotateSecret /\ phase # "migrate"
      <4>1. ann' = PendingAnnotations(phase)
        BY <1>6, <3>2 DEF AnnotateSecret
      <4>2. phase \in ApplyPhases
        BY <1>2 DEF StepFits
      <4>3. ann'.state = "stable" => phase \in {"initial", "restore"}
        BY <4>1, <4>2 DEF PendingAnnotations, PhaseState, ApplyPhases, Phases,
           RollbackPhases
      <4>4. phase \in {"initial", "restore"} => ann'.previousCa = 0
        BY <4>1 DEF PendingAnnotations, PreviousCa
      <4> QED  BY <4>3, <4>4 DEF LineageRecorded
    <3>3. CASE ~AnnotateSecret
      <4>1. /\ ann'.state = ann.state /\ ann'.rev = ann.rev
            /\ ann'.previousCa = ann.previousCa
        <5>1. RecordReady \/ UNCHANGED ann
          BY <3>3 DEF ScriptStep, LabelSecret, GetWorkload, SkipWorkload,
             PatchWorkload, RolloutConverges, EndRollout, OverlapOpen,
             CheckHistory, CreateHistory, CallFails, PatchFails,
             RolloutTimesOut, OverlapExpired, HistoryFails, Terminate, Kill,
             secretVars
        <5> QED  BY <5>1 DEF RecordReady, PartsTyped, SecretTyped, Annotations
      <4> QED  BY <1>3, <2>1, <4>1 DEF HistoryTruthful, LineageRecorded
    <3> QED  BY <3>1, <3>2, <3>3
  <2> QED  BY <2>4, <2>5, <2>6 DEF HistoryInv, HistoryTruthful
<1> QED  BY <1>4, <1>5, <1>6

LEMMA HistoryWrite ==
  ASSUME SecretInv, HistoryInv, WriteData
  PROVE  HistoryInv'
<1> USE DEF ApplySteps
<1>1. /\ pc = "data" /\ pc' = "label"
      /\ bundle' = PhaseBundle(phase) /\ trust' = PhaseTrust(phase)
      /\ UNCHANGED <<phase, ann, history, snap, cand, req>>
      /\ Rotates' = Rotates /\ KeepsSigner' = KeepsSigner
      /\ HistoryEntry' = HistoryEntry
  BY DEF WriteData, AfterCall, Goto, jobVars, stateVars, Rotates, KeepsSigner,
     HistoryEntry
<1>2. Minted /\ ~Recording /\ ~Recording' /\ Admitted
  BY <1>1 DEF SecretInv, StepFits, Minted, Recording
<1>3. Succeeds' /\ NeverRetired' /\ LineageRecorded'
  BY <1>1, <1>2 DEF HistoryInv, Succeeds, NeverRetired, HistoryTruthful,
     LineageRecorded
<1>4. HistoryOnlyRetired'
  <2>1. \A entry \in history : /\ cand # NoBundle => entry[1] # cand.ca
                               /\ Rotates => entry[1] # snap.bundle.ca
    BY <1>2 DEF HistoryInv, NeverRetired
  <2>2. CASE Rotates
    BY <1>1, <1>2, <2>1, <2>2, PhaseMaterial DEF HistoryOnlyRetired, Admitted
  <2>3. CASE ~Rotates
    BY <1>1, <1>2, <2>1, <2>3, PhaseMaterial DEF HistoryOnlyRetired, Admitted
  <2> QED  BY <2>2, <2>3
<1> QED  BY <1>1, <1>3, <1>4 DEF HistoryInv, HistoryTruthful

LEMMA HistoryJob ==
  ASSUME SecretInv, HistoryInv,
         \/ UNCHANGED vars
         \/ \E r \in Requests : Upgrade(r)
         \/ Snapshot \/ SnapshotGetFails \/ SnapshotRefuses
         \/ \E age \in Ages : MintRefuses(age)
         \/ ApplyStart \/ Committed \/ RestartContainer
         \/ LosePod \/ GiveUp \/ HelmApplies
         \/ \E w \in Workloads :
              Controller(w) \/ \E p \in pods[w] : ReplacePod(w, p)
  PROVE  HistoryInv'
<1> USE DEF ApplySteps
<1>1. UNCHANGED <<trust, ann, history>>
  BY DEF vars, Upgrade, Snapshot, SnapshotGetFails, SnapshotRefuses,
     MintRefuses, ApplyStart, Committed, RestartContainer, LosePod, GiveUp,
     HelmApplies, Controller, StartPod, StopPod, ReplacePod, secretVars
<1>2. HistoryTruthful'
  BY <1>1 DEF HistoryInv, HistoryTruthful, HistoryOnlyRetired, LineageRecorded
<1>3. CASE \/ \E r \in Requests : Upgrade(r)
           \/ Snapshot \/ SnapshotGetFails \/ SnapshotRefuses
           \/ \E age \in Ages : MintRefuses(age)
           \/ LosePod \/ GiveUp \/ HelmApplies
  <2>1. pc' \in {"idle", "snapshot", "mint"}
    BY <1>3 DEF Upgrade, Snapshot, SnapshotGetFails, SnapshotRefuses,
       MintRefuses, LosePod, GiveUp, HelmApplies, JobFails, Goto
  <2> QED  BY <1>2, <2>1 DEF HistoryInv, Succeeds, NeverRetired, Minted
<1>4. CASE ApplyStart \/ Committed \/ RestartContainer
  <2>1. /\ Minted /\ Minted' /\ pc' # "exited"
        /\ UNCHANGED <<snap, cand, req>>
        /\ Rotates' = Rotates /\ KeepsSigner' = KeepsSigner
        /\ HistoryEntry' = HistoryEntry
    BY <1>4 DEF ApplyStart, Committed, RestartContainer, Enter, Goto, Minted,
       stateVars, jobVars, Rotates, KeepsSigner, HistoryEntry
  <2>2. Rotates => (Recording' <=> Recording)
    <3>1. CASE ApplyStart
      <4>1. Rotates => phase' \in {"rotating", "overlap-old"}
        BY <3>1 DEF ApplyStart, SecretInv, Minted, Admitted, Rotates, Enter
      <4> QED  BY <3>1, <4>1 DEF Recording, ApplyStart
    <3>2. CASE Committed
      BY <3>2 DEF Recording, Committed
    <3>3. CASE RestartContainer
      BY <3>3 DEF Recording, RestartContainer
    <3> QED  BY <1>4, <3>1, <3>2, <3>3
  <2> QED  BY <1>1, <1>2, <2>1, <2>2 DEF HistoryInv, Succeeds, NeverRetired
<1>5. CASE \/ UNCHANGED vars
           \/ \E w \in Workloads :
                Controller(w) \/ \E p \in pods[w] : ReplacePod(w, p)
  <2>1. UNCHANGED <<snap, cand, req, pc, phase>>
    BY <1>5 DEF vars, Controller, StartPod, StopPod, ReplacePod, stateVars,
       jobVars
  <2> QED  BY <1>1, <1>2, <2>1
           DEF HistoryInv, Succeeds, NeverRetired, Minted, Recording, Rotates,
               KeepsSigner, HistoryEntry
<1> QED  BY <1>3, <1>4, <1>5

LEMMA HistoryNext ==
  ASSUME CommitUndisturbed, PartsTyped, Known, SecretInv, SecretInv',
         HistoryInv, [Next]_vars
  PROVE  HistoryInv'
<1>1. ASSUME NEW age \in Ages, Mint(age)
      PROVE  HistoryInv'
  <2>1. Admitted'
    BY <1>1 DEF Mint, Goto, SecretInv, Minted
  <2> QED  BY <1>1, <2>1, HistoryMint
<1> QED  BY <1>1, HistoryScript, HistoryWrite, HistoryJob
         DEF Next, HookStep, FaultStep, ScriptStep

\* The history Secrets are the record of what was retired, no more and no less
\* (apply.sh:304-325): after a rollback or a second attempt a recorded CA is
\* never live trust again, and a generation that names a predecessor has the
\* record of it; unless the final annotation fails or is interrupted, which
\* leaves a record behind and the retired root live.
THEOREM HistoryIsTruthful ==
  ASSUME NoMisread, CommitUndisturbed
  PROVE  Spec => []HistoryTruthful
<1>1. Init => HistoryInv
  <2>1. Init => pc = "idle" /\ history = {} /\ ann.previousCa = 0
    BY DEF Init, EmptyCluster, RunningCluster, Unset, StableAnnotations
  <2> QED  BY <2>1 DEF HistoryInv, Succeeds, NeverRetired, Minted, ApplySteps,
           HistoryTruthful, HistoryOnlyRetired, LineageRecorded
<1>2. Init => PartsTyped
  BY InitTyped, TypedParts DEF PartsTyped
<1>3. PartsTyped /\ [Next]_vars => PartsTyped'
  BY PartsTypedNext
<1>4. PartsTyped /\ Known /\ [Next]_vars => Known'
  BY KnownNext
<1>5. PartsTyped /\ Known /\ SecretInv /\ SecretInv' /\ HistoryInv /\ [Next]_vars
        => HistoryInv'
  BY HistoryNext
<1>6. HistoryInv => HistoryTruthful
  BY DEF HistoryInv
<1> QED  BY <1>1, <1>2, <1>3, <1>4, <1>5, <1>6, KnownInit, SecretHeld, PTL
         DEF Spec
================================================================================

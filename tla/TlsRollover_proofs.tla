--------------------------- MODULE TlsRollover_proofs ---------------------------
(***************************************************************************)
(* The pods of the workloads while the trust changes under them: the hook  *)
(* is a trust rollover, and what its metadata announces is what the pods   *)
(* run with, for any workloads, requests and bounds, and for every fault   *)
(* that a theorem does not exclude by name.                                *)
(***************************************************************************)
EXTENDS TlsRotation_proofs

(***************************************************************************)
(* The rollout, by phase.                                                  *)
(***************************************************************************)
\* Where a rotation that replaces the signer has to go through: every rollout
\* that the next phase counts on reaches every workload that is there, the
\* first one ends, and no container is killed where the next attempt would
\* start from pods that no longer trust the old root.
RolloverUndisturbed ==
    FaultPoints \cap
      (({"get"} \X DualTrust)
       \cup ({"api", "patch", "rollout", "term"} \X {"overlap-old"})
       \cup ({"api", "patch", "rollout"}
               \X {"rollback-new-dual", "rollback-old-dual"})
       \cup ({"kill"} \X {"retiring", "commit", "rollback-new-dual"})) = {}

\* A leaf and roots that get along with every other whose signer is in S and
\* whose roots hold S.
Suits(b, roots, S) == b.ca.key \in S /\ S \subseteq {c.key : c \in roots}

Agreed(S) ==
    /\ bundle # NoBundle => Suits(bundle, trust, S)
    /\ \A w \in Workloads : \A q \in pods[w] : Suits(q.bundle, q.trust, S)

\* A rotation that replaces the signer, and the two signers.
Replaces == Minted /\ Rotates /\ ~KeepsSigner
Old == snap.bundle.ca.key
New == cand.ca.key
Both == {snap.bundle.ca, cand.ca}

InPhase(P) == pc \in ApplySteps /\ phase \in P

Agreements ==
    /\ \E S : Agreed(S)
    /\ Minted /\ Rotates /\ KeepsSigner => Old = New /\ Agreed({Old})
    /\ Replaces =>
         /\ Old # New /\ snap.bundle.rev # cand.rev
         /\ pc \in {"start", "exited"} \/ InPhase({"overlap-old"})
              => Agreed({Old}) \/ Agreed({Old, New})
         /\ InPhase({"overlap-new", "rollback-old-dual"}) => Agreed({Old, New})
         /\ InPhase({"retiring", "commit"}) => Agreed({New})
         /\ InPhase({"rollback-new-dual"}) => Agreed({New}) \/ Agreed({Old, New})
         /\ InPhase({"restore"}) => Agreed({Old})

\* Which templates are about, and what the pods that have them have copied.
Carried(t) == \E w \in deployed : \/ template[w] = t
                                  \/ \E q \in pods[w] : q.template = t
CopiedBy(t, b, roots) ==
    \A w \in deployed : \A q \in pods[w] :
      q.template = t => q.bundle = b /\ q.trust = roots

Overlapping == PhaseTemplate("overlap-old")

Templates ==
    /\ \A w \in Workloads \ deployed : pods[w] = {}
    /\ Replaces =>
         /\ pc \in {"start", "exited"} \/ InPhase({"overlap-old", "overlap-new"})
              => /\ Carried(Overlapping) => trust = Both
                 /\ \A w \in deployed : \A q \in pods[w] :
                      q.template = Overlapping => q.trust = Both
         /\ InPhase({"rollback-old-dual", "restore"}) => ~Carried(Overlapping)
         /\ InPhase({"overlap-new", "retiring", "commit"})
              => ~Carried(PhaseTemplate("rollback-new-dual"))
         /\ InPhase(DualTrust \ {"overlap-old"}) =>
              /\ pc = "data" => ~Carried(PhaseTemplate(phase))
              /\ pc # "data" => Published(PhaseBundle(phase), Both)
              /\ CopiedBy(PhaseTemplate(phase), PhaseBundle(phase), Both)
         /\ InPhase({"retiring"}) /\ pc = "data" =>
              /\ Published(cand, Both)
              /\ \A w \in deployed : \A q \in pods[w] :
                   q.bundle = cand /\ q.trust = Both

\* How far a rollout has come.
Has(w, t) == template[w] = t /\ \A q \in pods[w] : q.template = t

Rolled ==
    Replaces /\ InPhase(DualTrust) =>
      /\ pc \in {"ready", "gate"} => todo = {} /\ ~missed
      /\ RollingOut /\ phase # "overlap-new" => ~missed
      /\ (RollingOut \/ pc = "gate") /\ ~missed =>
           \A w \in deployed \ todo : Has(w, PhaseTemplate(phase))
      /\ pc = "status" /\ ~missed => template[cur] = PhaseTemplate(phase)

RolloverInv == Agreements /\ Templates /\ Rolled

(***************************************************************************)
(* What the phases write and roll out.                                     *)
(***************************************************************************)
\* The tag of its readiness token tells a dual-trust phase from all others.
LEMMA TemplateTags ==
  ASSUME NEW p, NEW q, p \in DualTrust, p # q,
         q # "stable"
  PROVE  PhaseTemplate(p) # PhaseTemplate(q)
<1>1. PhaseTemplate(p).token.tag = p
  BY DEF PhaseTemplate, PhaseToken
<1>2. PhaseTemplate(q).token.tag \in {q, "stable"}
  BY DEF PhaseTemplate, PhaseToken
<1>3. p # "stable"
  BY DEF DualTrust
<1> QED  BY <1>1, <1>2, <1>3

\* The material of a phase suits every agreement there may be in it.
LEMMA PhaseSuits ==
  ASSUME Replaces, Admitted, NEW S
  PROVE  LET here(p) == Suits(PhaseBundle(p), PhaseTrust(p), S)
         IN  /\ S = {Old} => here("overlap-old") /\ here("restore")
             /\ S = {New} => here("retiring") /\ here("rollback-new-dual")
             /\ S = {Old, New} => \A p \in DualTrust : here(p)
<1> DEFINE here(p) == Suits(PhaseBundle(p), PhaseTrust(p), S)
<1>1. \A p \in DualTrust : PhaseTrust(p) = {snap.bundle.ca, cand.ca}
  BY DEF PhaseTrust
<1>2. PhaseTrust("restore") = {snap.bundle.ca} /\ PhaseTrust("retiring") = {cand.ca}
  BY DEF PhaseTrust, DualTrust, PhaseBundle, WritesOld
<1>3. \A p : PhaseBundle(p) = IF p \in WritesOld THEN snap.bundle ELSE cand
  BY DEF PhaseBundle
<1> QED  BY <1>1, <1>2, <1>3
         DEF Suits, Old, New, DualTrust, WritesOld, RollbackPhases

(***************************************************************************)
(* What a step does to an agreement.                                       *)
(***************************************************************************)
AgreedNext(S) ==
    /\ bundle' # NoBundle => Suits(bundle', trust', S)
    /\ \A w \in Workloads : \A q \in pods'[w] : Suits(q.bundle, q.trust, S)

LEMMA AgreedPrimed ==
         /\ (\E S : AgreedNext(S)) => (\E S : Agreed(S))'
         /\ Old' = Old => (AgreedNext({Old}) => Agreed({Old})')
         /\ New' = New => (AgreedNext({New}) => Agreed({New})')
         /\ Old' = Old /\ New' = New
              => (AgreedNext({Old, New}) => Agreed({Old, New})')
  BY DEF Agreed, AgreedNext

LEMMA AgreedStays ==
  ASSUME UNCHANGED <<bundle, trust, pods>>
  PROVE  \A S : Agreed(S) => AgreedNext(S)
  BY DEF Agreed, AgreedNext

\* The request and what it was decided on stay as they are.
Decided == UNCHANGED <<snap, cand, req>>

LEMMA DecidedStays ==
  ASSUME Decided
  PROVE  /\ Rotates' = Rotates /\ KeepsSigner' = KeepsSigner
         /\ Old' = Old /\ New' = New /\ Both' = Both
         /\ \A p \in Phases : /\ PhaseTemplate(p)' = PhaseTemplate(p)
                              /\ PhaseBundle(p)' = PhaseBundle(p)
                              /\ PhaseTrust(p)' = PhaseTrust(p)
  BY DEF Decided, Rotates, KeepsSigner, Old, New, Both, PhaseTemplate,
     PhaseToken, PhaseGen, PhaseBundle, PhaseTrust

\* Where the script stays in its phase, all agreements of the phase stay.
LEMMA AgreementsStay ==
  ASSUME Agreements, Decided, UNCHANGED phase,
         \/ UNCHANGED pc
         \/ pc \in ApplySteps /\ pc' \in ApplySteps,
         \A S : Agreed(S) => AgreedNext(S)
  PROVE  Agreements'
<1>1. /\ Rotates' = Rotates /\ KeepsSigner' = KeepsSigner
      /\ Old' = Old /\ New' = New
  BY DecidedStays
<1>2. /\ (\E S : Agreed(S)) => (\E S : Agreed(S))'
      /\ Agreed({Old}) => Agreed({Old})'
      /\ Agreed({New}) => Agreed({New})'
      /\ Agreed({Old, New}) => Agreed({Old, New})'
  BY <1>1, AgreedPrimed
<1>3. Minted' = Minted
  BY DEF Minted, ApplySteps
<1>4. \A P : InPhase(P)' = InPhase(P)
  BY DEF InPhase, ApplySteps
<1> QED  BY <1>1, <1>2, <1>3, <1>4
         DEF Agreements, Replaces, Decided, ApplySteps, InPhase

\* What the controllers start is a copy of the Secret, under a template that
\* the workload, or one of its pods, has.
PodStep == \E w \in Workloads :
             Controller(w) \/ \E p \in pods[w] : ReplacePod(w, p)

\* What is not deployed has no pods.
Elsewhere == \A w \in Workloads \ deployed : pods[w] = {}

LEMMA CopiedPods ==
  ASSUME ClusterTyped, Elsewhere, PodStep
  PROVE  \A v \in Workloads : \A q \in pods'[v] :
           \/ q \in pods[v]
           \/ /\ v \in deployed /\ bundle # NoBundle
              /\ q.bundle = bundle /\ q.trust = trust
              /\ \/ q.template = template[v]
                 \/ \E p \in pods[v] : q.template = p.template
<1> SUFFICES ASSUME NEW v \in Workloads, NEW q \in pods'[v], q \notin pods[v]
             PROVE  /\ v \in deployed /\ bundle # NoBundle
                    /\ q.bundle = bundle /\ q.trust = trust
                    /\ \/ q.template = template[v]
                       \/ \E p \in pods[v] : q.template = p.template
  OBVIOUS
<1>1. pods \in [Workloads -> SUBSET Pod]
  BY DEF ClusterTyped
<1>2. PICK w \in Workloads : Controller(w) \/ \E p \in pods[w] : ReplacePod(w, p)
  BY DEF PodStep
<1>3. \A b : NoBundle.members = {}
  BY DEF NoBundle
<1>4. CASE StartPod(w)
  BY <1>1, <1>3, <1>4 DEF StartPod, PodOf
<1>5. ASSUME NEW p \in pods[w], StopPod(w, p)
      PROVE  FALSE
  BY <1>1, <1>5 DEF StopPod
<1>6. ASSUME NEW p \in pods[w], ReplacePod(w, p)
      PROVE  /\ v \in deployed /\ bundle # NoBundle
             /\ q.bundle = bundle /\ q.trust = trust
             /\ \E r \in pods[v] : q.template = r.template
  <2>1. v = w /\ q = PodOf(p.template) /\ w \in bundle.members
    BY <1>1, <1>6 DEF ReplacePod
  <2>2. v \in deployed
    BY <2>1 DEF Elsewhere
  <2> QED  BY <1>3, <2>1, <2>2 DEF PodOf
<1> QED  BY <1>2, <1>4, <1>5, <1>6 DEF Controller

LEMMA NewPods ==
  ASSUME ClusterTyped, Templates, PodStep
  PROVE  \A v \in Workloads : \A q \in pods'[v] :
           \/ q \in pods[v]
           \/ /\ v \in deployed /\ bundle # NoBundle
              /\ q.bundle = bundle /\ q.trust = trust
              /\ \/ q.template = template[v]
                 \/ \E p \in pods[v] : q.template = p.template
<1>1. Elsewhere
  BY DEF Templates, Elsewhere
<1> QED  BY <1>1, CopiedPods

LEMMA PodsAgree ==
  ASSUME ClusterTyped, Templates, PodStep
  PROVE  \A S : Agreed(S) => AgreedNext(S)
<1>1. UNCHANGED <<bundle, trust>>
  BY DEF PodStep, Controller, StartPod, StopPod, ReplacePod, secretVars
<1> QED  BY <1>1, NewPods DEF Agreed, AgreedNext

\* The controllers keep what is rolled out as it is.
LEMMA PodsRollover ==
  ASSUME ClusterTyped, RolloverInv, PodStep
  PROVE  RolloverInv'
<1>1. UNCHANGED <<bundle, trust, deployed, template, pc, phase, todo, cur, missed,
                  snap, cand, req>>
  BY DEF PodStep, Controller, StartPod, StopPod, ReplacePod, secretVars,
     rolloutVars, stateVars, jobVars
<1>2. Decided
  BY <1>1 DEF Decided
<1>3. /\ Old' = Old /\ New' = New /\ Both' = Both
      /\ Replaces' = Replaces
      /\ \A p \in Phases : /\ PhaseTemplate(p)' = PhaseTemplate(p)
                           /\ PhaseBundle(p)' = PhaseBundle(p)
  BY <1>1, <1>2, DecidedStays DEF Replaces, Minted
<1>4. \A P : InPhase(P)' = InPhase(P)
  BY <1>1 DEF InPhase
<1>5. /\ Agreements /\ Templates /\ Rolled
  BY DEF RolloverInv
<1>6. Agreements'
  BY <1>1, <1>2, <1>5, AgreementsStay, PodsAgree
<1>7. \A v \in Workloads : \A q \in pods'[v] :
           \/ q \in pods[v]
           \/ /\ v \in deployed
              /\ q.bundle = bundle /\ q.trust = trust
              /\ \/ q.template = template[v]
                 \/ \E p \in pods[v] : q.template = p.template
  BY <1>5, NewPods
<1>8. deployed \subseteq Workloads
  BY DEF ClusterTyped
<1>9. \A t : (\E w \in deployed : \/ template[w] = t
                                  \/ \E q \in pods'[w] : q.template = t)
               => Carried(t)
  BY <1>7, <1>8 DEF Carried
<1>10. Templates'
  <2>1. \A w \in Workloads \ deployed : pods'[w] = {}
    BY <1>5, <1>7 DEF Templates
  <2>2. ASSUME Replaces, pc \in {"start", "exited"}
                         \/ InPhase({"overlap-old", "overlap-new"})
        PROVE  /\ Carried(Overlapping)' => trust = Both
               /\ \A w \in deployed : \A q \in pods'[w] :
                    q.template = Overlapping => q.trust = Both
    <3>1. /\ Carried(Overlapping) => trust = Both
          /\ \A w \in deployed : \A q \in pods[w] :
               q.template = Overlapping => q.trust = Both
      BY <1>5, <2>2 DEF Templates
    <3>2. Carried(Overlapping)' => Carried(Overlapping)
      BY <1>1, <1>3, <1>9 DEF Carried, Overlapping, Phases
    <3>3. \A w \in deployed : \A q \in pods'[w] :
             q.template = Overlapping =>
               q \in pods[w] \/ (q.trust = trust /\ Carried(Overlapping))
      BY <1>7, <1>8 DEF Carried
    <3> QED  BY <3>1, <3>2, <3>3
  <2>3. ASSUME Replaces, InPhase(DualTrust \ {"overlap-old"})
        PROVE  /\ pc = "data" => ~Carried(PhaseTemplate(phase))'
               /\ pc # "data" => Published(PhaseBundle(phase), Both)
               /\ \A w \in deployed : \A q \in pods'[w] :
                    q.template = PhaseTemplate(phase)
                      => q.bundle = PhaseBundle(phase) /\ q.trust = Both
    <3>1. /\ pc = "data" => ~Carried(PhaseTemplate(phase))
          /\ pc # "data" => Published(PhaseBundle(phase), Both)
          /\ CopiedBy(PhaseTemplate(phase), PhaseBundle(phase), Both)
      BY <1>5, <2>3 DEF Templates
    <3>2. phase \in Phases
      BY <2>3 DEF InPhase, DualTrust, Phases, RollbackPhases
    <3>3. Carried(PhaseTemplate(phase))' => Carried(PhaseTemplate(phase))
      BY <1>1, <1>3, <1>9, <3>2 DEF Carried
    <3>4. \A w \in deployed : \A q \in pods'[w] :
             q.template = PhaseTemplate(phase) =>
               \/ q \in pods[w]
               \/ /\ q.bundle = bundle /\ q.trust = trust
                  /\ Carried(PhaseTemplate(phase))
      BY <1>7, <1>8 DEF Carried
    <3> QED  BY <3>1, <3>3, <3>4 DEF CopiedBy, Published
  <2>4. ASSUME Replaces, InPhase({"rollback-old-dual", "restore"})
        PROVE  ~Carried(Overlapping)'
    <3>1. ~Carried(Overlapping)
      BY <1>5, <2>4 DEF Templates
    <3>2. Carried(Overlapping)' => Carried(Overlapping)
      BY <1>1, <1>3, <1>9 DEF Carried, Overlapping, Phases
    <3> QED  BY <3>1, <3>2
  <2>5. ASSUME Replaces, InPhase({"overlap-new", "retiring", "commit"})
        PROVE  ~Carried(PhaseTemplate("rollback-new-dual"))'
    BY <1>1, <1>3, <1>5, <1>9, <2>5 DEF Templates, Carried, Phases,
       RollbackPhases
  <2>6. ASSUME Replaces, InPhase({"retiring"}), pc = "data"
        PROVE  /\ Published(cand, Both)
               /\ \A w \in deployed : \A q \in pods'[w] :
                    q.bundle = cand /\ q.trust = Both
    BY <1>5, <1>7, <1>8, <2>6 DEF Templates, Published
  <2> QED  BY <1>1, <1>3, <1>4, <2>1, <2>2, <2>3, <2>4, <2>5, <2>6
           DEF Templates, CopiedBy, Published, Overlapping, Phases, InPhase,
               DualTrust, RollbackPhases
<1>11. Rolled'
  <2> SUFFICES ASSUME Replaces, InPhase(DualTrust)
               PROVE  Rolled'
    BY <1>3, <1>4 DEF Rolled
  <2>1. phase \in Phases
    BY DEF InPhase, DualTrust, Phases, RollbackPhases
  <2>2. \A w \in deployed : Has(w, PhaseTemplate(phase)) =>
           /\ template[w] = PhaseTemplate(phase)
           /\ \A q \in pods'[w] : q.template = PhaseTemplate(phase)
    BY <1>7, <1>8 DEF Has
  <2> QED  BY <1>1, <1>3, <1>5, <2>1, <2>2 DEF Rolled, Has, RollingOut
<1> QED  BY <1>6, <1>10, <1>11 DEF RolloverInv

\* Each phase writes what gets along with everything that is live.
LEMMA WriteAgrees ==
  ASSUME SecretInv, Agreements, Templates, WriteData
  PROVE  /\ \E S : AgreedNext(S)
         /\ Replaces => /\ phase = "overlap-old"
                             => AgreedNext({Old}) \/ AgreedNext({Old, New})
                        /\ phase \in {"overlap-new", "rollback-old-dual"}
                             => AgreedNext({Old, New})
                        /\ phase = "retiring" => AgreedNext({New})
                        /\ phase = "rollback-new-dual"
                             => AgreedNext({New}) \/ AgreedNext({Old, New})
                        /\ phase = "restore" => AgreedNext({Old})
         /\ Rotates /\ KeepsSigner => AgreedNext({Old})
<1>1. /\ pc = "data" /\ bundle' = PhaseBundle(phase) /\ UNCHANGED pods
      /\ trust' = PhaseTrust(phase)
  BY DEF WriteData, clusterVars
<1>2. Minted /\ pc \in ApplySteps /\ Admitted /\ StepFits /\ PhaseFits
  BY <1>1 DEF SecretInv, Minted, ApplySteps
<1>3. ASSUME NEW S, Agreed(S), Suits(PhaseBundle(phase), PhaseTrust(phase), S)
      PROVE  AgreedNext(S)
  BY <1>1, <1>3 DEF Agreed, AgreedNext
<1>4. CASE Rotates /\ ~KeepsSigner
  <2>1. Replaces
    BY <1>2, <1>4 DEF Replaces
  <2>2. phase \in {"overlap-old", "overlap-new", "retiring", "restore",
                   "rollback-new-dual", "rollback-old-dual"}
    <3>1. phase \in ApplyPhases \ {"initial", "migrate", "commit", "rotating"}
      BY <1>1, <1>2, <1>4 DEF StepFits, PhaseFits, Admitted
    <3> QED  BY <3>1 DEF ApplyPhases, Phases, RollbackPhases
  <2>3. \A S : LET here(p) == Suits(PhaseBundle(p), PhaseTrust(p), S)
         IN  /\ S = {Old} => here("overlap-old") /\ here("restore")
             /\ S = {New} => here("retiring") /\ here("rollback-new-dual")
             /\ S = {Old, New} => \A p \in DualTrust : here(p)
    BY <1>2, <2>1, PhaseSuits
  <2>4. /\ phase = "overlap-old"
             => AgreedNext({Old}) \/ AgreedNext({Old, New})
        /\ phase \in {"overlap-new", "rollback-old-dual"}
             => AgreedNext({Old, New})
        /\ phase = "retiring" => AgreedNext({New})
        /\ phase = "rollback-new-dual"
             => AgreedNext({New}) \/ AgreedNext({Old, New})
        /\ phase = "restore" => AgreedNext({Old})
    BY <1>2, <1>3, <2>1, <2>3 DEF Agreements, InPhase, DualTrust
  <2>5. \E S : AgreedNext(S)
    BY <2>2, <2>4
  <2> QED  BY <1>4, <2>4, <2>5
<1>5. CASE Rotates /\ KeepsSigner
  <2>1. Old = New /\ Agreed({Old})
    BY <1>2, <1>5 DEF Agreements
  <2>2. Suits(PhaseBundle(phase), PhaseTrust(phase), {Old})
    <3>1. /\ PhaseBundle(phase) \in {snap.bundle, cand}
          /\ PhaseBundle(phase).ca \in PhaseTrust(phase)
      BY <1>1, <1>5, PhaseMaterial
    <3> QED  BY <2>1, <3>1 DEF Suits, Old, New
  <2> QED  BY <1>3, <1>5, <2>1, <2>2 DEF Replaces
<1>6. CASE ~Rotates
  <2>1. PhaseBundle(phase) = cand /\ PhaseTrust(phase) = {cand.ca}
        /\ deployed = {}
    BY <1>1, <1>2, <1>6, PhaseMaterial DEF SecretInv, Governed
  <2>2. Suits(PhaseBundle(phase), PhaseTrust(phase), {New})
    BY <2>1 DEF Suits, New
  <2>3. AgreedNext({New})
    BY <1>1, <2>1, <2>2 DEF AgreedNext, Templates
  <2> QED  BY <1>6, <2>3 DEF Replaces
<1> QED  BY <1>4, <1>5, <1>6

LEMMA WriteRollover ==
  ASSUME SecretInv, RolloverInv, WriteData
  PROVE  RolloverInv'
<1>1. /\ pc = "data" /\ pc' = "label" /\ UNCHANGED phase
      /\ bundle' = PhaseBundle(phase) /\ trust' = PhaseTrust(phase)
      /\ UNCHANGED <<deployed, template, pods, snap, cand, req>>
  BY DEF WriteData, AfterCall, Goto, clusterVars, stateVars, jobVars
<1>2. Decided
  BY <1>1 DEF Decided
<1>3. /\ Rotates' = Rotates /\ KeepsSigner' = KeepsSigner
      /\ Old' = Old /\ New' = New /\ Both' = Both
      /\ \A p \in Phases : /\ PhaseTemplate(p)' = PhaseTemplate(p)
                           /\ PhaseBundle(p)' = PhaseBundle(p)
  BY <1>2, DecidedStays
<1>4. Minted /\ Minted' /\ (Replaces' <=> Replaces)
      /\ \A P : InPhase(P)' = InPhase(P)
  BY <1>1, <1>3 DEF Minted, Replaces, InPhase, ApplySteps
<1>5. Agreements /\ Templates /\ phase \in Phases
  BY <1>1 DEF RolloverInv, SecretInv, StepFits, ApplySteps, ApplyPhases
<1>6. Agreements'
  <2>1. /\ (\E S : AgreedNext(S)) => (\E S : Agreed(S))'
        /\ AgreedNext({Old}) => Agreed({Old})'
        /\ AgreedNext({New}) => Agreed({New})'
        /\ AgreedNext({Old, New}) => Agreed({Old, New})'
    BY <1>3, AgreedPrimed
  <2>2. (\E S : Agreed(S))'
    BY <1>5, <2>1, WriteAgrees
  <2>3. (Minted /\ Rotates /\ KeepsSigner => Old = New /\ Agreed({Old}))'
    BY <1>3, <1>4, <1>5, <2>1, WriteAgrees DEF Agreements
  <2>4. ASSUME Replaces
        PROVE  /\ (phase = "overlap-old"
                     => Agreed({Old})' \/ Agreed({Old, New})')
               /\ (phase \in {"overlap-new", "rollback-old-dual"}
                     => Agreed({Old, New})')
               /\ phase = "retiring" => Agreed({New})'
               /\ (phase = "rollback-new-dual"
                     => Agreed({New})' \/ Agreed({Old, New})')
               /\ phase = "restore" => Agreed({Old})'
    BY <1>5, <2>1, <2>4, WriteAgrees
  <2>5. Replaces => Old # New /\ snap.bundle.rev # cand.rev
    BY <1>5 DEF Agreements
  <2>6. phase # "commit"
    BY <1>1 DEF SecretInv, StepFits
  <2> QED  BY <1>1, <1>3, <1>4, <2>2, <2>3, <2>4, <2>5, <2>6
           DEF Agreements, InPhase, ApplySteps
<1>7. ASSUME phase \in DualTrust
      PROVE  trust' = Both
  BY <1>1, <1>7 DEF PhaseTrust, Both
<1>8. Templates'
  <2>1. Carried(Overlapping)' <=> Carried(Overlapping)
    BY <1>1, <1>3 DEF Carried, Overlapping, Phases
  <2>2. Overlapping' = Overlapping
    BY <1>3 DEF Overlapping, Phases
  <2>3. Carried(PhaseTemplate("rollback-new-dual"))'
          <=> Carried(PhaseTemplate("rollback-new-dual"))
    BY <1>1, <1>3 DEF Carried, Phases, RollbackPhases
  <2>4. CopiedBy(PhaseTemplate(phase), PhaseBundle(phase), Both)'
          <=> CopiedBy(PhaseTemplate(phase), PhaseBundle(phase), Both)
    BY <1>1, <1>3, <1>5 DEF CopiedBy
  <2>5. InPhase(DualTrust \ {"overlap-old"})
          => Published(PhaseBundle(phase), Both)'
    BY <1>1, <1>3, <1>5, <1>7 DEF Published, InPhase
  <2>6. InPhase({"overlap-old", "overlap-new"}) => trust' = Both
    BY <1>7 DEF InPhase, DualTrust
  <2> QED  BY <1>1, <1>3, <1>4, <1>5, <2>1, <2>2, <2>3, <2>4, <2>5, <2>6
           DEF Templates
<1>9. Rolled'
  BY <1>1 DEF Rolled, RollingOut
<1> QED  BY <1>6, <1>8, <1>9 DEF RolloverInv

\* Outside a decision all that matters is that what is live agrees.
LEMMA OutsideRollover ==
  ASSUME RolloverInv, ~Minted', \E S : AgreedNext(S),
         \A w \in Workloads \ deployed' : pods'[w] = {}
  PROVE  RolloverInv'
<1>1. ~Replaces'
  BY DEF Replaces
<1>2. (\E S : Agreed(S))'
  BY AgreedPrimed
<1>3. Agreements'
  BY <1>1, <1>2 DEF Agreements
<1>4. Templates' /\ Rolled'
  BY <1>1 DEF Templates, Rolled
<1> QED  BY <1>3, <1>4 DEF RolloverInv

\* Helm and the Job around the script.
LEMMA JobRollover ==
  ASSUME ClusterTyped, SecretInv, RolloverInv,
         \/ \E r \in Requests : Upgrade(r)
         \/ Snapshot \/ SnapshotGetFails \/ SnapshotRefuses
         \/ \E age \in Ages : MintRefuses(age)
         \/ LosePod \/ GiveUp \/ HelmApplies
  PROVE  RolloverInv'
<1>1. pc' \in {"idle", "snapshot", "mint"}
  BY DEF Upgrade, Snapshot, SnapshotGetFails, SnapshotRefuses, MintRefuses,
     LosePod, GiveUp, HelmApplies, JobFails, Goto
<1>2. ~Minted'
  BY <1>1 DEF Minted, ApplySteps
<1>3. (\E S : Agreed(S)) /\ \A w \in Workloads \ deployed : pods[w] = {}
  BY DEF RolloverInv, Agreements, Templates
<1>4. CASE ~HelmApplies
  <2>1. UNCHANGED <<bundle, trust, pods, deployed>>
    BY <1>4 DEF Upgrade, Snapshot, SnapshotGetFails, SnapshotRefuses,
       MintRefuses, LosePod, GiveUp, secretVars, clusterVars
  <2> QED  BY <1>2, <1>3, <2>1, AgreedStays, OutsideRollover
<1>5. CASE HelmApplies
  <2>1. /\ pc = "done" /\ deployed' = deployed \cup req.members
        /\ UNCHANGED <<bundle, trust>>
        /\ pods' = [w \in Workloads |->
                      IF w \in req.members \ deployed
                      THEN {PodOf(template[w])} ELSE pods[w]]
    BY <1>5 DEF HelmApplies, secretVars
  <2>2. bundle # NoBundle
    BY <2>1 DEF SecretInv, Governed, Minted, Admitted, Finished, Published
  <2>3. \A w \in Workloads : \A q \in pods'[w] :
           q \in pods[w] \/ (q.bundle = bundle /\ q.trust = trust)
    BY <2>1 DEF PodOf
  <2>4. \E S : AgreedNext(S)
    BY <1>3, <2>1, <2>2, <2>3 DEF Agreed, AgreedNext
  <2>5. \A w \in Workloads \ deployed' : pods'[w] = {}
    BY <1>3, <2>1
  <2> QED  BY <1>2, <2>4, <2>5, OutsideRollover
<1> QED  BY <1>4, <1>5

\* One root means one signer, everywhere: what mint.sh starts from.
LEMMA SingleRoot ==
  ASSUME NEW S, Agreed(S), bundle # NoBundle, trust = {bundle.ca}
  PROVE  S = {bundle.ca.key}
<1>1. {c.key : c \in {bundle.ca}} = {bundle.ca.key}
  OBVIOUS
<1> QED  BY <1>1 DEF Agreed, Suits

LEMMA MintRollover ==
  ASSUME PartsTyped, Known, SecretInv, RolloverInv, NEW age \in Ages, Mint(age)
  PROVE  RolloverInv'
<1>1. /\ pc = "mint" /\ pc' = "start" /\ MintAdmits(age)
      /\ UNCHANGED <<bundle, trust, deployed, template, pods, snap, req>>
      /\ Rotates' = Rotates /\ KeepsSigner' = KeepsSigner /\ Old' = Old
      /\ \A P : ~InPhase(P)'
  BY DEF Mint, Goto, secretVars, clusterVars, jobVars, Rotates, KeepsSigner,
     Old, InPhase, ApplySteps
<1>2. Agreements /\ Templates
  BY DEF RolloverInv
<1>3. \A S : Agreed(S) => AgreedNext(S)
  BY <1>1, AgreedStays
<1>4. (\E S : Agreed(S))'
  BY <1>2, <1>3, AgreedPrimed DEF Agreements
<1>5. ASSUME Rotates
      PROVE  /\ Agreed({Old})'
             /\ cand' = Candidate(snap.bundle, req, serial + 1)
             /\ snap.shape # "absent"
  <2>1. req.op # "reconcile"
    BY <1>5 DEF Rotates
  <2>2. snap.shape # "absent" /\ snap.trust = {snap.bundle.ca}
    BY <1>1, <2>1 DEF MintAdmits, ValidatesActive
  <2>3. bundle # NoBundle /\ bundle = snap.bundle /\ trust = {bundle.ca}
    BY <1>1, <2>2 DEF SecretInv, Governed, Published
  <2>4. Agreed({Old})
    BY <1>2, <2>3, SingleRoot DEF Agreements, Old
  <2>5. cand' = Candidate(snap.bundle, req, serial + 1)
    BY <2>1 DEF Mint, MintKeeps
  <2> QED  BY <1>1, <1>3, <2>2, <2>4, <2>5, AgreedPrimed
<1>6. snap.bundle \in Bundle /\ serial \in Nat /\ KnownBundle(snap.bundle)
  BY DEF PartsTyped, StateTyped, BoundsTyped, Snapshots, Known, KnownState
<1>7. ASSUME Rotates, KeepsSigner
      PROVE  New' = Old
  <2>1. req.reason \in {"dns", "profile"}
    BY <1>7 DEF KeepsSigner, SignerPreservingReasons
  <2>2. cand'.ca.key = snap.bundle.ca.key
    BY <1>1, <1>5, <1>7, <2>1, MintsNew
  <2> QED  BY <2>2 DEF New, Old
<1>8. ASSUME Rotates, ~KeepsSigner
      PROVE  /\ New' # Old /\ cand'.rev # snap.bundle.rev
             /\ cand'.ca.cert = serial + 1
  <2>1. /\ cand'.rev = serial + 1 /\ cand'.ca.cert = serial + 1
        /\ cand'.ca.key = serial + 1
    BY <1>1, <1>5, <1>8, MintsNew
  <2> QED  BY <1>6, <2>1 DEF New, Old, KnownBundle, Bundle, CA
<1>9. Agreements'
  BY <1>1, <1>4, <1>5, <1>7, <1>8 DEF Agreements, Replaces
<1>10. ASSUME Rotates, ~KeepsSigner
       PROVE  ~Carried(Overlapping)'
  <2>1. cand'.ca \in Overlapping'.trust
    BY DEF Overlapping, PhaseTemplate, PhaseTrust, DualTrust
  <2>2. \A t : KnownTemplate(t) => cand'.ca \notin t.trust
    BY <1>6, <1>8, <1>10 DEF KnownTemplate, KnownRoots
  <2>3. deployed \subseteq Workloads
    BY DEF PartsTyped, ClusterTyped
  <2> QED  BY <1>1, <2>1, <2>2, <2>3 DEF Known, KnownCluster, Carried
<1>11. Templates'
  <2>1. ASSUME Replaces'
        PROVE  \A w \in deployed : \A q \in pods[w] : q.template # Overlapping'
    BY <1>1, <1>10, <2>1 DEF Carried, Replaces
  <2>2. Replaces' => ~Carried(Overlapping)'
    BY <1>1, <1>10 DEF Replaces
  <2> QED  BY <1>1, <1>2, <2>1, <2>2 DEF Templates
<1>12. Rolled'
  BY <1>1 DEF Rolled
<1> QED  BY <1>9, <1>11, <1>12 DEF RolloverInv

\* The start of apply.sh, its end and its next attempt.
LEMMA CourseRollover ==
  ASSUME SecretInv, RolloverInv, ApplyStart \/ Committed \/ RestartContainer
  PROVE  RolloverInv'
<1> USE DEF ApplySteps
<1>1. /\ UNCHANGED <<bundle, trust, deployed, template, pods, snap, cand, req>>
      /\ Minted /\ Minted'
  BY DEF ApplyStart, Committed, RestartContainer, Enter, Goto, Minted,
     secretVars, clusterVars, stateVars, jobVars
<1>2. /\ Rotates' = Rotates /\ KeepsSigner' = KeepsSigner
      /\ Old' = Old /\ New' = New /\ Both' = Both
      /\ Overlapping' = Overlapping
  BY <1>1, DecidedStays DEF Decided, Overlapping, Phases
<1>3. Agreements /\ Templates /\ Admitted
  BY <1>1 DEF RolloverInv, SecretInv
<1>4. Replaces' <=> Replaces
  BY <1>1, <1>2 DEF Replaces
<1>5. /\ (\E S : Agreed(S))'
      /\ Agreed({Old}) => Agreed({Old})'
      /\ Agreed({Old, New}) => Agreed({Old, New})'
  BY <1>1, <1>2, <1>3, AgreedStays, AgreedPrimed DEF Agreements
<1>6. Carried(Overlapping)' <=> Carried(Overlapping)
  BY <1>1, <1>2 DEF Carried
<1>7. CASE Replaces
  <2>1. \/ /\ pc = "start" /\ pc' = "data" /\ phase' = "overlap-old"
        \/ pc = "committed" /\ pc' = "done"
        \/ pc = "exited" /\ pc' = "start"
    <3>1. CASE ApplyStart
      <4>1. Enter("overlap-old")
        BY <1>3, <1>7, <3>1 DEF ApplyStart, Replaces, Admitted, Rotates
      <4> QED  BY <3>1, <4>1 DEF ApplyStart, Enter
    <3> QED  BY <3>1 DEF Committed, RestartContainer
  <2>2. /\ \A P : "overlap-old" \notin P => ~InPhase(P)'
        /\ (pc' \in {"start", "exited"} \/ InPhase({"overlap-old"})')
             => pc \in {"start", "exited"}
        /\ (pc' \in {"start", "exited"}
              \/ InPhase({"overlap-old", "overlap-new"})')
             => pc \in {"start", "exited"}
    BY <2>1 DEF InPhase
  <2>3. Agreements'
    BY <1>1, <1>2, <1>3, <1>4, <1>5, <1>7, <2>2 DEF Agreements, Replaces
  <2>4. Templates'
    <3>1. \A w \in Workloads \ deployed : pods[w] = {}
      BY <1>3 DEF Templates
    <3>2. (pc' \in {"start", "exited"}
             \/ InPhase({"overlap-old", "overlap-new"})')
           => /\ Carried(Overlapping)' => trust = Both
              /\ \A w \in deployed : \A q \in pods[w] :
                   q.template = Overlapping => q.trust = Both
      BY <1>3, <1>6, <1>7, <2>2 DEF Templates
    <3> QED  BY <1>1, <1>2, <2>2, <3>1, <3>2 DEF Templates
  <2>5. Rolled'
    BY <2>1 DEF Rolled, RollingOut, InPhase
  <2> QED  BY <2>3, <2>4, <2>5 DEF RolloverInv
<1>8. CASE ~Replaces
  <2>1. Agreements'
    BY <1>1, <1>2, <1>3, <1>4, <1>5, <1>8 DEF Agreements
  <2>2. Templates' /\ Rolled'
    BY <1>1, <1>3, <1>4, <1>8 DEF Templates, Rolled
  <2> QED  BY <2>1, <2>2 DEF RolloverInv
<1> QED  BY <1>7, <1>8

(***************************************************************************)
(* The moves of the script in a rotation that replaces the signer.         *)
(***************************************************************************)
Stays == /\ pc \in ApplySteps /\ pc' \in ApplySteps \ {"data"} /\ UNCHANGED phase
         /\ pc = "data" => phase = "restore"
Leaves == /\ pc' = "exited" /\ UNCHANGED phase
          /\ phase \in {"overlap-old", "overlap-new", "rollback-old-dual",
                        "restore"}
Reverts == /\ phase' = "rollback-new-dual" /\ pc' = "data"
           /\ \/ phase = "overlap-old" /\ pc = "gate"
              \/ phase \in {"overlap-new", "retiring", "commit"}
MovesOn(from, at, to) ==
    /\ phase = from /\ pc = at /\ phase' = to
    /\ pc' = IF to = "commit" THEN "label" ELSE "data"
Proceeds ==
    \/ MovesOn("overlap-old", "gate", "overlap-new")
    \/ MovesOn("overlap-new", "gate", "retiring")
    \/ MovesOn("retiring", "history", "commit")
    \/ MovesOn("rollback-new-dual", "ready", "rollback-old-dual")
    \/ MovesOn("rollback-old-dual", "ready", "restore")

LEMMA RolloverMoves ==
  ASSUME RolloverUndisturbed, SecretInv, Rolled, Replaces, ScriptStep
  PROVE  pc \in ApplySteps /\ (Stays \/ Leaves \/ Reverts \/ Proceeds)
<1> USE DEF ApplySteps, RollbackPhases
<1>1. Moves /\ StepFits /\ pc \in ApplySteps /\ PhaseFits /\ ArmedFits
  BY ScriptMoves DEF SecretInv, Moves
<1>2. Rotates /\ ~KeepsSigner /\ Admitted
  BY DEF Replaces, SecretInv
<1>3. phase \in {"overlap-old", "overlap-new", "retiring", "commit",
                 "rollback-new-dual", "rollback-old-dual", "restore"}
  BY <1>1, <1>2 DEF StepFits, PhaseFits, Admitted, ApplyPhases, Phases
<1>4. armed <=> phase # "restore"
  BY <1>1, <1>2 DEF ArmedFits
<1>5. /\ \A k \in {"api", "term"} : <<k, "overlap-old">> \notin FaultPoints
      /\ \A p \in {"rollback-new-dual", "rollback-old-dual"} :
           <<"api", p>> \notin FaultPoints
      /\ \A p \in {"retiring", "commit", "rollback-new-dual"} :
           <<"kill", p>> \notin FaultPoints
  BY DEF RolloverUndisturbed
<1>6. /\ phase = "overlap-old" /\ pc = "next" => ~missed
      /\ phase \in {"rollback-new-dual", "rollback-old-dual"} /\ pc = "next"
           => ~missed
  BY <1>1 DEF Rolled, InPhase, RollingOut, DualTrust
<1>7. CASE Passes
  <2>1. CASE pc = "data" /\ phase # "restore"
    <3>1. CallFails \/ Terminate \/ Kill
      BY <2>1 DEF ScriptStep, LabelSecret, AnnotateSecret, GetWorkload,
         SkipWorkload, IsNext, PatchWorkload, RolloutConverges, EndRollout,
         RecordReady, OverlapOpen, CheckHistory, CreateHistory, PatchFails,
         RolloutTimesOut, OverlapExpired, HistoryFails
    <3>2. phase \in {"rollback-new-dual", "rollback-old-dual"}
      BY <1>7, <2>1 DEF Passes
    <3>3. Kill
      BY <1>5, <3>1, <3>2 DEF CallFails, Terminate, Fault
    <3> QED  BY <1>7, <3>3 DEF Kill, Goto, Passes
  <2>2. CASE ~(pc = "data" /\ phase # "restore")
    BY <1>1, <1>7, <2>2 DEF Passes, Stays
  <2> QED  BY <1>1, <2>1, <2>2
<1>8. CASE Stops
  <2>1. CASE Kill
    BY <1>1, <1>3, <1>5, <1>8, <2>1 DEF Kill, Fault, Stops, Leaves
  <2>2. CASE ~Kill
    <3>1. Die => phase = "restore" \/ phase \in RollbackPhases
      BY <1>3, <1>4, <1>8 DEF Die, Enter, Stops
    <3>2. AfterRollout => phase \in {"restore", "commit"}
      BY <1>3, <1>8 DEF AfterRollout, Enter, Goto, Stops
    <3>3. phase = "restore"
      BY <1>1, <1>3, <1>8, <2>2, <3>1, <3>2
         DEF ScriptStep, LabelSecret, AnnotateSecret, GetWorkload,
             SkipWorkload, IsNext, PatchWorkload, RolloutConverges, EndRollout,
             RecordReady, OverlapOpen, CheckHistory, CreateHistory, CallFails,
             PatchFails, RolloutTimesOut, OverlapExpired, HistoryFails,
             Terminate, AfterCall, Goto, Enter, Stops, StepFits
    <3> QED  BY <1>1, <1>8, <3>3 DEF Stops, Leaves
  <2> QED  BY <2>1, <2>2
<1>9. CASE RollsBack
  <2>1. phase' = "rollback-new-dual" /\ pc' = "data"
        /\ phase \in {"overlap-old", "overlap-new", "retiring", "commit"}
    BY <1>2, <1>3, <1>9 DEF RollsBack, Enter
  <2>2. ASSUME phase = "overlap-old", pc # "gate"
        PROVE  FALSE
    BY <1>1, <1>5, <1>6, <2>1, <2>2
       DEF ScriptStep, LabelSecret, AnnotateSecret, GetWorkload, SkipWorkload,
           PatchWorkload, RolloutConverges, EndRollout, RecordReady,
           OverlapOpen, CheckHistory, CreateHistory, CallFails, PatchFails,
           RolloutTimesOut, OverlapExpired, HistoryFails, Terminate, Kill,
           AfterCall, AfterRollout, Goto, Enter, Fault, StepFits
  <2> QED  BY <1>1, <2>1, <2>2 DEF Reverts
<1>10. CASE Initialized
  BY <1>3, <1>10 DEF Initialized
<1>11. CASE Advances
  <2>1. ASSUME phase \in {"rollback-new-dual", "rollback-old-dual"}, pc = "next"
        PROVE  FALSE
    <3>1. EndRollout \/ Terminate \/ Kill \/ UNCHANGED phase
      BY <2>1 DEF ScriptStep, LabelSecret, AnnotateSecret, GetWorkload,
         SkipWorkload, PatchWorkload, RolloutConverges, RecordReady,
         OverlapOpen, CheckHistory, CreateHistory, CallFails, PatchFails,
         RolloutTimesOut, OverlapExpired, HistoryFails, Goto
    <3>2. UNCHANGED phase
      BY <1>6, <2>1, <3>1 DEF EndRollout, Terminate, Kill, Goto
    <3> QED  BY <1>11, <2>1, <3>2 DEF Advances, Enter
  <2>2. phase # "rotating"
    BY <1>3
  <2> QED  BY <1>1, <1>11, <2>1, <2>2 DEF Advances, Enter, Proceeds, MovesOn
<1> QED  BY <1>1, <1>7, <1>8, <1>9, <1>10, <1>11 DEF Moves

(***************************************************************************)
(* The end of a rollout: everything that is live has come along.           *)
(***************************************************************************)
LEMMA RolledOut ==
  ASSUME SecretInv, RolloverInv, Replaces, InPhase(DualTrust),
         pc \in {"ready", "gate"}
  PROVE  /\ \A w \in deployed : Has(w, PhaseTemplate(phase))
         /\ trust = Both
         /\ \A w \in deployed : \A q \in pods[w] : q.trust = Both
         /\ phase # "overlap-old" =>
              /\ bundle = PhaseBundle(phase)
              /\ \A w \in deployed : \A q \in pods[w] :
                   q.bundle = PhaseBundle(phase)
         /\ Agreed({Old, New})
         /\ phase \in {"overlap-new", "rollback-new-dual"} => Agreed({New})
         /\ phase = "rollback-old-dual" => Agreed({Old})
<1>1. Agreements /\ Templates /\ Rolled
  BY DEF RolloverInv
<1>2. \A w \in deployed : Has(w, PhaseTemplate(phase))
  BY <1>1 DEF Rolled, RollingOut
<1>3. phase \in DualTrust /\ pc \in ApplySteps \ {"data"}
  BY DEF InPhase, ApplySteps
<1>4. phase # "overlap-old" =>
        /\ Published(PhaseBundle(phase), Both)
        /\ CopiedBy(PhaseTemplate(phase), PhaseBundle(phase), Both)
  BY <1>1, <1>3 DEF Templates, InPhase
<1>5. trust = Both
  <2>1. CASE phase = "overlap-old"
    BY <1>3, <2>1 DEF SecretInv, Rewritten, Published, PhaseTrust, Both,
       DualTrust, RollbackPhases
  <2>2. CASE phase # "overlap-old"
    BY <1>4, <2>2 DEF Published
  <2> QED  BY <2>1, <2>2
<1>6. \A w \in deployed : \A q \in pods[w] :
        /\ q.trust = Both
        /\ phase # "overlap-old" => q.bundle = PhaseBundle(phase)
  <2>1. CASE phase = "overlap-old"
    <3>1. \A w \in deployed : \A q \in pods[w] :
             q.template = Overlapping => q.trust = Both
      BY <1>1, <1>3, <2>1 DEF Templates, InPhase
    <3> QED  BY <1>2, <2>1, <3>1 DEF Has, Overlapping
  <2>2. CASE phase # "overlap-old"
    BY <1>2, <1>4, <2>2 DEF Has, CopiedBy
  <2> QED  BY <2>1, <2>2
<1>7. \A w \in Workloads : pods[w] # {} => w \in deployed
  BY <1>1 DEF Templates
<1>8. \A b, roots : roots = Both /\ b.ca.key \in {Old, New}
                     => Suits(b, roots, {Old, New})
  BY DEF Suits, Both, Old, New
<1>9. /\ bundle # NoBundle => bundle.ca.key \in {Old, New}
      /\ \A w \in Workloads : \A q \in pods[w] : q.bundle.ca.key \in {Old, New}
  <2>1. CASE phase = "overlap-old"
    <3>1. Agreed({Old}) \/ Agreed({Old, New})
      BY <1>1, <1>3, <2>1 DEF Agreements, InPhase
    <3> QED  BY <3>1 DEF Agreed, Suits
  <2>2. CASE phase # "overlap-old"
    <3>1. PhaseBundle(phase).ca.key \in {Old, New}
      BY DEF PhaseBundle, Old, New
    <3> QED  BY <1>4, <1>6, <1>7, <2>2, <3>1 DEF Published
  <2> QED  BY <2>1, <2>2
<1>10. Agreed({Old, New})
  <2>1. \A w \in Workloads : \A q \in pods[w] :
           q.trust = Both /\ q.bundle.ca.key \in {Old, New}
    BY <1>6, <1>7, <1>9
  <2>2. \A w \in Workloads : \A q \in pods[w] :
           Suits(q.bundle, q.trust, {Old, New})
    BY <1>8, <2>1
  <2>3. bundle # NoBundle => Suits(bundle, trust, {Old, New})
    BY <1>5, <1>8, <1>9
  <2> QED  BY <2>2, <2>3 DEF Agreed
<1>11. ASSUME NEW k, phase # "overlap-old", PhaseBundle(phase).ca.key = k,
              k \in {Old, New}
       PROVE  Agreed({k})
  <2>1. \A b : b = PhaseBundle(phase) => Suits(b, Both, {k})
    BY <1>11 DEF Suits, Both, Old, New
  <2> QED  BY <1>4, <1>5, <1>6, <1>7, <1>11, <2>1 DEF Agreed, Published
<1>12. /\ phase \in {"overlap-new", "rollback-new-dual"}
            => PhaseBundle(phase).ca.key = New
       /\ phase = "rollback-old-dual" => PhaseBundle(phase).ca.key = Old
  BY DEF PhaseBundle, WritesOld, Old, New
<1> QED  BY <1>2, <1>4, <1>5, <1>6, <1>10, <1>11, <1>12 DEF Published

(***************************************************************************)
(* The script.                                                             *)
(***************************************************************************)
\* What is decided and what is live do not depend on the script.
LEMMA ScriptFrame ==
  ASSUME SecretInv, ScriptStep
  PROVE  /\ Minted /\ Minted'
         /\ UNCHANGED <<bundle, trust, deployed, pods>> /\ Decided
         /\ Replaces' = Replaces /\ Rotates' = Rotates
         /\ KeepsSigner' = KeepsSigner
         /\ Old' = Old /\ New' = New /\ Both' = Both
         /\ \A p \in Phases : /\ PhaseTemplate(p)' = PhaseTemplate(p)
                              /\ PhaseBundle(p)' = PhaseBundle(p)
         /\ \A S : Agreed(S) => AgreedNext(S)
         /\ UNCHANGED template \/ PatchWorkload
<1>1. UNCHANGED pods /\ (UNCHANGED template \/ PatchWorkload)
  BY DEF ScriptStep, LabelSecret, AnnotateSecret, GetWorkload, SkipWorkload,
     PatchWorkload, RolloutConverges, EndRollout, RecordReady, OverlapOpen,
     CheckHistory, CreateHistory, CallFails, PatchFails, RolloutTimesOut,
     OverlapExpired, HistoryFails, Terminate, Kill, clusterVars
<1>2. UNCHANGED <<bundle, trust, deployed>> /\ Decided
  BY ScriptKeeps DEF Decided, stateVars
<1>3. pc \in ApplySteps /\ Moves
  BY ScriptMoves DEF SecretInv, Moves
<1>4. Minted /\ Minted'
  BY <1>3 DEF Moves, Passes, Stops, RollsBack, Initialized, Advances, Enter,
     Minted, ApplySteps
<1> QED  BY <1>1, <1>2, <1>4, DecidedStays, AgreedStays DEF Replaces

LEMMA ScriptAgreements ==
  ASSUME RolloverUndisturbed, SecretInv, RolloverInv, ScriptStep
  PROVE  Agreements'
<1>1. /\ Minted /\ Minted' /\ Decided
      /\ Replaces' = Replaces /\ Rotates' = Rotates
      /\ KeepsSigner' = KeepsSigner /\ Old' = Old /\ New' = New
      /\ \A S : Agreed(S) => AgreedNext(S)
  BY ScriptFrame
<1>2. Agreements /\ Templates /\ Rolled
  BY DEF RolloverInv
<1>3. /\ (\E S : Agreed(S)) => (\E S : Agreed(S))'
      /\ Agreed({Old}) => Agreed({Old})'
      /\ Agreed({New}) => Agreed({New})'
      /\ Agreed({Old, New}) => Agreed({Old, New})'
  BY <1>1, AgreedPrimed
<1>4. /\ (\E S : Agreed(S))'
      /\ (Minted /\ Rotates /\ KeepsSigner => Old = New /\ Agreed({Old}))'
      /\ Replaces => Old # New /\ snap.bundle.rev # cand.rev
  BY <1>1, <1>2, <1>3 DEF Agreements
<1>5. CASE ~Replaces
  BY <1>1, <1>4, <1>5 DEF Agreements
<1>6. CASE Replaces
  <2>1. pc \in ApplySteps /\ (Stays \/ Leaves \/ Reverts \/ Proceeds)
    BY <1>2, <1>6, RolloverMoves
  <2>2. CASE Stays
    BY <1>1, <1>2, <2>2, AgreementsStay DEF Stays
  <2>3. CASE Leaves
    <3>1. Agreed({Old}) \/ Agreed({Old, New})
      BY <1>2, <1>6, <2>1, <2>3 DEF Leaves, Agreements, InPhase
    <3>2. pc' = "exited"
      BY <2>3 DEF Leaves
    <3> QED  BY <1>1, <1>3, <1>4, <3>1, <3>2
             DEF Agreements, InPhase, ApplySteps, Decided
  <2>4. CASE Reverts
    <3>1. Agreed({New}) \/ Agreed({Old, New})
      <4>1. CASE phase = "overlap-old" /\ pc = "gate"
        BY <1>6, <2>1, <4>1, RolledOut DEF InPhase, DualTrust
      <4>2. CASE phase \in {"overlap-new", "retiring", "commit"}
        BY <1>2, <1>6, <2>1, <4>2 DEF Agreements, InPhase
      <4> QED  BY <2>4, <4>1, <4>2 DEF Reverts
    <3>2. phase' = "rollback-new-dual" /\ pc' = "data"
      BY <2>4 DEF Reverts
    <3> QED  BY <1>1, <1>3, <1>4, <3>1, <3>2
             DEF Agreements, InPhase, ApplySteps, Decided
  <2>5. CASE Proceeds
    <3>1. phase \in DualTrust /\ pc \in {"ready", "gate"} =>
            /\ Agreed({Old, New})
            /\ phase = "overlap-new" => Agreed({New})
            /\ phase = "rollback-old-dual" => Agreed({Old})
      BY <1>6, <2>1, RolledOut DEF InPhase
    <3>2. phase = "retiring" => Agreed({New})
      BY <1>2, <1>6, <2>1 DEF Agreements, InPhase
    <3>3. /\ phase' \in {"overlap-new", "rollback-old-dual"}
               => Agreed({Old, New})
          /\ phase' \in {"retiring", "commit"} => Agreed({New})
          /\ phase' = "restore" => Agreed({Old})
          /\ phase' \in {"overlap-new", "retiring", "commit",
                         "rollback-old-dual", "restore"}
          /\ pc' \in {"data", "label"}
      BY <2>5, <3>1, <3>2 DEF Proceeds, MovesOn, DualTrust
    <3> QED  BY <1>1, <1>3, <1>4, <3>3
             DEF Agreements, InPhase, ApplySteps, Decided
  <2> QED  BY <2>1, <2>2, <2>3, <2>4, <2>5
<1> QED  BY <1>5, <1>6

\* A patch makes a template of its phase, and no other, one that is about.
LEMMA PatchCarries ==
  ASSUME ClusterTyped, RolloutTyped, PatchWorkload, NEW t,
         t # PhaseTemplate(phase), ~Carried(t)
  PROVE  ~(\E w \in deployed : \/ template'[w] = t
                               \/ \E q \in pods[w] : q.template = t)
  BY DEF PatchWorkload, Carried, ClusterTyped, RolloutTyped

\* No other template is about once all have the one of their phase.
LEMMA OnlyTemplate ==
  ASSUME NEW t, NEW u, t # u, \A w \in deployed : Has(w, t)
  PROVE  ~Carried(u)
  BY DEF Carried, Has

LEMMA ScriptTemplates ==
  ASSUME RolloverUndisturbed, ClusterTyped, RolloutTyped, SecretInv,
         RolloverInv, ScriptStep
  PROVE  Templates'
<1>1. /\ UNCHANGED <<bundle, trust, deployed, pods, cand>>
      /\ Replaces' = Replaces /\ Both' = Both
      /\ \A p \in Phases : /\ PhaseTemplate(p)' = PhaseTemplate(p)
                           /\ PhaseBundle(p)' = PhaseBundle(p)
      /\ UNCHANGED template \/ PatchWorkload
  BY ScriptFrame DEF Decided
<1>2. Agreements /\ Templates /\ Rolled
  BY DEF RolloverInv
<1>3. CASE ~Replaces
  BY <1>1, <1>2, <1>3 DEF Templates
<1>4. CASE Replaces
  <2> DEFINE About(t) == \E w \in deployed : \/ template'[w] = t
                                             \/ \E q \in pods[w] : q.template = t
  <2>1. \A p \in Phases : Carried(PhaseTemplate(p))' <=> About(PhaseTemplate(p))
    BY <1>1 DEF Carried
  <2>2. Carried(Overlapping)' <=> About(Overlapping)
    BY <1>1 DEF Carried, Overlapping, Phases
  <2>3. UNCHANGED template => \A t : About(t) <=> Carried(t)
    BY DEF Carried
  <2>4. /\ pc \in ApplySteps
        /\ Stays \/ Leaves \/ Reverts \/ Proceeds
        /\ phase \in Phases
    BY <1>2, <1>4, RolloverMoves
       DEF SecretInv, StepFits, ApplyPhases
  <2>5. PatchWorkload => /\ pc = "patch" /\ pc' = "status" /\ UNCHANGED phase
                         /\ phase \in Phases \ {"commit", "migrate"}
    BY <2>4 DEF PatchWorkload, Goto, SecretInv, StepFits
  <2>6. phase \in DualTrust /\ pc \in {"ready", "gate"} =>
          /\ \A u : u # PhaseTemplate(phase) => ~Carried(u)
          /\ trust = Both
          /\ \A w \in deployed : \A q \in pods[w] : q.trust = Both
          /\ phase # "overlap-old" =>
               /\ bundle = PhaseBundle(phase)
               /\ \A w \in deployed : \A q \in pods[w] :
                    q.bundle = PhaseBundle(phase)
    BY <1>4, <2>4, RolledOut, OnlyTemplate DEF InPhase
  <2>7. \A p \in DualTrust : \A q \in Phases \cup Tags :
          p # q /\ q # "stable" => PhaseTemplate(p) # PhaseTemplate(q)
    BY TemplateTags
  <2>8. /\ Overlapping = PhaseTemplate("overlap-old")
        /\ Overlapping' = Overlapping
    BY <1>1 DEF Overlapping, Phases
  <2>9. /\ pc \in {"start", "exited"} \/ InPhase({"overlap-old", "overlap-new"})
             => /\ Carried(Overlapping) => trust = Both
                /\ \A w \in deployed : \A q \in pods[w] :
                     q.template = Overlapping => q.trust = Both
        /\ InPhase({"rollback-old-dual", "restore"}) => ~Carried(Overlapping)
        /\ InPhase({"overlap-new", "retiring", "commit"})
              => ~Carried(PhaseTemplate("rollback-new-dual"))
        /\ InPhase(DualTrust \ {"overlap-old"}) =>
             /\ pc = "data" => ~Carried(PhaseTemplate(phase))
             /\ pc # "data" => Published(PhaseBundle(phase), Both)
             /\ CopiedBy(PhaseTemplate(phase), PhaseBundle(phase), Both)
    BY <1>2, <1>4 DEF Templates
  <2>10. \A t : ~Carried(t) /\ t # PhaseTemplate(phase) => ~About(t)
    BY <1>1, <2>3, PatchCarries
  <2>11. ASSUME UNCHANGED template, pc' = "data", phase' \in Phases,
                phase' = "overlap-new" =>
                  /\ trust = Both
                  /\ \A w \in deployed : \A q \in pods[w] : q.trust = Both,
                phase' \in {"rollback-old-dual", "restore"}
                  => ~Carried(Overlapping),
                phase' \in {"overlap-new", "retiring"}
                  => ~Carried(PhaseTemplate("rollback-new-dual")),
                phase' \in DualTrust => ~About(PhaseTemplate(phase')),
                phase' = "retiring" =>
                  /\ Published(cand, Both)
                  /\ \A w \in deployed : \A q \in pods[w] :
                       q.bundle = cand /\ q.trust = Both,
                phase' \notin {"overlap-old", "commit"}
         PROVE  Templates'
    <3>1. /\ Carried(Overlapping)' => Carried(Overlapping)
          /\ Carried(PhaseTemplate("rollback-new-dual"))'
               => Carried(PhaseTemplate("rollback-new-dual"))
      BY <2>1, <2>2, <2>3, <2>11 DEF Phases, RollbackPhases
    <3>2. phase' \in DualTrust => ~Carried(PhaseTemplate(phase))'
      BY <2>1, <2>11
    <3>3. phase' \in DualTrust
            => CopiedBy(PhaseTemplate(phase), PhaseBundle(phase), Both)'
      BY <3>2 DEF Carried, CopiedBy
    <3>4. (\A w \in deployed : \A q \in pods[w] :
             q.template = Overlapping => q.trust = Both)'
            <=> (\A w \in deployed : \A q \in pods[w] :
                   q.template = Overlapping => q.trust = Both)
      BY <1>1, <2>8
    <3> QED  BY <1>1, <1>2, <2>11, <3>1, <3>2, <3>3, <3>4
             DEF Templates, InPhase, ApplySteps, Published
  <2>12. CASE Stays
    <3>1. /\ pc' \in ApplySteps \ {"data"} /\ UNCHANGED phase
          /\ \A P : InPhase(P)' = InPhase(P)
          /\ phase # "restore" => pc # "data"
      BY <2>4, <2>12 DEF Stays, InPhase
    <3>2. InPhase({"overlap-old", "overlap-new"}) /\ Carried(Overlapping)'
            => trust = Both
      <4>1. InPhase({"overlap-old", "overlap-new"}) => trust = Both \/ pc = "data"
        BY DEF InPhase, SecretInv, Rewritten, Published, PhaseTrust, Both,
           DualTrust, RollbackPhases
      <4>2. InPhase({"overlap-old", "overlap-new"}) => pc # "data"
        BY <3>1 DEF InPhase
      <4> QED  BY <4>1, <4>2
    <3>3. InPhase({"rollback-old-dual", "restore"}) => ~Carried(Overlapping)'
      <4>1. InPhase({"rollback-old-dual", "restore"})
              => Overlapping # PhaseTemplate(phase)
        BY <2>7, <2>8 DEF InPhase, DualTrust, Phases, RollbackPhases
      <4> QED  BY <2>2, <2>9, <2>10, <4>1
    <3>4. InPhase({"overlap-new", "retiring", "commit"})
            => ~Carried(PhaseTemplate("rollback-new-dual"))'
      <4>1. InPhase({"overlap-new", "retiring", "commit"})
              => PhaseTemplate("rollback-new-dual") # PhaseTemplate(phase)
        BY <2>7 DEF InPhase, DualTrust, Phases, RollbackPhases
      <4>2. "rollback-new-dual" \in Phases
        BY DEF Phases, RollbackPhases
      <4> QED  BY <2>1, <2>9, <2>10, <4>1, <4>2
    <3>5. InPhase(DualTrust \ {"overlap-old"}) =>
            /\ Published(PhaseBundle(phase), Both)'
            /\ CopiedBy(PhaseTemplate(phase), PhaseBundle(phase), Both)'
      <4>1. InPhase(DualTrust \ {"overlap-old"}) =>
              /\ Published(PhaseBundle(phase), Both)
              /\ CopiedBy(PhaseTemplate(phase), PhaseBundle(phase), Both)
        BY <2>9, <3>1 DEF InPhase, DualTrust
      <4>2. Published(PhaseBundle(phase), Both)'
              <=> Published(PhaseBundle(phase), Both)
        BY <1>1, <2>4, <3>1 DEF Published
      <4>3. CopiedBy(PhaseTemplate(phase), PhaseBundle(phase), Both)'
              <=> CopiedBy(PhaseTemplate(phase), PhaseBundle(phase), Both)
        BY <1>1, <2>4, <3>1 DEF CopiedBy
      <4> QED  BY <4>1, <4>2, <4>3
    <3>6. InPhase({"overlap-old", "overlap-new"}) =>
            (\A w \in deployed : \A q \in pods[w] :
               q.template = Overlapping => q.trust = Both)'
      BY <1>1, <2>8, <2>9
    <3> QED  BY <1>1, <1>2, <1>4, <3>1, <3>2, <3>3, <3>4, <3>5, <3>6
             DEF Templates, ApplySteps
  <2>13. CASE Leaves
    <3>1. /\ pc' = "exited" /\ UNCHANGED template
          /\ phase \in {"overlap-old", "overlap-new", "rollback-old-dual",
                        "restore"}
      BY <1>1, <2>5, <2>13 DEF Leaves
    <3>2. /\ Carried(Overlapping) => trust = Both
          /\ \A w \in deployed : \A q \in pods[w] :
               q.template = Overlapping => q.trust = Both
      BY <2>4, <2>9, <3>1 DEF InPhase, Carried
    <3>3. Carried(Overlapping)' => Carried(Overlapping)
      BY <2>2, <2>3, <3>1
    <3>4. (\A w \in deployed : \A q \in pods[w] :
             q.template = Overlapping => q.trust = Both)'
      BY <1>1, <2>8, <3>2
    <3> QED  BY <1>1, <1>2, <3>1, <3>2, <3>3, <3>4
             DEF Templates, InPhase, ApplySteps
  <2>14. CASE Reverts
    <3>1. /\ phase' = "rollback-new-dual" /\ pc' = "data" /\ UNCHANGED template
          /\ \/ phase = "overlap-old" /\ pc = "gate"
             \/ phase \in {"overlap-new", "retiring", "commit"}
      BY <1>1, <2>5, <2>14 DEF Reverts
    <3>2. ~Carried(PhaseTemplate("rollback-new-dual"))
      <4>1. CASE phase = "overlap-old" /\ pc = "gate"
        BY <2>6, <2>7, <4>1 DEF DualTrust, Phases, RollbackPhases
      <4>2. CASE phase \in {"overlap-new", "retiring", "commit"}
        BY <2>4, <2>9, <4>2 DEF InPhase
      <4> QED  BY <3>1, <4>1, <4>2
    <3> QED  BY <2>3, <2>11, <3>1, <3>2 DEF Phases, RollbackPhases
  <2>15. CASE Proceeds
    <3>1. CASE MovesOn("retiring", "history", "commit")
      <4>1. /\ phase = "retiring" /\ phase' = "commit" /\ pc' = "label"
            /\ UNCHANGED template
        BY <1>1, <2>5, <3>1 DEF MovesOn
      <4>2. ~Carried(PhaseTemplate("rollback-new-dual"))'
        BY <2>1, <2>3, <2>4, <2>9, <4>1 DEF InPhase, Phases, RollbackPhases
      <4> QED  BY <1>1, <1>2, <4>1, <4>2
               DEF Templates, InPhase, ApplySteps, DualTrust
    <3>2. CASE \/ MovesOn("overlap-old", "gate", "overlap-new")
               \/ MovesOn("overlap-new", "gate", "retiring")
               \/ MovesOn("rollback-new-dual", "ready", "rollback-old-dual")
               \/ MovesOn("rollback-old-dual", "ready", "restore")
      <4>1. /\ pc' = "data" /\ UNCHANGED template /\ pc \in {"ready", "gate"}
            /\ phase \in DualTrust /\ phase' \in Phases
            /\ phase' # phase
            /\ phase' \in {"overlap-new", "retiring", "rollback-old-dual",
                           "restore"}
        BY <1>1, <2>5, <3>2 DEF MovesOn, DualTrust, Phases, RollbackPhases
      <4>2. phase' \in DualTrust => ~Carried(PhaseTemplate(phase'))
        <5>1. phase' \in DualTrust => PhaseTemplate(phase') # PhaseTemplate(phase)
          BY <2>7, <4>1
        <5> QED  BY <2>6, <4>1, <5>1
      <4>3. phase' \in {"rollback-old-dual", "restore"} => ~Carried(Overlapping)
        <5>1. phase' \in {"rollback-old-dual", "restore"}
                => PhaseTemplate(phase) # PhaseTemplate("overlap-old")
          BY <2>7, <3>2 DEF MovesOn, DualTrust, Phases
        <5> QED  BY <2>6, <2>8, <4>1, <5>1
      <4>4. phase' \in {"overlap-new", "retiring"}
              => ~Carried(PhaseTemplate("rollback-new-dual"))
        <5>1. phase' \in {"overlap-new", "retiring"}
                => PhaseTemplate(phase) # PhaseTemplate("rollback-new-dual")
          BY <2>7, <3>2 DEF MovesOn, DualTrust, Phases, RollbackPhases
        <5> QED  BY <2>6, <4>1, <5>1
      <4>5. phase' = "retiring" => PhaseBundle(phase) = cand
        BY <3>2 DEF MovesOn, PhaseBundle, WritesOld
      <4>6. phase' = "retiring" => phase # "overlap-old"
        BY <3>2 DEF MovesOn
      <4> QED  BY <2>3, <2>6, <2>11, <4>1, <4>2, <4>3, <4>4, <4>5, <4>6
               DEF Published
    <3> QED  BY <2>15, <3>1, <3>2 DEF Proceeds
  <2> QED  BY <2>4, <2>12, <2>13, <2>14, <2>15
<1> QED  BY <1>3, <1>4

\* The members of the request are all workloads that run.
LEMMA MembersRun ==
  ASSUME SecretInv, Minted, Rotates
  PROVE  deployed \subseteq req.members
<1>1. /\ snap.shape # "absent" /\ snap.bundle.members \subseteq req.members
      /\ snap.bundle # NoBundle /\ Identified(snap.bundle)
  BY DEF SecretInv, Governed, Admitted
<1> QED  BY <1>1 DEF Identified

\* How far the rollout of a phase with template t has come.
Rolling(t) ==
    /\ pc \in {"ready", "gate", "check-history", "history"}
         => todo = {} /\ ~missed
    /\ (RollingOut \/ pc = "gate") /\ ~missed =>
         \A w \in deployed \ todo : Has(w, t)
    /\ pc = "status" /\ ~missed => template[cur] = t

\* A rollout that nobody is left out of takes every workload along, or misses.
LEMMA RollingStep ==
  ASSUME ClusterTyped, RolloutTyped, StepFits, ScriptStep, NEW t,
         t = PhaseTemplate(phase), phase \notin {"initial", "commit", "migrate"},
         <<"get", phase>> \notin FaultPoints, deployed \subseteq req.members,
         UNCHANGED phase, pc' \in ApplySteps \ {"data"}, Rolling(t)
  PROVE  Rolling(t)'
<1>1. /\ UNCHANGED <<deployed, pods>>
      /\ ~Die
  <2>1. UNCHANGED pods
    BY DEF ScriptStep, LabelSecret, AnnotateSecret, GetWorkload, SkipWorkload,
       PatchWorkload, RolloutConverges, EndRollout, RecordReady, OverlapOpen,
       CheckHistory, CreateHistory, CallFails, PatchFails, RolloutTimesOut,
       OverlapExpired, HistoryFails, Terminate, Kill, clusterVars
  <2>2. ~Die
    BY DEF Die, Enter, Goto, ApplySteps
  <2> QED  BY <2>1, <2>2, ScriptKeeps
<1>2. /\ pc \in {"ready", "gate", "check-history", "history"}
           => todo = {} /\ ~missed
      /\ (RollingOut \/ pc = "gate") /\ ~missed =>
           \A w \in deployed \ todo : Has(w, t)
      /\ pc = "status" /\ ~missed => template[cur] = t
  BY DEF Rolling
<1>3. ASSUME /\ pc' \in {"ready", "gate", "check-history", "history"}
                  => todo' = {} /\ ~missed'
             /\ (RollingOut' \/ pc' = "gate") /\ ~missed' =>
                  \A w \in deployed \ todo' :
                     template'[w] = t /\ \A q \in pods[w] : q.template = t
             /\ pc' = "status" /\ ~missed' => template'[cur'] = t
      PROVE  Rolling(t)'
  BY <1>1, <1>3 DEF Rolling, Has
<1>4. UNCHANGED template =>
        \A w : Has(w, t) =>
                 template'[w] = t /\ \A q \in pods[w] : q.template = t
  BY DEF Has
<1>5. CASE LabelSecret
  BY <1>3, <1>5 DEF LabelSecret, AfterCall, Goto, RollingOut
<1>6. CASE AnnotateSecret
  <2>1. pc' = "next" /\ todo' = req.members /\ missed' = FALSE
    BY <1>6 DEF AnnotateSecret, AfterCall, Goto, StartRollout
  <2> QED  BY <1>3, <2>1
<1>7. ASSUME NEW w \in Workloads, GetWorkload(w)
       PROVE  Rolling(t)'
  <2>1. pc = "next" /\ pc' = "patch" /\ UNCHANGED <<todo, missed, template>>
    BY <1>7 DEF GetWorkload, IsNext, Goto, clusterVars
  <2> QED  BY <1>2, <1>3, <1>4, <2>1 DEF RollingOut
<1>8. ASSUME NEW w \in Workloads, SkipWorkload(w)
       PROVE  Rolling(t)'
  <2>1. /\ pc = "next" /\ pc' = "next" /\ todo' = todo \ {w}
        /\ UNCHANGED <<missed, template>> /\ w \notin deployed
    BY <1>8 DEF SkipWorkload, IsNext, Fault, clusterVars
  <2> QED  BY <1>2, <1>3, <1>4, <2>1 DEF RollingOut
<1>9. CASE PatchWorkload
  <2>1. /\ pc = "patch" /\ pc' = "status" /\ UNCHANGED <<todo, cur, missed>>
        /\ template' = [template EXCEPT ![cur] = t]
    BY <1>9 DEF PatchWorkload, Goto, rolloutVars
  <2>2. /\ template \in [Workloads -> PodTemplate] /\ cur \in Workloads
        /\ deployed \subseteq Workloads
    BY DEF ClusterTyped, RolloutTyped
  <2> QED  BY <1>2, <1>3, <2>1, <2>2 DEF RollingOut, Has
<1>10. CASE PatchFails \/ RolloutTimesOut
  <2>1. pc' \in {"status", "next"} /\ missed' = TRUE
    BY <1>10 DEF PatchFails, RolloutTimesOut, Goto
  <2> QED  BY <1>3, <2>1
<1>11. CASE RolloutConverges
  <2>1. /\ pc = "status" /\ pc' = "next" /\ todo' = todo \ {cur}
        /\ UNCHANGED <<missed, template>>
        /\ \A p \in pods[cur] : p.template = template[cur]
    BY <1>11 DEF RolloutConverges, Converged, Goto, clusterVars
  <2> QED  BY <1>2, <1>3, <1>4, <2>1 DEF RollingOut, Has
<1>12. CASE EndRollout
  <2>1. pc = "next" /\ todo = {} /\ UNCHANGED <<todo, missed, template>>
    BY <1>12 DEF EndRollout, rolloutVars, clusterVars
  <2>2. ~missed /\ pc' = "ready"
    <3>1. missed => phase \in RollbackPhases /\ AfterRollout
      BY <1>1, <1>12 DEF EndRollout
    <3>2. phase \in RollbackPhases => ~AfterRollout
      BY DEF AfterRollout, Enter, Goto, RollbackPhases, ApplySteps
    <3> QED  BY <1>12, <3>1, <3>2 DEF EndRollout, Goto
  <2> QED  BY <1>2, <1>3, <1>4, <2>1, <2>2 DEF RollingOut
<1>13. CASE RecordReady
  <2>1. /\ pc = "ready" /\ UNCHANGED <<todo, missed, template>>
        /\ AfterRollout
    BY <1>13 DEF RecordReady, AfterCall, rolloutVars, clusterVars
  <2>2. pc' \in {"gate", "check-history"}
    BY <2>1 DEF AfterRollout, Enter, Goto, ApplySteps
  <2> QED  BY <1>2, <1>3, <1>4, <2>1, <2>2 DEF RollingOut
<1>14. CASE CallFails
  <2>1. /\ phase \in RollbackPhases /\ AfterCall
        /\ pc \in {"data", "label", "annotate", "ready"}
    BY <1>1, <1>14 DEF CallFails
  <2>2. pc # "ready"
    BY <2>1 DEF AfterCall, AfterRollout, Enter, Goto, RollbackPhases, ApplySteps
  <2>3. CASE pc = "annotate"
    <3>1. pc' = "next" /\ todo' = req.members /\ missed' = FALSE
      BY <1>14, <2>1, <2>3
         DEF CallFails, AfterCall, Goto, StartRollout, RollbackPhases
    <3> QED  BY <1>3, <3>1
  <2>4. CASE pc \in {"data", "label"}
    <3>1. pc' \in {"label", "annotate"}
      BY <2>1, <2>4 DEF AfterCall, Goto
    <3> QED  BY <1>3, <3>1 DEF RollingOut
  <2> QED  BY <2>1, <2>2, <2>3, <2>4
<1>15. CASE CheckHistory
  <2>1. pc = "check-history" /\ pc' = "history" /\ UNCHANGED <<todo, missed>>
    BY <1>1, <1>15 DEF CheckHistory, Goto, rolloutVars
  <2> QED  BY <1>2, <1>3, <2>1 DEF RollingOut
<1>16. CASE OverlapOpen \/ CreateHistory
  BY <1>16 DEF OverlapOpen, CreateHistory, Enter
<1>17. CASE OverlapExpired \/ HistoryFails \/ Terminate
  BY <1>1, <1>17 DEF OverlapExpired, HistoryFails, Terminate
<1>18. CASE Kill
  BY <1>18 DEF Kill, Goto, ApplySteps
<1> QED  BY <1>5, <1>6, <1>7, <1>8, <1>9, <1>10, <1>11, <1>12, <1>13, <1>14,
            <1>15, <1>16, <1>17, <1>18 DEF ScriptStep

\* A rollout misses a workload only by a failing patch or status call.
LEMMA MissesOnly ==
  ASSUME ScriptStep, missed', ~missed
  PROVE  \/ <<"patch", phase>> \in FaultPoints
         \/ <<"rollout", phase>> \in FaultPoints
  BY DEF ScriptStep, LabelSecret, AnnotateSecret, StartRollout, GetWorkload,
     SkipWorkload, PatchWorkload, RolloutConverges, EndRollout, RecordReady,
     OverlapOpen, CheckHistory, CreateHistory, CallFails, PatchFails,
     RolloutTimesOut, OverlapExpired, HistoryFails, Terminate, Kill, Fault,
     rolloutVars

\* Where it starts, a rollout has not missed anything.
LEMMA RolloutStarts ==
  ASSUME ScriptStep, ~RollingOut, RollingOut'
  PROVE  missed' = FALSE
<1>1. pc' \in {"next", "patch", "status", "ready"}
      /\ pc \notin {"next", "patch", "status", "ready"}
  BY DEF RollingOut
<1>2. ~Die
  BY <1>1 DEF Die, Enter, Goto
<1>3. AnnotateSecret \/ CallFails
  BY <1>1, <1>2 DEF ScriptStep, LabelSecret, AfterCall, GetWorkload, SkipWorkload,
     IsNext, PatchWorkload, RolloutConverges, EndRollout, RecordReady,
     OverlapOpen, CheckHistory, CreateHistory, PatchFails, RolloutTimesOut,
     OverlapExpired, HistoryFails, Terminate, Kill, Goto, Enter
<1>4. CallFails => pc = "annotate"
  <2>1. CallFails => AfterCall /\ pc \in {"data", "label", "annotate", "ready"}
    BY <1>2 DEF CallFails
  <2> QED  BY <1>1, <2>1 DEF AfterCall, Goto
<1> QED  BY <1>3, <1>4 DEF AnnotateSecret, CallFails, StartRollout

LEMMA ScriptRolled ==
  ASSUME RolloverUndisturbed, ClusterTyped, RolloutTyped, SecretInv,
         RolloverInv, ScriptStep
  PROVE  Rolled'
<1>1. /\ Replaces' = Replaces
      /\ \A p \in Phases : PhaseTemplate(p)' = PhaseTemplate(p)
  BY ScriptFrame
<1>2. Agreements /\ Templates /\ Rolled
  BY DEF RolloverInv
<1> SUFFICES ASSUME Replaces, InPhase(DualTrust)', pc' # "data"
             PROVE  Rolled'
  BY <1>1 DEF Rolled, RollingOut
<1>3. Stays /\ pc \in ApplySteps
  <2>1. pc \in ApplySteps /\ (Stays \/ Leaves \/ Reverts \/ Proceeds)
    BY <1>2, RolloverMoves
  <2>2. ~Leaves /\ ~Reverts
    BY DEF Leaves, Reverts, InPhase, ApplySteps
  <2>3. ~Proceeds
    BY DEF Proceeds, MovesOn, InPhase, DualTrust
  <2> QED  BY <2>1, <2>2, <2>3
<1>4. /\ UNCHANGED phase /\ phase \in DualTrust /\ phase \in Phases
      /\ InPhase(DualTrust) /\ pc' \in ApplySteps \ {"data"}
      /\ PhaseTemplate(phase)' = PhaseTemplate(phase)
  <2>1. UNCHANGED phase /\ phase \in DualTrust /\ pc' \in ApplySteps \ {"data"}
    BY <1>3 DEF Stays, InPhase, DualTrust
  <2>2. phase \in Phases
    BY <2>1 DEF DualTrust, Phases, RollbackPhases
  <2> QED  BY <1>1, <1>3, <2>1, <2>2 DEF InPhase
<1>5. phase \notin {"initial", "commit", "migrate", "retiring"} /\ StepFits
  BY <1>4 DEF DualTrust, SecretInv
<1>6. PICK t : t = PhaseTemplate(phase)
  OBVIOUS
<1>7. Rolling(t)
  <2>1. pc \notin {"check-history", "history"}
    BY <1>5 DEF StepFits
  <2> QED  BY <1>2, <1>4, <1>6, <2>1 DEF Rolled, Rolling
<1>8. /\ <<"get", phase>> \notin FaultPoints
      /\ \A k \in {"patch", "rollout"} :
           phase # "overlap-new" => <<k, phase>> \notin FaultPoints
  BY <1>4 DEF RolloverUndisturbed, DualTrust
<1>9. Rolling(t)'
  BY <1>4, <1>5, <1>6, <1>7, <1>8, RollingStep, MembersRun
         DEF Replaces
<1>10. RollingOut' /\ phase # "overlap-new" => ~missed'
  BY <1>2, <1>4, <1>8, MissesOnly, RolloutStarts DEF Rolled
<1> QED  BY <1>4, <1>6, <1>9, <1>10 DEF Rolled, Rolling

LEMMA ScriptRollover ==
  ASSUME RolloverUndisturbed, ClusterTyped, RolloutTyped, SecretInv,
         RolloverInv, ScriptStep
  PROVE  RolloverInv'
BY ScriptAgreements, ScriptTemplates, ScriptRolled DEF RolloverInv

\* A cluster without a Secret runs nothing; one with a bundle trusts its root.
LEMMA RolloverInit == Init => RolloverInv
<1> SUFFICES ASSUME Init
             PROVE  RolloverInv
  OBVIOUS
<1>1. pc = "idle" /\ ~Minted
  BY DEF Init, Minted, ApplySteps
<1>2. CASE EmptyCluster
  <2>1. bundle = NoBundle /\ \A w \in Workloads : pods[w] = {}
    BY <1>2 DEF EmptyCluster
  <2>2. Agreed({})
    BY <2>1 DEF Agreed
  <2> QED  BY <1>1, <2>1, <2>2
           DEF RolloverInv, Agreements, Templates, Rolled, Replaces
<1>3. ASSUME NEW b, NEW a, RunningCluster(b, a)
      PROVE  RolloverInv
  <2>1. bundle = b /\ trust = {b.ca} /\ deployed = b.members
    BY <1>3 DEF RunningCluster
  <2>2. \A w \in Workloads : \A q \in pods[w] :
           w \in deployed /\ q.bundle = b /\ q.trust = {b.ca}
    BY <1>3 DEF RunningCluster
  <2>3. \A c, roots : c = b /\ roots = {b.ca} => Suits(c, roots, {b.ca.key})
    BY DEF Suits
  <2>4. Agreed({b.ca.key})
    BY <2>1, <2>2, <2>3 DEF Agreed
  <2>5. \A w \in Workloads \ deployed : pods[w] = {}
    BY <2>2
  <2> QED  BY <1>1, <2>4, <2>5
           DEF RolloverInv, Agreements, Templates, Rolled, Replaces
<1> QED  BY <1>2, <1>3 DEF Init

LEMMA RolloverNext ==
  ASSUME NoMisread, RolloverUndisturbed, PartsTyped, Known, SecretInv,
         RolloverInv, [Next]_vars
  PROVE  RolloverInv'
<1>1. CASE UNCHANGED vars
  <2>1. UNCHANGED <<bundle, trust, deployed, template, pods, pc, phase, todo,
                    cur, missed, snap, cand, req>>
    BY <1>1 DEF vars, secretVars, clusterVars, rolloutVars, stateVars, jobVars
  <2>2. Decided
    BY <2>1 DEF Decided
  <2>3. /\ Replaces' = Replaces /\ Both' = Both /\ Overlapping' = Overlapping
        /\ \A p \in Phases : /\ PhaseTemplate(p)' = PhaseTemplate(p)
                             /\ PhaseBundle(p)' = PhaseBundle(p)
    BY <2>1, <2>2, DecidedStays DEF Replaces, Minted, Overlapping, Phases
  <2>4. /\ \A P : InPhase(P)' = InPhase(P)
        /\ \A P : P \subseteq DualTrust /\ InPhase(P) => phase \in Phases
    BY <2>1 DEF InPhase, DualTrust, Phases, RollbackPhases
  <2>5. Agreements'
    BY <2>1, <2>2, AgreementsStay, AgreedStays DEF RolloverInv
  <2>6. Templates'
    <3>1. /\ Carried(Overlapping)' <=> Carried(Overlapping)
          /\ Carried(PhaseTemplate("rollback-new-dual"))'
               <=> Carried(PhaseTemplate("rollback-new-dual"))
      BY <2>1, <2>3 DEF Carried, Phases, RollbackPhases
    <3>2. phase \in Phases =>
            /\ Carried(PhaseTemplate(phase))' <=> Carried(PhaseTemplate(phase))
            /\ CopiedBy(PhaseTemplate(phase), PhaseBundle(phase), Both)'
                 <=> CopiedBy(PhaseTemplate(phase), PhaseBundle(phase), Both)
            /\ Published(PhaseBundle(phase), Both)'
                 <=> Published(PhaseBundle(phase), Both)
      BY <2>1, <2>3 DEF Carried, CopiedBy, Published
    <3>3. Published(cand, Both)' <=> Published(cand, Both)
      BY <2>1, <2>3 DEF Published
    <3> QED  BY <2>1, <2>3, <2>4, <3>1, <3>2, <3>3 DEF RolloverInv, Templates
  <2>7. Rolled'
    BY <2>1, <2>3, <2>4 DEF RolloverInv, Rolled, RollingOut, Has
  <2> QED  BY <2>5, <2>6, <2>7 DEF RolloverInv
<1> QED
  BY <1>1, ScriptRollover, WriteRollover, JobRollover, MintRollover,
     CourseRollover, PodsRollover
     DEF Next, HookStep, FaultStep, ScriptStep, PartsTyped, PodStep

\* A rotation and its rollback keep all that is live in agreement, phase by
\* phase (apply.sh, rotate_dual_trust and rollback), as long as the faults spare
\* the steps that the next phase counts on.
THEOREM RolloverHeld ==
  ASSUME NoMisread, RolloverUndisturbed
  PROVE  Spec => []RolloverInv
<1>1. Init => PartsTyped /\ Known /\ SecretInv /\ RolloverInv
  BY InitTyped, TypedParts, KnownInit, SecretInit, RolloverInit DEF PartsTyped
<1>2. PartsTyped /\ [Next]_vars => PartsTyped'
  BY PartsTypedNext
<1>3. PartsTyped /\ Known /\ [Next]_vars => Known'
  BY KnownNext
<1>4. PartsTyped /\ SecretInv /\ [Next]_vars => SecretInv'
  BY SecretNext
<1>5. PartsTyped /\ Known /\ SecretInv /\ RolloverInv /\ [Next]_vars
        => RolloverInv'
  BY RolloverNext
<1> QED  BY <1>1, <1>2, <1>3, <1>4, <1>5, PTL DEF Spec

(***************************************************************************)
(* The hook implements the trust rollover.                                 *)
(***************************************************************************)
PodMaterials == [w \in Workloads |->
                   {Material(q.bundle, q.trust) : q \in pods[w]}]

\* Materials accept each other when they suit one agreement.
LEMMA MaterialsAgree ==
  ASSUME NEW S, NEW M,
         \A m \in M : m.signer \in S /\ S \subseteq m.roots
  PROVE  Rollover!Agree(M)
  BY DEF Rollover!Agree

LEMMA MaterialSuits ==
  ASSUME NEW b, NEW roots, NEW S
  PROVE  LET m == Material(b, roots)
         IN Suits(b, roots, S) <=> m.signer \in S /\ S \subseteq m.roots
  BY DEF Material, Suits

LEMMA LiveMaterials ==
  ASSUME NEW m \in Rollover!Live
  PROVE  \E w \in Workloads : \E q \in pods[w] : m = Material(q.bundle, q.trust)
  BY DEF Rollover!Live

LEMMA MaterialTyped ==
  ASSUME NEW b \in Bundle, NEW roots \in SUBSET CA
  PROVE  Material(b, roots) \in [signer : Nat, roots : SUBSET Nat]
<1>1. b.ca.key \in Nat /\ \A c \in roots : c.key \in Nat
  BY DEF Bundle, CA
<1> QED  BY <1>1 DEF Material

LEMMA ImplementsInit == Init => Rollover!Init
<1> SUFFICES ASSUME Init
             PROVE  Rollover!Init
  OBVIOUS
<1>1. PartsTyped /\ RolloverInv
  BY InitTyped, TypedParts, RolloverInit DEF PartsTyped
<1>2. Material(bundle, trust) \in Rollover!Material
  BY <1>1, MaterialTyped DEF PartsTyped, SecretTyped, Rollover!Material
<1>3. \A w \in Workloads : \A q \in pods[w] :
        q.bundle = bundle /\ q.trust = trust /\ bundle # NoBundle
  <2>1. CASE EmptyCluster
    BY <2>1 DEF EmptyCluster
  <2>2. ASSUME NEW exact \in BOOLEAN, NEW a,
               RunningCluster(InitialBundle(exact), a)
        PROVE  \A w \in Workloads : \A q \in pods[w] :
                 q.bundle = bundle /\ q.trust = trust /\ bundle # NoBundle
    <3>1. InitialBundle(exact) # NoBundle
      BY DEF InitialBundle, NoBundle
    <3> QED  BY <2>2, <3>1 DEF RunningCluster
  <2> QED  BY <2>1, <2>2 DEF Init
<1>4. PodMaterials \in [Workloads -> SUBSET {Material(bundle, trust)}]
  BY <1>3 DEF PodMaterials
<1>5. Rollover!Live # {} => Rollover!Agree({Material(bundle, trust)})
  <2>1. Rollover!Live # {} => bundle # NoBundle
    BY <1>3, LiveMaterials
  <2>2. PICK S : Agreed(S)
    BY <1>1 DEF RolloverInv, Agreements
  <2>3. bundle # NoBundle => Suits(bundle, trust, S)
    BY <2>2 DEF Agreed
  <2> QED  BY <2>1, <2>3, MaterialSuits, MaterialsAgree
<1> QED  BY <1>2, <1>4, <1>5 DEF Rollover!Init, PodMaterials

\* A write to the Secret publishes what gets along with everything live.
LEMMA ImplementsPublish ==
  ASSUME SecretTyped', SecretInv, RolloverInv, WriteData
  PROVE  Rollover!Publish
<1>1. /\ bundle' = PhaseBundle(phase) /\ pc = "data" /\ UNCHANGED pods
  BY DEF WriteData, clusterVars
<1>2. bundle' # NoBundle
  BY <1>1, PhaseMaterial
<1>3. PICK S : AgreedNext(S)
  BY WriteAgrees DEF RolloverInv
<1>4. Material(bundle', trust') \in Rollover!Material
  <2>1. bundle' \in Bundle /\ trust' \in SUBSET CA
    BY DEF SecretTyped
  <2> QED  BY <2>1, MaterialTyped DEF Rollover!Material
<1>5. Suits(bundle', trust', S)
  BY <1>2, <1>3 DEF AgreedNext
<1>6. \A w \in Workloads : \A q \in pods[w] : Suits(q.bundle, q.trust, S)
  BY <1>1, <1>3 DEF AgreedNext
<1>7. \A m \in Rollover!Live : m.signer \in S /\ S \subseteq m.roots
  BY <1>6, LiveMaterials, MaterialSuits
<1>8. \A m \in Rollover!Live \cup {Material(bundle', trust')} :
        m.signer \in S /\ S \subseteq m.roots
  BY <1>5, <1>7, MaterialSuits
<1>9. Rollover!Agree(Rollover!Live \cup {Material(bundle', trust')})
  BY <1>8, MaterialsAgree
<1> QED  BY <1>1, <1>4, <1>9 DEF Rollover!Publish, Material

\* A pod that starts copies what is published, which gets along with itself.
LEMMA ImplementsExchange ==
  ASSUME ClusterTyped, SecretInv, RolloverInv,
         PodStep \/ HelmApplies
  PROVE  Rollover!Exchange
<1>1. UNCHANGED <<bundle, trust>>
  BY DEF PodStep, Controller, StartPod, StopPod, ReplacePod, HelmApplies,
     secretVars
<1>2. bundle # NoBundle
  <2>1. CASE HelmApplies
    <3>1. pc = "done"
      BY <2>1 DEF HelmApplies
    <3>2. Minted /\ (Rotates => snap.shape = "canonical")
      BY <3>1 DEF Minted, SecretInv, Admitted
    <3> QED  BY <3>1, <3>2 DEF SecretInv, Finished, Governed, Admitted, Published
  <2>2. CASE PodStep
    <3>1. \E w \in Workloads : w \in deployed
      BY <2>2 DEF PodStep, Controller, StartPod, StopPod, ReplacePod,
         RolloverInv, Templates
    <3> QED  BY <3>1 DEF SecretInv, Governed, Identified
  <2> QED  BY <2>1, <2>2
<1>3. PICK S : Agreed(S)
  BY DEF RolloverInv, Agreements
<1>4. Suits(bundle, trust, S)
  BY <1>2, <1>3 DEF Agreed
<1>5. Rollover!Agree({Material(bundle, trust)})
  BY <1>4, MaterialSuits, MaterialsAgree
<1>6. \A w \in Workloads : \A q \in pods'[w] :
         \/ q \in pods[w]
         \/ q.bundle = bundle /\ q.trust = trust
  <2>1. CASE HelmApplies
    BY <2>1 DEF HelmApplies, PodOf
  <2>2. CASE PodStep
    BY <2>2, NewPods DEF RolloverInv
  <2> QED  BY <2>1, <2>2
<1>7. \A w \in Workloads : {Material(q.bundle, q.trust) : q \in pods'[w]}
        \subseteq {Material(q.bundle, q.trust) : q \in pods[w]}
                    \cup {Material(bundle, trust)}
  BY <1>6
<1> QED  BY <1>1, <1>5, <1>7 DEF Rollover!Exchange, Material

\* Everything else leaves the Secret and the pods alone.
LEMMA ImplementsStutter ==
  ASSUME UNCHANGED <<bundle, trust, pods>>
  PROVE  UNCHANGED Rollover!vars
  BY DEF Rollover!vars, Material

LEMMA ImplementsNext ==
  ASSUME PartsTyped, SecretTyped', SecretInv, RolloverInv, [Next]_vars
  PROVE  [Rollover!Next]_(Rollover!vars)
<1>1. CASE WriteData
  BY <1>1, ImplementsPublish DEF Rollover!Next
<1>2. CASE PodStep \/ HelmApplies
  BY <1>2, ImplementsExchange DEF Rollover!Next, PartsTyped
<1>3. ASSUME \/ UNCHANGED vars \/ ScriptStep
             \/ \E r \in Requests : Upgrade(r)
             \/ Snapshot \/ SnapshotGetFails \/ SnapshotRefuses
             \/ \E age \in Ages : Mint(age) \/ MintRefuses(age)
             \/ ApplyStart \/ Committed \/ RestartContainer
             \/ LosePod \/ GiveUp
      PROVE  UNCHANGED <<bundle, trust, pods>>
  <2>1. CASE ScriptStep
    BY <2>1, ScriptKeeps DEF ScriptStep, LabelSecret, AnnotateSecret,
       GetWorkload, SkipWorkload, PatchWorkload, RolloutConverges, EndRollout,
       RecordReady, OverlapOpen, CheckHistory, CreateHistory, CallFails,
       PatchFails, RolloutTimesOut, OverlapExpired, HistoryFails, Terminate,
       Kill, clusterVars
  <2>2. CASE ~ScriptStep
    BY <1>3, <2>2 DEF vars, Upgrade, Snapshot, SnapshotGetFails,
       SnapshotRefuses, Mint, MintRefuses, ApplyStart, Committed,
       RestartContainer, LosePod, GiveUp, secretVars, clusterVars
  <2> QED  BY <2>1, <2>2
<1> QED
  BY <1>1, <1>2, <1>3, ImplementsStutter
     DEF Next, HookStep, FaultStep, ScriptStep, PodStep

\* The hook, its rollback and its retries included, is a trust rollover: every
\* write to the Secret gets along with every pod that is live, so a pod may
\* start, be evicted or be replaced at any moment (apply.sh, write_bundle and
\* rollout_generation).
THEOREM HookIsRollover ==
  ASSUME NoMisread, RolloverUndisturbed
  PROVE  Spec => ImplementsRollover
<1>1. Spec => [](PartsTyped /\ SecretInv /\ RolloverInv)
  <2>1. Init => PartsTyped /\ SecretInv
    BY InitTyped, TypedParts, SecretInit DEF PartsTyped
  <2>2. PartsTyped /\ [Next]_vars => PartsTyped'
    BY PartsTypedNext
  <2>3. PartsTyped /\ SecretInv /\ [Next]_vars => SecretInv'
    BY SecretNext
  <2> QED  BY <2>1, <2>2, <2>3, RolloverHeld, PTL DEF Spec
<1>2. PartsTyped' => SecretTyped'
  BY DEF PartsTyped
<1>3. ASSUME PartsTyped, PartsTyped', SecretInv, RolloverInv, [Next]_vars
      PROVE  [Rollover!Next]_(Rollover!vars)
  <2>1. SecretTyped'
    BY <1>2, <1>3
  <2> QED  BY <1>3, <2>1, ImplementsNext
<1> QED  BY <1>1, <1>3, ImplementsInit, PTL
         DEF Spec, ImplementsRollover, Rollover!Spec

\* No two live pods ever refuse each other's certificate, through a rotation,
\* its rollback and the restarts of the Job in between.
THEOREM TrustIsMutual ==
  ASSUME NoMisread, RolloverUndisturbed
  PROVE  Spec => []MutualTrust
BY HookIsRollover, RolloverIsMutual, PTL

\* The old root leaves the live trust only when every workload runs with the new
\* leaf and trusts both roots (apply.sh, the overlap-new rollout and its gate).
THEOREM RetirementWaits ==
  ASSUME NoMisread, RolloverUndisturbed
  PROVE  Spec => RetirementBoundary
<1>1. SecretInv /\ RolloverInv =>
        [(pc = "data" /\ phase = "retiring" /\ trust' # trust)
           => \A w \in deployed : \A p \in pods[w] :
                p.bundle = cand /\ p.trust = {snap.bundle.ca, cand.ca}]_vars
  <2> SUFFICES ASSUME SecretInv, RolloverInv, pc = "data", phase = "retiring"
               PROVE  \A w \in deployed : \A p \in pods[w] :
                        p.bundle = cand /\ p.trust = {snap.bundle.ca, cand.ca}
    OBVIOUS
  <2>1. InPhase({"retiring"}) /\ Minted
    BY DEF InPhase, Minted, ApplySteps
  <2>2. Replaces
    BY <2>1 DEF Replaces, SecretInv, PhaseFits, ApplySteps
  <2> QED  BY <2>1, <2>2 DEF RolloverInv, Templates, Both
<1> QED  BY <1>1, SecretHeld, RolloverHeld, PTL DEF RetirementBoundary

(***************************************************************************)
(* The truth of the announcements.                                         *)
(***************************************************************************)
\* Where an announcement of readiness could come to be a lie: a rollout that
\* leaves out a workload that runs, and a rotation that kept the signer and
\* failed, whose rollback writes templates that the pods already have.
ReadinessUndisturbed ==
    FaultPoints \cap
      (({"get"} \X {"rotating", "retiring", "restore"})
       \cup ({"api", "patch", "rollout", "term"} \X {"rotating"})) = {}

Synced ==
    \A w \in deployed : \A q \in pods[w] : q.bundle = bundle /\ q.trust = trust

\* Metadata that would let a run act on the Secret, the label apart.
Credible ==
    /\ bundle # NoBundle /\ trust = {bundle.ca}
    /\ IsLegacy(ann) \/ (ann.state = "stable" /\ ann.ready)
    /\ DigestsMatch(bundle, trust, ann)

\* The rollout is complete, or there has not been any.
Settled ==
    \/ InPhase({"commit"})
    \/ Replaces /\ InPhase({"retiring"}) /\ pc \in {"check-history", "history"}
    \/ Minted /\ snap.shape = "legacy"

SnapshotRead ==
    pc = "mint" => /\ snap.shape = "legacy" => IsLegacy(snap.ann)
                   /\ snap.shape = "canonical" => IsCanonical(snap.ann)

\* The steps of a phase that come before its rollout.
Writing == {"data", "label", "annotate"}

\* The metadata says that a rotation is under way: from the annotation of one
\* phase to the annotation of the next.
UnderWay ==
    \/ InPhase({"overlap-new", "retiring", "rollback-old-dual"})
    \/ InPhase({"overlap-old", "rollback-new-dual"}) /\ pc \notin Writing
    \/ InPhase({"commit"}) /\ pc # "committed"
    \/ InPhase({"restore"}) /\ pc \in Writing

\* The last rollout of a rotation that replaces the signer, or of its rollback:
\* what comes along has copied what the Secret holds.
Replacing ==
    Replaces =>
      /\ UnderWay => ann.state \notin {"unset", "stable"}
      /\ InPhase({"restore"}) /\ RollingOut
           => ann.state # "unset" /\ (ann.state = "stable" => ~ann.ready)
      /\ InPhase({"retiring", "restore"}) =>
           /\ pc = "data" => ~Carried(PhaseTemplate(phase))
           /\ pc # "data" => CopiedBy(PhaseTemplate(phase), bundle, trust)
           /\ Rolling(PhaseTemplate(phase))

\* A rotation that keeps the signer has one rollout, and may repeat it.
Keeps == Minted /\ Rotates /\ KeepsSigner
Rotating == PhaseTemplate("rotating")

Keeping ==
    Keeps =>
      /\ InPhase({"rotating", "commit"}) \/ pc \notin ApplySteps
      /\ ann.state # "unset"
      /\ ann.state = "stable" /\ ann.rev = cand.rev
           => Published(cand, {cand.ca}) /\ Synced
      /\ Carried(Rotating) => Published(cand, {cand.ca})
      /\ CopiedBy(Rotating, cand, {cand.ca})
      /\ InPhase({"rotating"}) =>
           /\ Rolling(Rotating)
           /\ RollingOut => ~missed /\ ann.state = "rotating"

ReadinessInv ==
    (Credible \/ Settled => Synced) /\ SnapshotRead /\ Replacing /\ Keeping

(***************************************************************************)
(* What a step leaves alone.                                               *)
(***************************************************************************)
LEMMA CredibleStays ==
  ASSUME UNCHANGED <<bundle, trust, ann>>
  PROVE  Credible' = Credible
  BY DEF Credible, IsLegacy, DigestsMatch

LEMMA SyncedStays ==
  ASSUME UNCHANGED <<bundle, trust, deployed, pods>>
  PROVE  Synced' = Synced
  BY DEF Synced

\* A pod that starts copies the Secret: it does not make a lie of anything.
LEMMA SyncedPods ==
  ASSUME ClusterTyped, JobTyped, Templates, PodStep \/ HelmApplies, Synced
  PROVE  Synced'
<1>1. CASE PodStep
  <2>1. UNCHANGED <<bundle, trust, deployed>>
    BY <1>1 DEF PodStep, Controller, StartPod, StopPod, ReplacePod, secretVars
  <2>2. deployed \subseteq Workloads
    BY DEF ClusterTyped
  <2> QED  BY <1>1, <2>1, <2>2, NewPods DEF Synced
<1>2. CASE HelmApplies
  <2>1. /\ UNCHANGED <<bundle, trust>> /\ deployed' = deployed \cup req.members
        /\ pods' = [w \in Workloads |->
                      IF w \in req.members \ deployed
                      THEN {PodOf(template[w])} ELSE pods[w]]
    BY <1>2 DEF HelmApplies, secretVars
  <2>2. \A w \in deployed' : w \in Workloads => \A q \in pods'[w] :
           \/ w \in deployed /\ q \in pods[w]
           \/ q.bundle = bundle /\ q.trust = trust
    BY <2>1 DEF PodOf
  <2>3. deployed' \subseteq Workloads
    BY <2>1 DEF ClusterTyped, JobTyped, Request
  <2> QED  BY <2>1, <2>2, <2>3 DEF Synced
<1> QED  BY <1>1, <1>2

(***************************************************************************)
(* The controllers.                                                        *)
(***************************************************************************)
\* A template that nothing has stays so, and one that copies what the Secret
\* holds goes on to.
LEMMA PodsCarry ==
  ASSUME ClusterTyped, Elsewhere, PodStep, NEW t
  PROVE  /\ (\E w \in deployed : \/ template[w] = t
                                 \/ \E q \in pods'[w] : q.template = t)
              => Carried(t)
         /\ \A b, roots :
              CopiedBy(t, b, roots) /\ (Carried(t) => Published(b, roots)) =>
                \A w \in deployed : \A q \in pods'[w] :
                  q.template = t => q.bundle = b /\ q.trust = roots
         /\ \A w \in deployed :
              Has(w, t) => /\ template[w] = t
                           /\ \A q \in pods'[w] : q.template = t
<1>1. deployed \subseteq Workloads
  BY DEF ClusterTyped
<1>2. \A v \in Workloads : \A q \in pods'[v] :
           \/ q \in pods[v]
           \/ /\ q.bundle = bundle /\ q.trust = trust
              /\ \/ q.template = template[v]
                 \/ \E p \in pods[v] : q.template = p.template
  BY CopiedPods
<1>3. \A w \in deployed : \A q \in pods'[w] : q.template = t => Carried(t)
  BY <1>1, <1>2 DEF Carried
<1>4. \A w \in deployed : template[w] = t => Carried(t)
  BY DEF Carried
<1>5. \A w \in deployed :
        Has(w, t) => /\ template[w] = t
                     /\ \A q \in pods'[w] : q.template = t
  BY <1>1, <1>2 DEF Has
<1>6. ASSUME NEW b, NEW roots, CopiedBy(t, b, roots),
             Carried(t) => Published(b, roots),
             NEW w \in deployed, NEW q \in pods'[w], q.template = t
      PROVE  q.bundle = b /\ q.trust = roots
  BY <1>1, <1>2, <1>3, <1>6 DEF CopiedBy, Published
<1> QED  BY <1>3, <1>4, <1>5, <1>6

LEMMA PodsReadiness ==
  ASSUME ClusterTyped, JobTyped, Templates, ReadinessInv, PodStep
  PROVE  ReadinessInv'
<1>1. UNCHANGED <<bundle, trust, ann, deployed, template, pc, phase, todo, cur,
                  missed, snap, cand, req>>
  BY DEF PodStep, Controller, StartPod, StopPod, ReplacePod, secretVars,
     rolloutVars, stateVars, jobVars
<1>2. /\ Replaces' = Replaces /\ Keeps' = Keeps /\ Minted' = Minted
      /\ \A p \in Phases : PhaseTemplate(p)' = PhaseTemplate(p)
      /\ Elsewhere
  BY <1>1, DecidedStays DEF Decided, Replaces, Keeps, Minted, Templates, Elsewhere
<1>3. /\ \A P : InPhase(P)' = InPhase(P)
      /\ RollingOut' = RollingOut /\ UnderWay' = UnderWay
      /\ Settled' = Settled /\ SnapshotRead' = SnapshotRead
  BY <1>1, <1>2 DEF InPhase, RollingOut, UnderWay, Settled, SnapshotRead,
     IsLegacy, IsCanonical
<1>4. Credible' = Credible
  BY <1>1, CredibleStays
<1>6. Synced => Synced'
  BY SyncedPods
<1>7. Replacing'
  <2> SUFFICES ASSUME Replaces
               PROVE  Replacing'
    BY <1>2 DEF Replacing
  <2>1. ASSUME InPhase({"retiring", "restore"})
        PROVE  /\ pc = "data" => ~Carried(PhaseTemplate(phase))'
               /\ pc # "data" => CopiedBy(PhaseTemplate(phase), bundle, trust)'
               /\ Rolling(PhaseTemplate(phase))'
    <3>1. PhaseTemplate(phase)' = PhaseTemplate(phase)
      BY <1>1, <1>2, <2>1 DEF InPhase, Phases, RollbackPhases
    <3>2. PICK t : t = PhaseTemplate(phase)
      OBVIOUS
    <3>3. /\ pc = "data" => ~Carried(t)
          /\ pc # "data" => CopiedBy(t, bundle, trust)
          /\ Rolling(t)
      BY <2>1, <3>2 DEF ReadinessInv, Replacing
    <3>4. pc = "data" => ~Carried(t)'
      BY <1>1, <3>3, <1>2, PodsCarry DEF Carried
    <3>5. pc # "data" => CopiedBy(t, bundle, trust)'
      BY <1>1, <3>3, <1>2, PodsCarry DEF CopiedBy, Published
    <3>6. Rolling(t)'
      BY <1>1, <1>3, <3>3, <1>2, PodsCarry DEF Rolling, Has
    <3> QED  BY <3>1, <3>2, <3>4, <3>5, <3>6
  <2> QED  BY <1>1, <1>2, <1>3, <2>1 DEF ReadinessInv, Replacing
<1>8. Keeping'
  <2> SUFFICES ASSUME Keeps
               PROVE  Keeping'
    BY <1>2 DEF Keeping
  <2>1. PICK t : t = Rotating
    OBVIOUS
  <2>2. Rotating' = t
    BY <1>2, <2>1 DEF Rotating, Phases
  <2>3. /\ Carried(Rotating) => Published(cand, {cand.ca})
        /\ CopiedBy(Rotating, cand, {cand.ca})
        /\ InPhase({"rotating"}) =>
             /\ Rolling(Rotating)
             /\ RollingOut => ~missed /\ ann.state = "rotating"
        /\ InPhase({"rotating", "commit"}) \/ pc \notin ApplySteps
        /\ ann.state # "unset"
        /\ ann.state = "stable" /\ ann.rev = cand.rev
             => Published(cand, {cand.ca}) /\ Synced
    BY DEF ReadinessInv, Keeping
  <2>4. Carried(Rotating)' => Carried(Rotating)
    BY <1>1, <2>1, <2>2, <1>2, PodsCarry DEF Carried
  <2>5. CopiedBy(Rotating, cand, {cand.ca})'
    <3>1. CopiedBy(t, cand, {cand.ca}) /\ (Carried(t) => Published(cand, {cand.ca}))
      BY <2>1, <2>3
    <3>2. \A w \in deployed : \A q \in pods'[w] :
            q.template = t => q.bundle = cand /\ q.trust = {cand.ca}
      BY <3>1, <1>2, PodsCarry
    <3> QED  BY <1>1, <2>2, <3>2 DEF CopiedBy
  <2>6. InPhase({"rotating"}) => Rolling(Rotating)'
    BY <1>1, <1>3, <2>1, <2>2, <2>3, <1>2, PodsCarry DEF Rolling, Has
  <2>7. Published(cand, {cand.ca})' = Published(cand, {cand.ca})
    BY <1>1 DEF Published
  <2> QED  BY <1>1, <1>3, <1>6, <2>3, <2>4, <2>5, <2>6, <2>7 DEF Keeping
<1> QED  BY <1>3, <1>4, <1>6, <1>7, <1>8 DEF ReadinessInv

(***************************************************************************)
(* The writes of a phase.                                                  *)
(***************************************************************************)
\* What nothing carries nobody has copied.
LEMMA NotCarried ==
  ASSUME NEW t, ~Carried(t)
  PROVE  \A b, roots : CopiedBy(t, b, roots)
  BY DEF Carried, CopiedBy

\* New bytes come with metadata that says otherwise, or are what the pods have.
LEMMA WriteCredible ==
  ASSUME SecretInv, RolloverInv, ReadinessInv, WriteData, Credible'
  PROVE  Synced'
<1>1. /\ pc = "data" /\ bundle' = PhaseBundle(phase)
      /\ trust' = PhaseTrust(phase) /\ UNCHANGED <<ann, deployed, pods>>
  BY DEF WriteData, clusterVars
<1>2. /\ Minted /\ pc \in ApplySteps /\ Admitted /\ StepFits /\ PhaseFits
      /\ phase \in ApplyPhases \ {"initial", "migrate", "commit"} \/ ~Rotates
  BY <1>1 DEF SecretInv, Minted, ApplySteps, StepFits, PhaseFits, Admitted
<1>3. /\ bundle' # NoBundle /\ trust' = {bundle'.ca}
      /\ ann.state = "unset" \/ (ann.state = "stable" /\ ann.rev = bundle'.rev)
  BY <1>1 DEF Credible, IsLegacy, DigestsMatch
<1>4. CASE ~Rotates
  <2>1. deployed = {}
    BY <1>1, <1>2, <1>4, PhaseMaterial DEF SecretInv, Governed
  <2> QED  BY <1>1, <2>1 DEF Synced
<1>5. CASE Rotates /\ KeepsSigner
  <2>1. Keeps /\ ann.state # "unset" /\ phase = "rotating"
    BY <1>1, <1>2, <1>5 DEF Keeps, ReadinessInv, Keeping, InPhase, StepFits
  <2>2. bundle' = cand /\ trust' = {cand.ca}
    BY <1>1, <2>1 DEF PhaseBundle, PhaseTrust, WritesOld, DualTrust
  <2>3. Published(cand, {cand.ca}) /\ Synced
    BY <1>3, <2>1, <2>2 DEF ReadinessInv, Keeping
  <2> QED  BY <1>1, <2>2, <2>3 DEF Published, Synced
<1>6. CASE Rotates /\ ~KeepsSigner
  <2>1. Replaces /\ Old # New
    BY <1>2, <1>6 DEF Replaces, RolloverInv, Agreements
  <2>2. phase \notin DualTrust
    <3>1. \A x : Both # {x}
      BY <2>1 DEF Both, Old, New
    <3>2. phase \in DualTrust => trust' = Both
      BY <1>1 DEF PhaseTrust, Both
    <3> QED  BY <1>3, <3>1, <3>2
  <2>3. phase \in {"retiring", "restore"}
    BY <1>2, <1>6, <2>2 DEF ApplyPhases, Phases, RollbackPhases, PhaseFits,
       DualTrust
  <2>4. UnderWay
    BY <1>1, <1>2, <2>3 DEF UnderWay, InPhase, Writing
  <2> QED  BY <1>3, <2>1, <2>4 DEF ReadinessInv, Replacing
<1> QED  BY <1>4, <1>5, <1>6

LEMMA WriteReadiness ==
  ASSUME SecretInv, RolloverInv, ReadinessInv, WriteData
  PROVE  ReadinessInv'
<1>1. /\ pc = "data" /\ pc' = "label" /\ UNCHANGED phase
      /\ bundle' = PhaseBundle(phase) /\ trust' = PhaseTrust(phase)
      /\ UNCHANGED <<ann, deployed, template, pods, snap, cand, req>>
  BY DEF WriteData, AfterCall, Goto, clusterVars, stateVars, jobVars
<1>2. /\ Rotates' = Rotates /\ KeepsSigner' = KeepsSigner
      /\ \A p \in Phases : PhaseTemplate(p)' = PhaseTemplate(p)
  BY <1>1, DecidedStays DEF Decided
<1>3. /\ Minted /\ Minted' /\ Replaces' = Replaces /\ Keeps' = Keeps
      /\ \A P : InPhase(P)' = InPhase(P)
      /\ UnderWay' => UnderWay
      /\ ~RollingOut'
  BY <1>1, <1>2 DEF Minted, Replaces, Keeps, InPhase, UnderWay, Writing,
     RollingOut, ApplySteps
<1>4. Admitted /\ StepFits /\ PhaseFits
  BY <1>3 DEF SecretInv
<1>5. ~Settled'
  <2>1. phase # "commit" /\ snap.shape # "legacy"
    BY <1>1, <1>4, PhaseMaterial DEF StepFits, Admitted
  <2> QED  BY <1>1, <2>1 DEF Settled, InPhase
<1>6. SnapshotRead'
  BY <1>1 DEF SnapshotRead
<1>7. \A t : Rolling(t)'
  BY <1>1, <1>3 DEF Rolling
<1>8. Replacing'
  <2> SUFFICES ASSUME Replaces
               PROVE  Replacing'
    BY <1>3 DEF Replacing
  <2>1. ASSUME InPhase({"retiring", "restore"})
        PROVE  /\ CopiedBy(PhaseTemplate(phase), bundle, trust)'
               /\ Rolling(PhaseTemplate(phase))'
    <3>1. ~Carried(PhaseTemplate(phase))
      BY <1>1, <2>1 DEF ReadinessInv, Replacing
    <3>2. PhaseTemplate(phase)' = PhaseTemplate(phase)
      BY <1>1, <1>2, <2>1 DEF InPhase, Phases, RollbackPhases
    <3>3. PICK t : t = PhaseTemplate(phase)
      OBVIOUS
    <3>4. CopiedBy(t, bundle, trust)'
      BY <1>1, <3>1, <3>3 DEF Carried, CopiedBy
    <3> QED  BY <1>7, <3>2, <3>3, <3>4
  <2> QED  BY <1>1, <1>3, <2>1 DEF ReadinessInv, Replacing
<1>9. Keeping'
  <2> SUFFICES ASSUME Keeps
               PROVE  Keeping'
    BY <1>3 DEF Keeping
  <2>1. InPhase({"rotating", "commit"}) /\ phase = "rotating"
    BY <1>1, <1>4 DEF ReadinessInv, Keeping, InPhase, ApplySteps, StepFits
  <2>2. bundle' = cand /\ trust' = {cand.ca}
    BY <1>1, <2>1 DEF PhaseBundle, PhaseTrust, WritesOld, DualTrust
  <2>3. Rotating' = Rotating
    BY <1>2 DEF Rotating, Phases
  <2>4. /\ ann.state # "unset"
        /\ ann.state = "stable" /\ ann.rev = cand.rev
             => Published(cand, {cand.ca}) /\ Synced
        /\ CopiedBy(Rotating, cand, {cand.ca})
    BY DEF ReadinessInv, Keeping
  <2>5. Published(cand, {cand.ca})'
    BY <1>1, <2>2 DEF Published
  <2>6. Published(cand, {cand.ca}) /\ Synced => Synced'
    BY <1>1, <2>2 DEF Published, Synced
  <2>7. CopiedBy(Rotating, cand, {cand.ca})'
    BY <1>1, <2>3, <2>4 DEF CopiedBy
  <2>8. ~RollingOut'
    BY <1>3
  <2> QED  BY <1>1, <1>3, <1>7, <2>1, <2>4, <2>5, <2>6, <2>7, <2>8 DEF Keeping
<1> QED  BY <1>5, <1>6, <1>8, <1>9, WriteCredible DEF ReadinessInv

(***************************************************************************)
(* Helm and the Job around the script.                                     *)
(***************************************************************************)
LEMMA JobReadiness ==
  ASSUME ClusterTyped, JobTyped, Templates, ReadinessInv,
         \/ \E r \in Requests : Upgrade(r)
         \/ Snapshot \/ SnapshotGetFails \/ SnapshotRefuses
         \/ \E age \in Ages : MintRefuses(age)
         \/ LosePod \/ GiveUp \/ HelmApplies
  PROVE  ReadinessInv'
<1>1. pc' \in {"idle", "snapshot", "mint"} /\ UNCHANGED <<bundle, trust, ann>>
  BY DEF Upgrade, Snapshot, SnapshotGetFails, SnapshotRefuses, MintRefuses,
     LosePod, GiveUp, HelmApplies, JobFails, Goto, secretVars
<1>2. ~Minted' /\ \A P : ~InPhase(P)'
  BY <1>1 DEF Minted, InPhase, ApplySteps
<1>3. ~Settled' /\ Replacing' /\ Keeping'
  BY <1>2 DEF Settled, Replacing, Replaces, Keeping, Keeps
<1>4. SnapshotRead'
  <2>1. CASE Snapshot
    BY <2>1 DEF Snapshot, SnapshotAccepts, NoSnapshot, SnapshotRead, IsLegacy,
       IsCanonical
  <2>2. CASE SnapshotGetFails
    BY <2>2 DEF SnapshotGetFails, NoSnapshot, SnapshotRead
  <2>3. CASE ~Snapshot /\ ~SnapshotGetFails
    BY <2>3 DEF Upgrade, SnapshotRefuses, MintRefuses, LosePod, GiveUp,
       HelmApplies, JobFails, SnapshotRead
  <2> QED  BY <2>1, <2>2, <2>3
<1>5. Synced => Synced'
  <2>1. CASE HelmApplies
    BY <2>1, SyncedPods
  <2>2. CASE ~HelmApplies
    BY <2>2, SyncedStays DEF Upgrade, Snapshot, SnapshotGetFails,
       SnapshotRefuses, MintRefuses, LosePod, GiveUp, secretVars, clusterVars
  <2> QED  BY <2>1, <2>2
<1> QED  BY <1>1, <1>3, <1>4, <1>5, CredibleStays DEF ReadinessInv

\* What mint.sh makes has a revision that nothing has seen yet.
LEMMA MintReadiness ==
  ASSUME PartsTyped, Known, SecretInv, RolloverInv, ReadinessInv,
         NEW age \in Ages, Mint(age)
  PROVE  ReadinessInv'
<1>1. /\ pc = "mint" /\ pc' = "start" /\ MintAdmits(age)
      /\ UNCHANGED <<bundle, trust, ann, deployed, template, pods, snap, req>>
      /\ Rotates' = Rotates /\ KeepsSigner' = KeepsSigner
      /\ \A P : ~InPhase(P)'
  BY DEF Mint, Goto, secretVars, clusterVars, jobVars, Rotates, KeepsSigner,
     InPhase, ApplySteps
<1>2. Credible' = Credible /\ Synced' = Synced
  BY <1>1, CredibleStays, SyncedStays
<1>3. SnapshotRead' /\ ~UnderWay'
  BY <1>1 DEF SnapshotRead, UnderWay
<1>4. snap.shape = "legacy" => Synced
  <2> SUFFICES ASSUME snap.shape = "legacy"
               PROVE  Credible
    BY DEF ReadinessInv
  <2>1. snap.trust = {snap.bundle.ca}
    BY <1>1 DEF MintAdmits, ValidatesActive
  <2>2. /\ snap.bundle # NoBundle /\ Published(snap.bundle, snap.trust)
        /\ ann = snap.ann
    BY <1>1 DEF SecretInv, Governed
  <2>3. IsLegacy(ann)
    BY <1>1, <2>2 DEF ReadinessInv, SnapshotRead
  <2> QED  BY <2>1, <2>2, <2>3 DEF Credible, DigestsMatch, Published
<1>5. Settled' => Synced'
  BY <1>1, <1>2, <1>4 DEF Settled
<1>6. Replacing'
  BY <1>1, <1>3 DEF Replacing
<1>7. ASSUME Rotates, KeepsSigner
      PROVE  /\ ann.state # "unset" /\ ann.rev # cand'.rev
             /\ ~Carried(Rotating)'
  <2>1. snap.shape = "canonical"
    BY <1>1, <1>7 DEF MintAdmits, AdmitsReconcile, AdmitsRotate, Rotates
  <2>2. ann.state # "unset"
    BY <1>1, <2>1 DEF SecretInv, Governed, ReadinessInv, SnapshotRead,
       IsCanonical
  <2>3. cand'.rev = serial + 1
    BY <1>1, <1>7, <2>1, MintsNew DEF Mint, MintKeeps, Rotates
  <2>4. serial \in Nat /\ ann.rev \in Nat /\ ann.rev <= serial
    BY DEF PartsTyped, BoundsTyped, SecretTyped, Annotations, Known, KnownSecret
  <2>5. Rotating'.rev = serial + 1
    BY <2>3 DEF Rotating, PhaseTemplate, PhaseBundle, WritesOld
  <2>6. ASSUME NEW t, KnownTemplate(t), t = Rotating'
        PROVE  FALSE
    BY <2>4, <2>5, <2>6 DEF KnownTemplate
  <2>7. deployed \subseteq Workloads
    BY DEF PartsTyped, ClusterTyped
  <2>8. ~Carried(Rotating)'
    BY <1>1, <2>6, <2>7 DEF Known, KnownCluster, Carried
  <2> QED  BY <2>2, <2>3, <2>4, <2>8
<1>8. Keeping'
  <2> SUFFICES ASSUME Rotates, KeepsSigner
               PROVE  Keeping'
    BY <1>1 DEF Keeping, Keeps
  <2>1. CopiedBy(Rotating, cand, {cand.ca})'
    BY <1>7 DEF Carried, CopiedBy
  <2> QED  BY <1>1, <1>7, <2>1 DEF Keeping, ApplySteps
<1> QED  BY <1>2, <1>3, <1>5, <1>6, <1>8 DEF ReadinessInv

\* The start of apply.sh, its end and its next attempt.
LEMMA CourseReadiness ==
  ASSUME SecretInv, ReadinessInv, ApplyStart \/ Committed \/ RestartContainer
  PROVE  ReadinessInv'
<1> USE DEF ApplySteps
<1>1. /\ UNCHANGED <<bundle, trust, ann, deployed, template, pods, snap, cand, req>>
      /\ Minted /\ Minted'
  BY DEF ApplyStart, Committed, RestartContainer, Enter, Goto, Minted,
     secretVars, clusterVars, stateVars, jobVars
<1>2. /\ Replaces' = Replaces /\ Keeps' = Keeps /\ Rotating' = Rotating
      /\ Rotates' = Rotates
  BY <1>1, DecidedStays DEF Decided, Replaces, Keeps, Rotating, Phases
<1>3. Credible' = Credible /\ Synced' = Synced
  BY <1>1, CredibleStays, SyncedStays
<1>4. /\ pc' \in {"start", "done", "data", "label"}
      /\ pc' = "data" => phase' \in {"initial", "rotating", "overlap-old"}
      /\ pc' = "label" => phase' = "migrate" /\ snap.shape = "legacy"
      /\ pc' \in {"data", "label"} /\ Rotates
           => phase' = IF KeepsSigner THEN "rotating" ELSE "overlap-old"
  <2>1. CASE ApplyStart
    <3>1. CASE Rotates
      <4>1. CASE KeepsSigner
        <5>1. Enter("rotating")
          BY <1>1, <2>1, <3>1, <4>1 DEF ApplyStart, Rotates, SecretInv, Admitted
        <5> QED  BY <4>1, <5>1 DEF Enter
      <4>2. CASE ~KeepsSigner
        <5>1. Enter("overlap-old")
          BY <1>1, <2>1, <3>1, <4>2 DEF ApplyStart, Rotates, SecretInv, Admitted
        <5> QED  BY <4>2, <5>1 DEF Enter
      <4> QED  BY <4>1, <4>2
    <3>2. CASE ~Rotates /\ snap.shape = "absent"
      <4>1. Enter("initial")
        BY <2>1, <3>2 DEF ApplyStart, Rotates
      <4> QED  BY <3>2, <4>1 DEF Enter
    <3>3. CASE ~Rotates /\ snap.shape = "legacy"
      <4>1. Enter("migrate")
        BY <2>1, <3>3 DEF ApplyStart, Rotates
      <4> QED  BY <3>3, <4>1 DEF Enter
    <3>4. CASE ~Rotates /\ snap.shape \notin {"absent", "legacy"}
      <4>1. Goto("done")
        BY <2>1, <3>4 DEF ApplyStart, Rotates
      <4> QED  BY <4>1 DEF Goto
    <3> QED  BY <3>1, <3>2, <3>3, <3>4
  <2>2. CASE Committed \/ RestartContainer
    BY <2>2 DEF Committed, RestartContainer
  <2> QED  BY <2>1, <2>2
<1>5. Settled' => Settled
  BY <1>1, <1>4 DEF Settled, InPhase
<1>6. SnapshotRead'
  BY <1>4 DEF SnapshotRead
<1>7. Replacing'
  BY <1>2, <1>4 DEF Replacing, InPhase, UnderWay, Writing, RollingOut
<1>8. Keeping'
  <2> SUFFICES ASSUME Keeps
               PROVE  Keeping'
    BY <1>2 DEF Keeping
  <2>1. pc' \notin ApplySteps \/ (pc' = "data" /\ phase' = "rotating")
    <3>1. snap.shape # "legacy"
      BY <1>1 DEF SecretInv, Admitted, Keeps
    <3> QED  BY <1>4, <3>1 DEF Keeps
  <2>2. InPhase({"rotating", "commit"})' \/ pc' \notin ApplySteps
    BY <2>1 DEF InPhase
  <2>3. \A t : InPhase({"rotating"})' => Rolling(t)' /\ ~RollingOut'
    BY <2>1 DEF InPhase, Rolling, RollingOut
  <2>4. /\ ann.state # "unset"
        /\ ann.state = "stable" /\ ann.rev = cand.rev
             => Published(cand, {cand.ca}) /\ Synced
        /\ Carried(Rotating) => Published(cand, {cand.ca})
        /\ CopiedBy(Rotating, cand, {cand.ca})
    BY DEF ReadinessInv, Keeping
  <2>5. /\ Published(cand, {cand.ca})' = Published(cand, {cand.ca})
        /\ Carried(Rotating)' => Carried(Rotating)
        /\ CopiedBy(Rotating, cand, {cand.ca})'
    BY <1>1, <1>2, <2>4 DEF Published, Carried, CopiedBy
  <2> QED  BY <1>1, <1>3, <2>2, <2>3, <2>4, <2>5 DEF Keeping
<1> QED  BY <1>3, <1>5, <1>6, <1>7, <1>8 DEF ReadinessInv

\* The workloads that the cluster starts with have copied what it holds.
LEMMA ReadinessInit == Init => ReadinessInv
<1> SUFFICES ASSUME Init
             PROVE  ReadinessInv
  OBVIOUS
<1>1. pc = "idle" /\ ~Minted /\ \A P : ~InPhase(P)
  BY DEF Init, Minted, InPhase, ApplySteps
<1>2. Synced
  <2>1. deployed \subseteq Workloads
    BY InitTyped, TypedParts DEF PartsTyped, ClusterTyped
  <2>2. CASE EmptyCluster
    BY <2>2 DEF EmptyCluster, Synced
  <2>3. ASSUME NEW b, NEW a, RunningCluster(b, a)
        PROVE  Synced
    BY <2>1, <2>3 DEF RunningCluster, Synced
  <2> QED  BY <2>2, <2>3 DEF Init
<1> QED  BY <1>1, <1>2
         DEF ReadinessInv, SnapshotRead, Replacing, Replaces, Keeping, Keeps

(***************************************************************************)
(* The script.                                                             *)
(***************************************************************************)
\* Where the last rollout has reached its end, everything has come along.
LEMMA LastRolledOut ==
  ASSUME SecretInv, ReadinessInv, pc = "ready",
         \/ Replaces /\ phase \in {"retiring", "restore"}
         \/ Keeps /\ phase = "rotating"
  PROVE  Synced
<1>1. PICK t : t = PhaseTemplate(phase)
  OBVIOUS
<1>2. Rolling(t) /\ CopiedBy(t, bundle, trust)
  <2>1. CASE Replaces /\ phase \in {"retiring", "restore"}
    BY <1>1, <2>1 DEF ReadinessInv, Replacing, InPhase, ApplySteps
  <2>2. CASE Keeps /\ phase = "rotating"
    <3>1. bundle = cand /\ trust = {cand.ca}
      BY <2>2 DEF SecretInv, Rewritten, Published, PhaseBundle, PhaseTrust,
         WritesOld, DualTrust, RollbackPhases, ApplySteps
    <3> QED  BY <1>1, <2>2, <3>1
             DEF ReadinessInv, Keeping, InPhase, ApplySteps, Rotating
  <2> QED  BY <2>1, <2>2
<1>3. \A w \in deployed : Has(w, t)
  BY <1>2 DEF Rolling, RollingOut
<1> QED  BY <1>2, <1>3 DEF Has, CopiedBy, Synced

\* The steps within a phase.
LEMMA StepsWithin ==
  ASSUME StepFits, ScriptStep, pc' \in ApplySteps \ {"data"}, UNCHANGED phase
  PROVE  /\ pc # "committed"
         /\ pc' = "check-history" => pc = "ready"
         /\ pc' = "history" => pc = "check-history"
         /\ pc' \in Writing => pc \in Writing
         /\ pc \in Writing => \/ pc' \in Writing
                              \/ pc = "annotate" /\ (AnnotateSecret \/ CallFails)
         /\ RollingOut' => RollingOut \/ pc = "annotate"
         /\ CallFails => phase \in RollbackPhases /\ UNCHANGED ann
         /\ AnnotateSecret => pc = "annotate" /\ pc' \in {"next", "committed"}
         /\ RecordReady => pc = "ready" /\ pc' \in {"gate", "check-history"}
         /\ AnnotateSecret \/ RecordReady \/ UNCHANGED ann
<1> USE DEF ApplySteps, RollbackPhases, Writing, RollingOut, StepFits
<1>1. ~Die
  BY DEF Die, Enter, Goto
<1>2. AnnotateSecret \/ RecordReady \/ UNCHANGED ann
  BY DEF ScriptStep, LabelSecret, GetWorkload, SkipWorkload, PatchWorkload,
     RolloutConverges, EndRollout, OverlapOpen, CheckHistory, CreateHistory,
     CallFails, PatchFails, RolloutTimesOut, OverlapExpired, HistoryFails,
     Terminate, Kill, secretVars
<1>3. AnnotateSecret => pc = "annotate" /\ pc' \in {"next", "committed"}
  BY DEF AnnotateSecret, AfterCall, Goto
<1>4. RecordReady => pc = "ready" /\ pc' \in {"gate", "check-history"}
  <2> SUFFICES ASSUME RecordReady
               PROVE  pc = "ready" /\ pc' \in {"gate", "check-history"}
    OBVIOUS
  <2>1. pc = "ready" /\ AfterRollout
    BY DEF RecordReady, AfterCall
  <2> QED  BY <2>1 DEF AfterRollout, Enter, Goto
<1>5. CallFails => /\ phase \in RollbackPhases /\ UNCHANGED ann
                   /\ pc \in Writing
                   /\ pc' \in Writing \/ (pc = "annotate" /\ pc' = "next")
  <2> SUFFICES ASSUME CallFails
               PROVE  /\ phase \in RollbackPhases /\ UNCHANGED ann
                      /\ pc \in Writing
                      /\ pc' \in Writing \/ (pc = "annotate" /\ pc' = "next")
    OBVIOUS
  <2>1. /\ phase \in RollbackPhases /\ AfterCall /\ UNCHANGED ann
        /\ pc \in {"data", "label", "annotate", "ready"}
    BY <1>1 DEF CallFails, secretVars
  <2>2. pc # "ready"
    BY <2>1 DEF AfterCall, AfterRollout, Enter, Goto
  <2> QED  BY <2>1, <2>2 DEF AfterCall, Goto
<1>6. CASE EndRollout
  <2>1. pc = "next" /\ pc' \notin Writing \cup {"check-history", "history"}
    <3>1. missed => phase \in RollbackPhases /\ AfterRollout
      BY <1>1, <1>6 DEF EndRollout
    <3>2. phase \in RollbackPhases => ~AfterRollout
      BY DEF AfterRollout, Enter, Goto
    <3> QED  BY <1>6, <3>1, <3>2 DEF EndRollout, Goto
  <2> QED  BY <1>2, <1>3, <1>4, <1>5, <2>1
<1>7. CASE OverlapOpen \/ CreateHistory
  BY <1>7 DEF OverlapOpen, CreateHistory, Enter
<1>8. CASE \/ \E w \in Workloads : GetWorkload(w) \/ SkipWorkload(w)
           \/ PatchWorkload \/ PatchFails \/ RolloutConverges \/ RolloutTimesOut
  <2>1. pc \in {"next", "patch", "status"} /\ pc' \in {"next", "patch", "status"}
    BY <1>8 DEF GetWorkload, SkipWorkload, IsNext, PatchWorkload, PatchFails,
       RolloutConverges, RolloutTimesOut, Goto
  <2> QED  BY <1>2, <1>3, <1>4, <1>5, <2>1
<1>9. CASE CheckHistory
  <2>1. pc = "check-history" /\ pc' = "history"
    BY <1>1, <1>9 DEF CheckHistory, Goto
  <2> QED  BY <1>2, <1>3, <1>4, <1>5, <2>1
<1>10. CASE OverlapExpired \/ HistoryFails \/ Terminate \/ Kill
  BY <1>1, <1>10 DEF OverlapExpired, HistoryFails, Terminate, Kill, Goto
<1>11. CASE LabelSecret
  <2>1. pc = "label" /\ pc' = "annotate"
    BY <1>11 DEF LabelSecret, AfterCall, Goto
  <2> QED  BY <1>2, <1>3, <1>4, <1>5, <2>1
<1>12. CASE AnnotateSecret
  BY <1>2, <1>3, <1>4, <1>5, <1>12
<1>13. CASE RecordReady
  BY <1>2, <1>3, <1>4, <1>5, <1>13
<1>14. CASE CallFails
  BY <1>2, <1>3, <1>4, <1>5, <1>14
<1> QED  BY <1>6, <1>7, <1>8, <1>9, <1>10, <1>11, <1>12, <1>13, <1>14
         DEF ScriptStep

\* A rotation that keeps the signer never rolls back, where no fault makes its
\* rollout fail.
LEMMA KeepsMoves ==
  ASSUME ReadinessUndisturbed, SecretInv, ReadinessInv, Keeps, ScriptStep
  PROVE  /\ pc \in ApplySteps /\ phase \in {"rotating", "commit"}
         /\ \/ pc' \in ApplySteps \ {"data"} /\ UNCHANGED phase /\ pc # "data"
            \/ pc' = "exited" /\ UNCHANGED phase
            \/ MovesOn("rotating", "ready", "commit")
<1> USE DEF ApplySteps, RollbackPhases
<1>1. Moves /\ StepFits /\ pc \in ApplySteps /\ ArmedFits
  BY ScriptMoves DEF SecretInv, Moves
<1>2. phase \in {"rotating", "commit"} /\ Rotates /\ KeepsSigner
  BY <1>1 DEF ReadinessInv, Keeping, Keeps, InPhase
<1>3. CASE Passes
  BY <1>1, <1>2, <1>3 DEF Passes
<1>4. CASE RollsBack
  <2>1. phase = "rotating" /\ phase' = "restore"
    BY <1>1, <1>2, <1>4 DEF RollsBack, Enter, ArmedFits
  <2>2. \A k \in {"api", "patch", "rollout", "term"} :
          <<k, "rotating">> \notin FaultPoints
    BY DEF ReadinessUndisturbed
  <2>3. pc = "next" => ~missed
    BY <1>1, <2>1 DEF ReadinessInv, Keeping, InPhase, RollingOut
  <2>4. CASE \/ CallFails \/ Terminate \/ Kill \/ OverlapExpired
             \/ HistoryFails \/ CheckHistory
    BY <1>1, <2>1, <2>2, <2>4
       DEF CallFails, Terminate, Kill, OverlapExpired, HistoryFails,
           CheckHistory, Fault, Goto, StepFits
  <2>5. CASE EndRollout
    <3>1. Goto("ready")
      BY <2>3, <2>5 DEF EndRollout
    <3> QED  BY <2>1, <3>1 DEF Goto
  <2>6. CASE AnnotateSecret \/ LabelSecret
    BY <2>1, <2>6 DEF AnnotateSecret, LabelSecret, AfterCall, Goto
  <2>7. CASE RecordReady
    <3>1. Enter("commit")
      BY <2>1, <2>7 DEF RecordReady, AfterCall, AfterRollout
    <3> QED  BY <2>1, <3>1 DEF Enter
  <2>8. CASE OverlapOpen \/ CreateHistory
    BY <1>1, <2>1, <2>8 DEF OverlapOpen, CreateHistory, StepFits
  <2> QED
    BY <2>1, <2>4, <2>5, <2>6, <2>7, <2>8
       DEF ScriptStep, GetWorkload, SkipWorkload, PatchWorkload,
           RolloutConverges, PatchFails, RolloutTimesOut, Goto
<1>5. CASE Stops \/ Initialized
  BY <1>1, <1>2, <1>5 DEF Stops, Initialized
<1>6. CASE Advances
  BY <1>1, <1>2, <1>6 DEF Advances, Enter, MovesOn
<1> QED  BY <1>1, <1>2, <1>3, <1>4, <1>5, <1>6 DEF Moves

\* What the script announces is true: where it calls a generation ready, and
\* where it goes on to commit one, every pod has it.
LEMMA ScriptTruth ==
  ASSUME RolloverUndisturbed, ReadinessUndisturbed, SecretTyped, SecretInv,
         RolloverInv, ReadinessInv, ScriptStep
  PROVE  (Credible \/ Settled => Synced)'
<1>1. /\ Minted /\ Decided /\ UNCHANGED <<bundle, trust, deployed, pods>>
      /\ Replaces' = Replaces /\ Rotates' = Rotates
  BY ScriptFrame
<1>2. Synced' = Synced
  BY <1>1, SyncedStays
<1>3. /\ pc \in ApplySteps /\ Admitted /\ StepFits /\ PhaseFits
  BY <1>1, ScriptMoves DEF SecretInv, Moves
<1>4. CASE ~Rotates
  <2>1. snap.shape = "absent" => deployed = {}
    BY <1>1 DEF SecretInv, Governed
  <2>2. snap.shape \in {"absent", "legacy"}
    <3>1. phase \in {"initial", "migrate"}
      BY <1>3, <1>4 DEF PhaseFits
    <3> QED  BY <1>3, <3>1 DEF PhaseFits
  <2>3. snap.shape = "legacy" => Synced
    BY <1>1 DEF ReadinessInv, Settled
  <2> QED  BY <1>2, <2>1, <2>2, <2>3 DEF Synced
<1>5. CASE Rotates
  <2>1. /\ Replaces \/ Keeps
        /\ snap.shape = "canonical" /\ snap' = snap
    BY <1>1, <1>3, <1>5 DEF Replaces, Keeps, Admitted, Decided
  <2>2. AnnotateSecret \/ RecordReady \/ UNCHANGED ann
    BY DEF ScriptStep, LabelSecret, GetWorkload, SkipWorkload, PatchWorkload,
       RolloutConverges, EndRollout, OverlapOpen, CheckHistory, CreateHistory,
       CallFails, PatchFails, RolloutTimesOut, OverlapExpired, HistoryFails,
       Terminate, Kill, secretVars
  <2>3. ASSUME Credible'
        PROVE  Synced
    <3>1. ann'.state = "unset" \/ (ann'.state = "stable" /\ ann'.ready)
      BY <2>3 DEF Credible, IsLegacy
    <3>2. CASE UNCHANGED ann
      BY <1>1, <2>3, <3>2, CredibleStays DEF ReadinessInv
    <3>3. CASE AnnotateSecret
      <4>1. phase = "commit"
        <5>1. phase # "migrate"
          BY <1>3, <1>5 DEF PhaseFits
        <5>2. phase \in Phases \ {"none", "snapshot"}
          BY <1>3 DEF StepFits, ApplyPhases
        <5>3. phase # "commit" => ann' = PendingAnnotations(phase)
          BY <3>3, <5>1 DEF AnnotateSecret
        <5> QED  BY <3>1, <5>2, <5>3
                 DEF PendingAnnotations, PhaseState, Phases, RollbackPhases
      <4> QED  BY <1>3, <4>1 DEF ReadinessInv, Settled, InPhase
    <3>4. CASE RecordReady
      <4>1. pc = "ready" /\ ann' = [ann EXCEPT !.ready = TRUE,
                                       !.readyToken = PhaseToken(phase)]
        BY <3>4 DEF RecordReady
      <4>2. ann'.state = ann.state
        BY <4>1 DEF SecretTyped, Annotations
      <4>3. CASE Replaces
        <5>1. phase \in {"overlap-old", "overlap-new", "retiring", "restore",
                         "rollback-new-dual", "rollback-old-dual"}
          BY <1>3, <1>5, <2>1, <4>1, <4>3 DEF StepFits, PhaseFits, ApplyPhases, Phases,
             RollbackPhases, Replaces
        <5>2. ~UnderWay
          BY <3>1, <4>2, <4>3 DEF ReadinessInv, Replacing
        <5>3. phase = "restore"
          BY <1>3, <4>1, <5>1, <5>2 DEF UnderWay, InPhase, Writing
        <5> QED  BY <4>1, <4>3, <5>3, LastRolledOut
      <4>4. CASE Keeps
        <5>1. phase = "rotating"
          BY <1>3, <4>1, <4>4, KeepsMoves DEF StepFits
        <5> QED  BY <4>1, <4>4, <5>1, LastRolledOut
      <4> QED  BY <2>1, <4>3, <4>4
    <3> QED  BY <2>2, <3>2, <3>3, <3>4
  <2>4. ASSUME Settled'
        PROVE  Synced
    <3>1. \/ InPhase({"commit"})'
          \/ /\ Replaces /\ InPhase({"retiring"})'
             /\ pc' \in {"check-history", "history"}
      BY <1>1, <2>1, <2>4 DEF Settled
    <3>2. CASE Replaces
      <4>1. Stays \/ Leaves \/ Reverts \/ Proceeds
        BY <3>2, RolloverMoves DEF RolloverInv
      <4>2. CASE Stays
        <5>1. CASE phase = "commit"
          BY <1>3, <5>1 DEF ReadinessInv, Settled, InPhase
        <5>2. CASE phase = "retiring" /\ pc' \in {"check-history", "history"}
          <6>1. pc \in {"ready", "check-history"}
            BY <1>3, <4>2, <5>2, StepsWithin DEF Stays
          <6>2. pc = "check-history" => Settled
            BY <1>3, <3>2, <5>2 DEF Settled, InPhase
          <6> QED  BY <3>2, <5>2, <6>1, <6>2, LastRolledOut DEF ReadinessInv
        <5> QED  BY <3>1, <4>2, <5>1, <5>2 DEF Stays, InPhase
      <4>3. CASE Proceeds
        <5>1. MovesOn("retiring", "history", "commit")
          BY <3>1, <4>3 DEF Proceeds, MovesOn, InPhase
        <5>2. Settled
          BY <1>3, <3>2, <5>1 DEF MovesOn, Settled, InPhase
        <5> QED  BY <5>2 DEF ReadinessInv
      <4>4. ~Leaves /\ ~Reverts
        BY <3>1 DEF Leaves, Reverts, InPhase, ApplySteps
      <4> QED  BY <4>1, <4>2, <4>3, <4>4
    <3>3. CASE Keeps
      <4>1. InPhase({"commit"})' /\ ~Replaces
        BY <3>1, <3>3 DEF Replaces, Keeps
      <4>2. CASE phase = "commit"
        BY <1>3, <4>2 DEF ReadinessInv, Settled, InPhase
      <4>3. CASE phase # "commit"
        <5>1. MovesOn("rotating", "ready", "commit")
          BY <3>3, <4>1, <4>3, KeepsMoves DEF InPhase
        <5> QED  BY <3>3, <5>1, LastRolledOut DEF MovesOn
      <4> QED  BY <4>2, <4>3
    <3> QED  BY <2>1, <3>2, <3>3
  <2> QED  BY <1>2, <2>3, <2>4
<1> QED  BY <1>4, <1>5

\* The phases that a rotation ends with start where nothing has their template.
LEMMA LastStarts ==
  ASSUME RolloverUndisturbed, ClusterTyped, SecretInv, RolloverInv, Replaces,
         ScriptStep, Proceeds, phase' \in {"retiring", "restore"}
  PROVE  pc' = "data" /\ ~Carried(PhaseTemplate(phase))'
<1>1. /\ pc' = "data" /\ pc \in {"ready", "gate"} /\ phase \in DualTrust
      /\ phase # phase' /\ phase' # "stable"
      /\ phase' \in Phases
  BY DEF Proceeds, MovesOn, DualTrust, Phases, RollbackPhases
<1>2. InPhase(DualTrust)
  BY <1>1 DEF InPhase, ApplySteps
<1>3. PICK p \in Phases : p = phase'
  BY <1>1
<1>4. ~Carried(PhaseTemplate(p))
  <2>1. \A w \in deployed : Has(w, PhaseTemplate(phase))
    BY <1>1, <1>2, RolledOut
  <2>2. PhaseTemplate(phase) # PhaseTemplate(p)
    BY <1>1, <1>3, TemplateTags
  <2> QED  BY <2>1, <2>2, OnlyTemplate
<1>5. ~PatchWorkload
  BY <1>1 DEF PatchWorkload
<1>6. Carried(PhaseTemplate(p))' <=> Carried(PhaseTemplate(p))
  BY <1>3, <1>5, ScriptFrame DEF Carried
<1>7. PhaseTemplate(phase') = PhaseTemplate(p)
  BY <1>3
<1>8. PhaseTemplate(phase)' = PhaseTemplate(p)'
  BY <1>3 DEF PhaseTemplate, PhaseToken, PhaseGen, PhaseBundle, PhaseTrust
<1> QED  BY <1>1, <1>4, <1>6, <1>8 DEF Carried

\* The metadata is pending from the annotation of one phase to that of the next.
LEMMA ScriptPending ==
  ASSUME RolloverUndisturbed, SecretTyped, SecretInv, RolloverInv, ReadinessInv,
         Replaces, ScriptStep
  PROVE  /\ UnderWay' => ann'.state \notin {"unset", "stable"}
         /\ InPhase({"restore"})' /\ RollingOut'
              => ann'.state # "unset" /\ (ann'.state = "stable" => ~ann'.ready)
<1>1. /\ pc \in ApplySteps /\ StepFits /\ PhaseFits
      /\ Stays \/ Leaves \/ Reverts \/ Proceeds
  BY RolloverMoves DEF RolloverInv, SecretInv
<1>2. /\ UnderWay => ann.state \notin {"unset", "stable"}
      /\ InPhase({"restore"}) /\ RollingOut
           => ann.state # "unset" /\ (ann.state = "stable" => ~ann.ready)
  BY DEF ReadinessInv, Replacing
<1>3. RecordReady => ann'.state = ann.state
  BY DEF RecordReady, SecretTyped, Annotations
<1>4. CASE Stays
  <2>1. /\ pc' \in ApplySteps \ {"data"} /\ UNCHANGED phase
        /\ \A P : InPhase(P)' = InPhase(P)
    BY <1>1, <1>4 DEF Stays, InPhase
  <2>2. /\ pc # "committed"
        /\ pc' \in Writing => pc \in Writing
        /\ pc \in Writing => \/ pc' \in Writing
                             \/ pc = "annotate" /\ (AnnotateSecret \/ CallFails)
        /\ RollingOut' => RollingOut \/ pc = "annotate"
        /\ CallFails => phase \in RollbackPhases /\ UNCHANGED ann
        /\ AnnotateSecret => pc = "annotate" /\ pc' \in {"next", "committed"}
        /\ RecordReady => pc = "ready" /\ pc' \in {"gate", "check-history"}
        /\ AnnotateSecret \/ RecordReady \/ UNCHANGED ann
    BY <1>1, <2>1, StepsWithin
  <2>3. CASE AnnotateSecret
    <3>1. pc' = IF phase \in {"commit", "migrate"} THEN "committed" ELSE "next"
      BY <2>1, <2>3 DEF AnnotateSecret, AfterCall, Goto
    <3>2. phase \notin {"commit", "migrate"} =>
            ann'.state = PhaseState(phase) /\ ann'.ready = FALSE
      BY <2>3 DEF AnnotateSecret, PendingAnnotations
    <3>3. PhaseState("restore") = "stable"
          /\ \A p : p \notin {"initial", "restore"} => PhaseState(p) = p
      BY DEF PhaseState
    <3>4. phase \in ApplyPhases
      BY <1>1 DEF StepFits
    <3> QED  BY <2>1, <3>1, <3>2, <3>3, <3>4
             DEF UnderWay, InPhase, Writing, ApplySteps, RollingOut
  <2>4. CASE ~AnnotateSecret
    <3>1. ann'.state = ann.state
      BY <1>3, <2>2, <2>4
    <3>2. UnderWay' => UnderWay
      <4>1. CallFails => phase # "rollback-new-dual"
        BY DEF CallFails, Fault, RolloverUndisturbed
      <4>2. InPhase({"overlap-old", "rollback-new-dual"}) /\ pc' \notin Writing
              => pc \notin Writing
        BY <2>2, <2>4, <4>1 DEF InPhase, RollbackPhases
      <4> QED  BY <2>1, <2>2, <4>2 DEF UnderWay
    <3>3. ASSUME InPhase({"restore"})', RollingOut'
          PROVE  ann'.state # "unset" /\ (ann'.state = "stable" => ~ann'.ready)
      <4>1. InPhase({"restore"})
        BY <2>1, <3>3
      <4>2. UNCHANGED ann
        BY <2>2, <2>4, <3>3 DEF RollingOut
      <4>3. pc = "annotate" => UnderWay
        BY <4>1 DEF UnderWay, Writing
      <4> QED  BY <1>2, <2>2, <3>3, <4>1, <4>2, <4>3
    <3> QED  BY <1>2, <3>1, <3>2, <3>3
  <2> QED  BY <2>3, <2>4
<1>5. CASE Leaves \/ Reverts
  BY <1>5 DEF Leaves, Reverts, UnderWay, InPhase, ApplySteps, Writing
<1>6. CASE Proceeds
  <2>1. /\ pc \in {"gate", "history", "ready"} /\ pc' \in Writing
        /\ phase \in {"overlap-old", "overlap-new", "retiring",
                      "rollback-new-dual", "rollback-old-dual"}
    BY <1>6 DEF Proceeds, MovesOn, Writing
  <2>2. UnderWay
    BY <1>1, <2>1 DEF UnderWay, InPhase, Writing
  <2>3. ann'.state = ann.state
    <3>1. ~AnnotateSecret
      BY <2>1 DEF AnnotateSecret
    <3> QED  BY <1>3, <3>1 DEF ScriptStep, LabelSecret, GetWorkload,
             SkipWorkload, PatchWorkload, RolloutConverges, EndRollout,
             OverlapOpen, CheckHistory, CreateHistory, CallFails, PatchFails,
             RolloutTimesOut, OverlapExpired, HistoryFails, Terminate, Kill,
             secretVars
  <2>4. ~RollingOut'
    BY <2>1 DEF RollingOut, Writing
  <2> QED  BY <1>2, <2>2, <2>3, <2>4
<1> QED  BY <1>1, <1>4, <1>5, <1>6

LEMMA ScriptReplacing ==
  ASSUME RolloverUndisturbed, ReadinessUndisturbed, SecretTyped, ClusterTyped,
         RolloutTyped, SecretInv, RolloverInv, ReadinessInv, ScriptStep
  PROVE  Replacing'
<1>1. /\ Replaces' = Replaces /\ UNCHANGED <<bundle, trust, deployed, pods>>
      /\ \A p \in Phases : PhaseTemplate(p)' = PhaseTemplate(p)
  BY ScriptFrame
<1> SUFFICES ASSUME Replaces
             PROVE  Replacing'
  BY <1>1 DEF Replacing
<1>2. /\ pc \in ApplySteps /\ StepFits
      /\ Stays \/ Leaves \/ Reverts \/ Proceeds
  BY RolloverMoves DEF RolloverInv, SecretInv
<1>3. ASSUME InPhase({"retiring", "restore"})'
      PROVE  /\ pc' = "data" => ~Carried(PhaseTemplate(phase))'
             /\ pc' # "data" => CopiedBy(PhaseTemplate(phase), bundle, trust)'
             /\ Rolling(PhaseTemplate(phase))'
  <2>1. Stays \/ Proceeds
    BY <1>2, <1>3 DEF Leaves, Reverts, InPhase, ApplySteps
  <2>2. CASE Stays
    <3>1. /\ pc' \in ApplySteps \ {"data"} /\ UNCHANGED phase
          /\ phase \in {"retiring", "restore"} /\ phase \in Phases
      BY <1>3, <2>2 DEF Stays, InPhase, Phases, RollbackPhases
    <3>2. PhaseTemplate(phase)' = PhaseTemplate(phase)
      BY <1>1, <3>1
    <3>3. PICK t : t = PhaseTemplate(phase)
      OBVIOUS
    <3>4. Rolling(t) /\ CopiedBy(t, bundle, trust)
      <4>1. /\ pc = "data" => ~Carried(t)
            /\ pc # "data" => CopiedBy(t, bundle, trust)
            /\ Rolling(t)
        BY <1>2, <3>1, <3>3 DEF ReadinessInv, Replacing, InPhase
      <4> QED  BY <4>1, NotCarried
    <3>5. CopiedBy(t, bundle, trust)'
      BY <1>1, <3>4 DEF CopiedBy
    <3>6. <<"get", phase>> \notin FaultPoints
      BY <3>1 DEF ReadinessUndisturbed
    <3>7. Rolling(t)'
      BY <1>2, <3>1, <3>3, <3>4, <3>6, RollingStep, MembersRun
         DEF Replaces
    <3> QED  BY <3>1, <3>2, <3>3, <3>5, <3>7
  <2>3. CASE Proceeds
    <3>1. phase' \in {"retiring", "restore"}
      BY <1>3 DEF InPhase
    <3>2. pc' = "data" /\ ~Carried(PhaseTemplate(phase))'
      BY <2>3, <3>1, LastStarts
    <3>3. Rolling(PhaseTemplate(phase))'
      BY <3>2 DEF Rolling, RollingOut
    <3> QED  BY <3>2, <3>3
  <2> QED  BY <2>1, <2>2, <2>3
<1> QED  BY <1>3, ScriptPending DEF Replacing

\* The only rollout of a rotation that keeps the signer leaves nobody out.
LEMMA KeepsRolling ==
  ASSUME ReadinessUndisturbed, SecretTyped, ClusterTyped, RolloutTyped,
         SecretInv, ReadinessInv, Keeps, ScriptStep, InPhase({"rotating"})'
  PROVE  /\ Rolling(Rotating)'
         /\ RollingOut' => ~missed' /\ ann'.state = "rotating"
<1>1. /\ pc' \in ApplySteps \ {"data"} /\ UNCHANGED phase
      /\ phase = "rotating" /\ pc \in ApplySteps
  BY KeepsMoves DEF InPhase, MovesOn, ApplySteps
<1>2. /\ Rolling(Rotating) /\ StepFits /\ InPhase({"rotating"})
      /\ RollingOut => ~missed /\ ann.state = "rotating"
  BY <1>1 DEF ReadinessInv, Keeping, SecretInv, InPhase
<1>3. \A k \in {"get", "patch", "rollout"} : <<k, phase>> \notin FaultPoints
  BY <1>1 DEF ReadinessUndisturbed
<1>4. Rolling(Rotating)'
  <2>1. PICK t : t = Rotating
    OBVIOUS
  <2>2. Rotating' = t
    BY <2>1, ScriptFrame DEF Rotating, Phases
  <2>3. t = PhaseTemplate(phase)
    BY <1>1, <2>1 DEF Rotating
  <2>4. Rolling(t)
    BY <1>2, <2>1
  <2>5. deployed \subseteq req.members
    BY MembersRun DEF Keeps
  <2>6. Rolling(t)'
    BY <1>1, <1>2, <1>3, <2>3, <2>4, <2>5, RollingStep
  <2> QED  BY <2>2, <2>6 DEF Rolling
<1>5. ASSUME RollingOut'
      PROVE  ~missed' /\ ann'.state = "rotating"
  <2>1. CASE RollingOut
    <3>1. ~missed'
      BY <1>2, <1>3, <2>1, MissesOnly
    <3>2. ann'.state = ann.state
      <4>1. ~AnnotateSecret
        BY <2>1 DEF AnnotateSecret, RollingOut
      <4>2. RecordReady => ann'.state = ann.state
        BY DEF RecordReady, SecretTyped, Annotations
      <4> QED  BY <1>1, <1>2, <4>1, <4>2, StepsWithin
    <3> QED  BY <1>2, <2>1, <3>1, <3>2
  <2>2. CASE ~RollingOut
    <3>1. missed' = FALSE
      BY <1>5, <2>2, RolloutStarts
    <3>2. AnnotateSecret
      BY <1>1, <1>2, <1>5, <2>2, StepsWithin
         DEF RollingOut, Writing, RollbackPhases
    <3>3. ann'.state = "rotating"
      BY <1>1, <3>2 DEF AnnotateSecret, PendingAnnotations, PhaseState
    <3> QED  BY <3>1, <3>3
  <2> QED  BY <2>1, <2>2
<1> QED  BY <1>4, <1>5

\* The template of a rotation that keeps the signer is written when its bytes
\* are.
LEMMA KeepsCarries ==
  ASSUME ReadinessUndisturbed, ClusterTyped, RolloutTyped, SecretInv,
         ReadinessInv, Keeps, ScriptStep, Carried(Rotating)'
  PROVE  Published(cand, {cand.ca})
<1>1. Carried(Rotating) => Published(cand, {cand.ca})
  BY DEF ReadinessInv, Keeping
<1>2. /\ UNCHANGED <<deployed, pods>>
      /\ Rotating' = Rotating
      /\ UNCHANGED template \/ PatchWorkload
  BY ScriptFrame DEF Rotating, Phases
<1>3. CASE UNCHANGED template
  <2>1. PICK t : t = Rotating
    OBVIOUS
  <2>2. Rotating' = t
    BY <1>2, <2>1
  <2>3. Carried(t)'
    BY <2>2 DEF Carried
  <2>4. Carried(t)
    BY <1>2, <1>3, <2>3 DEF Carried
  <2> QED  BY <1>1, <2>1, <2>4
<1>4. CASE PatchWorkload
  <2>1. pc = "patch" /\ phase \in {"rotating", "commit"} /\ StepFits
    BY <1>4, KeepsMoves DEF PatchWorkload, SecretInv
  <2>2. phase = "rotating"
    BY <2>1 DEF StepFits
  <2> QED  BY <2>1, <2>2 DEF SecretInv, Rewritten, ApplySteps, RollbackPhases,
           Published, PhaseBundle, PhaseTrust, WritesOld, DualTrust
<1> QED  BY <1>2, <1>3, <1>4

\* Metadata that names the candidate as stable is written after its rollout.
LEMMA KeepsStable ==
  ASSUME ReadinessUndisturbed, SecretTyped, SecretInv, ReadinessInv, Keeps,
         ScriptStep
  PROVE  /\ ann'.state # "unset"
         /\ ann'.state = "stable" /\ ann'.rev = cand.rev
              => Published(cand, {cand.ca}) /\ Synced
<1>1. /\ ann.state # "unset"
      /\ ann.state = "stable" /\ ann.rev = cand.rev
           => Published(cand, {cand.ca}) /\ Synced
  BY DEF ReadinessInv, Keeping
<1>2. pc \in ApplySteps /\ phase \in {"rotating", "commit"}
  BY KeepsMoves
<1>3. AnnotateSecret \/ RecordReady \/ UNCHANGED ann
  BY DEF ScriptStep, LabelSecret, GetWorkload, SkipWorkload, PatchWorkload,
     RolloutConverges, EndRollout, OverlapOpen, CheckHistory, CreateHistory,
     CallFails, PatchFails, RolloutTimesOut, OverlapExpired, HistoryFails,
     Terminate, Kill, secretVars
<1>4. CASE AnnotateSecret
  <2>1. CASE phase = "rotating"
    BY <1>4, <2>1 DEF AnnotateSecret, PendingAnnotations, PhaseState
  <2>2. CASE phase = "commit"
    <3>1. Synced
      BY <1>2, <2>2 DEF ReadinessInv, Settled, InPhase
    <3>2. Published(cand, {cand.ca})
      BY <1>4, <2>2
         DEF AnnotateSecret, SecretInv, Rewritten, ApplySteps, RollbackPhases
    <3>3. ann'.state = "stable"
      BY <1>4, <2>2 DEF AnnotateSecret, FinalAnnotations, StableAnnotations
    <3> QED  BY <3>1, <3>2, <3>3
  <2> QED  BY <1>2, <2>1, <2>2
<1>5. CASE RecordReady
  <2>1. ann'.state = ann.state /\ ann'.rev = ann.rev
    BY <1>5 DEF RecordReady, SecretTyped, Annotations
  <2> QED  BY <1>1, <2>1
<1> QED  BY <1>1, <1>3, <1>4, <1>5

LEMMA ScriptKeeping ==
  ASSUME ReadinessUndisturbed, SecretTyped, ClusterTyped, RolloutTyped,
         SecretInv, ReadinessInv, ScriptStep
  PROVE  Keeping'
<1>1. /\ Minted /\ Rotates' = Rotates /\ KeepsSigner' = KeepsSigner
      /\ UNCHANGED <<bundle, trust, deployed, pods, cand>>
      /\ Rotating' = Rotating
  BY ScriptFrame DEF Rotating, Phases, Decided
<1> SUFFICES ASSUME Keeps
             PROVE  Keeping'
  BY <1>1 DEF Keeping, Keeps
<1>2. InPhase({"rotating", "commit"})' \/ pc' \notin ApplySteps
  BY KeepsMoves DEF InPhase, MovesOn, ApplySteps
<1>3. /\ ann'.state # "unset"
      /\ (ann.state = "stable" /\ ann.rev = cand.rev)'
           => (Published(cand, {cand.ca}) /\ Synced)'
  BY <1>1, KeepsStable, SyncedStays DEF Published
<1>4. (Carried(Rotating) => Published(cand, {cand.ca}))'
  BY <1>1, KeepsCarries DEF Published
<1>5. CopiedBy(Rotating, cand, {cand.ca})'
  <2>1. CopiedBy(Rotating, cand, {cand.ca})
    BY DEF ReadinessInv, Keeping
  <2> QED  BY <1>1, <2>1 DEF CopiedBy
<1>6. (InPhase({"rotating"}) =>
         Rolling(Rotating) /\ (RollingOut => ~missed /\ ann.state = "rotating"))'
  BY KeepsRolling
<1> QED  BY <1>2, <1>3, <1>4, <1>5, <1>6 DEF Keeping

LEMMA ScriptReadiness ==
  ASSUME RolloverUndisturbed, ReadinessUndisturbed, PartsTyped, SecretInv,
         RolloverInv, ReadinessInv, ScriptStep
  PROVE  ReadinessInv'
<1>1. SnapshotRead'
  <2>1. Moves
    BY ScriptMoves DEF SecretInv
  <2>2. pc' # "mint"
    BY <2>1 DEF Moves, Passes, Stops, RollsBack, Initialized, Advances, Enter,
       ApplySteps
  <2> QED  BY <2>2 DEF SnapshotRead
<1> QED  BY <1>1, ScriptTruth, ScriptReplacing, ScriptKeeping
         DEF ReadinessInv, PartsTyped

\* A step that changes nothing changes nothing here.
LEMMA ReadinessStays ==
  ASSUME ReadinessInv, UNCHANGED vars
  PROVE  ReadinessInv'
<1>1. UNCHANGED <<bundle, trust, ann, deployed, template, pods, pc, phase, todo,
                  cur, missed, snap, cand, req>>
  BY DEF vars, secretVars, clusterVars, rolloutVars, stateVars, jobVars
<1>2. /\ Replaces' = Replaces /\ Keeps' = Keeps /\ Minted' = Minted
      /\ \A p \in Phases : PhaseTemplate(p)' = PhaseTemplate(p)
  BY <1>1, DecidedStays DEF Decided, Replaces, Keeps, Minted
<1>3. /\ \A P : InPhase(P)' = InPhase(P)
      /\ RollingOut' = RollingOut /\ UnderWay' = UnderWay
      /\ Settled' = Settled /\ SnapshotRead' = SnapshotRead
  BY <1>1, <1>2 DEF InPhase, RollingOut, UnderWay, Settled, SnapshotRead,
     IsLegacy, IsCanonical
<1>4. Credible' = Credible /\ Synced' = Synced
  BY <1>1, CredibleStays, SyncedStays
<1>5. Replacing'
  <2> SUFFICES ASSUME Replaces
               PROVE  Replacing'
    BY <1>2 DEF Replacing
  <2>1. ASSUME InPhase({"retiring", "restore"})
        PROVE  /\ (pc = "data" => ~Carried(PhaseTemplate(phase)))'
               /\ (pc # "data" => CopiedBy(PhaseTemplate(phase), bundle, trust))'
               /\ Rolling(PhaseTemplate(phase))'
    <3>1. phase \in Phases
      BY <2>1 DEF InPhase, Phases, RollbackPhases
    <3>2. PhaseTemplate(phase)' = PhaseTemplate(phase)
      BY <1>1, <1>2, <3>1
    <3> QED  BY <1>1, <1>3, <2>1, <3>2
             DEF ReadinessInv, Replacing, Carried, CopiedBy, Rolling, Has
  <2> QED  BY <1>1, <1>3, <2>1 DEF ReadinessInv, Replacing
<1>6. Keeping'
  <2>1. Rotating' = Rotating
    BY <1>2 DEF Rotating, Phases
  <2>2. /\ Rolling(Rotating)' <=> Rolling(Rotating)
        /\ Carried(Rotating)' <=> Carried(Rotating)
        /\ CopiedBy(Rotating, cand, {cand.ca})'
             <=> CopiedBy(Rotating, cand, {cand.ca})
        /\ Published(cand, {cand.ca})' <=> Published(cand, {cand.ca})
    BY <1>1, <1>3, <2>1
       DEF Carried, CopiedBy, Rolling, Has, Published
  <2> QED  BY <1>1, <1>2, <1>3, <1>4, <2>2 DEF ReadinessInv, Keeping
<1> QED  BY <1>3, <1>4, <1>5, <1>6 DEF ReadinessInv

LEMMA ReadinessNext ==
  ASSUME RolloverUndisturbed, ReadinessUndisturbed, PartsTyped, Known,
         SecretInv, RolloverInv, ReadinessInv, [Next]_vars
  PROVE  ReadinessInv'
BY ScriptReadiness, WriteReadiness, JobReadiness, MintReadiness,
   CourseReadiness, PodsReadiness, ReadinessStays
   DEF Next, HookStep, FaultStep, ScriptStep, PartsTyped, PodStep, RolloverInv

\* Metadata that a run between hooks would trust is true of every pod that is
\* live (snapshot.sh accepts it, and mint.sh finds the digests that it names):
\* write_bundle announces a generation as not ready, and only a rollout that
\* missed nobody takes that back, in the rotation and in the rollback, as long
\* as the faults spare the steps named in the premises.
THEOREM AnnouncementsTrue ==
  ASSUME NoMisread, RolloverUndisturbed, ReadinessUndisturbed
  PROVE  Spec => []ReadinessIsTrue
<1>1. Init => PartsTyped /\ Known /\ SecretInv /\ RolloverInv /\ ReadinessInv
  BY InitTyped, TypedParts, KnownInit, SecretInit, RolloverInit, ReadinessInit
     DEF PartsTyped
<1>2. PartsTyped /\ [Next]_vars => PartsTyped'
  BY PartsTypedNext
<1>3. PartsTyped /\ Known /\ [Next]_vars => Known'
  BY KnownNext
<1>4. PartsTyped /\ SecretInv /\ [Next]_vars => SecretInv'
  BY SecretNext
<1>5. PartsTyped /\ Known /\ SecretInv /\ RolloverInv /\ [Next]_vars
        => RolloverInv'
  BY RolloverNext
<1>6. PartsTyped /\ Known /\ SecretInv /\ RolloverInv /\ ReadinessInv
        /\ [Next]_vars => ReadinessInv'
  BY ReadinessNext
<1>7. ReadinessInv => ReadinessIsTrue
  BY DEF ReadinessInv, ReadinessIsTrue, Credible, Synced, Trusted,
     SnapshotAccepts, IsCanonical
<1> QED  BY <1>1, <1>2, <1>3, <1>4, <1>5, <1>6, <1>7, PTL DEF Spec

(***************************************************************************)
(* Identity first.                                                         *)
(***************************************************************************)
\* The rollout of a rotation that keeps the signer asks for every workload, and
\* its rollback, once begun, reaches every workload.
OrderUndisturbed ==
    FaultPoints \cap
      (({"get"} \X {"rotating", "restore"})
       \cup ({"patch", "rollout", "kill"} \X {"restore"})) = {}

\* rollout_generation does not turn to another workload before Identity.
IdentityAhead ==
    req.reason = "profile" /\ pc \in {"patch", "status"} /\ cur # Identity
      => Identity \notin todo

Restoring == PhaseTemplate("restore")

\* Outside of its rollback, whatever names the candidate has copied it.
Loading ==
    /\ InPhase({"rotating"}) => Rolling(Rotating) /\ IdentityAhead
    /\ InPhase({"restore"}) => Rolling(Restoring) /\ (RollingOut => ~missed)
    /\ ~InPhase({"restore"}) =>
         /\ Carried(Rotating) => Published(cand, {cand.ca})
         /\ CopiedBy(Rotating, cand, {cand.ca})

LoadsInv == Elsewhere /\ (Keeps => Loading)

\* A rotation that keeps the signer has one rollout, and one to take it back.
LEMMA KeepsPhases ==
  ASSUME SecretInv, Keeps, pc \in ApplySteps
  PROVE  /\ phase \in {"rotating", "commit", "restore"}
         /\ pc = "data" => phase # "commit"
<1>1. /\ StepFits /\ PhaseFits /\ Admitted
      /\ snap.shape = "canonical" /\ Rotates /\ KeepsSigner
  BY DEF SecretInv, Keeps, Admitted
<1>2. phase \in ApplyPhases
  BY <1>1 DEF StepFits
<1>3. phase \notin {"initial", "migrate"}
  BY <1>1 DEF PhaseFits
<1>4. phase \notin {"overlap-old", "overlap-new", "retiring",
                    "rollback-new-dual", "rollback-old-dual"}
  BY <1>1 DEF PhaseFits
<1> QED  BY <1>1, <1>2, <1>3, <1>4
         DEF ApplyPhases, Phases, RollbackPhases, StepFits

LEMMA LoadsInit == Init => LoadsInv
<1> SUFFICES ASSUME Init
             PROVE  LoadsInv
  OBVIOUS
<1>1. ~Keeps
  BY DEF Init, Keeps, Minted, ApplySteps
<1>2. Elsewhere
  <2>1. CASE EmptyCluster
    BY <2>1 DEF EmptyCluster, Elsewhere
  <2>2. ASSUME NEW b, NEW a, RunningCluster(b, a)
        PROVE  Elsewhere
    BY <2>2 DEF RunningCluster, Elsewhere
  <2> QED  BY <2>1, <2>2 DEF Init
<1> QED  BY <1>1, <1>2 DEF LoadsInv

LEMMA LoadsStays ==
  ASSUME LoadsInv, UNCHANGED vars
  PROVE  LoadsInv'
<1>1. UNCHANGED <<bundle, trust, deployed, template, pods, pc, phase, todo, cur,
                  missed, snap, cand, req>>
  BY DEF vars, secretVars, clusterVars, rolloutVars, stateVars, jobVars
<1>2. /\ Keeps' = Keeps /\ Rotating' = Rotating /\ Restoring' = Restoring
      /\ \A P : InPhase(P)' = InPhase(P)
  BY <1>1, DecidedStays
     DEF Decided, Keeps, Minted, Rotating, Restoring, Phases, RollbackPhases, InPhase
<1>3. Elsewhere'
  BY <1>1 DEF LoadsInv, Elsewhere
<1>4. Loading => Loading'
  <2>1. /\ Rolling(Rotating)' <=> Rolling(Rotating)
        /\ Rolling(Restoring)' <=> Rolling(Restoring)
        /\ Carried(Rotating)' <=> Carried(Rotating)
        /\ CopiedBy(Rotating, cand, {cand.ca})'
             <=> CopiedBy(Rotating, cand, {cand.ca})
        /\ Published(cand, {cand.ca})' <=> Published(cand, {cand.ca})
        /\ IdentityAhead' <=> IdentityAhead
        /\ RollingOut' = RollingOut
    BY <1>1, <1>2 DEF Carried, CopiedBy, Rolling, Has, Published, IdentityAhead,
       RollingOut
  <2> QED  BY <1>1, <1>2, <2>1 DEF Loading
<1> QED  BY <1>2, <1>3, <1>4 DEF LoadsInv

LEMMA LoadsPods ==
  ASSUME ClusterTyped, LoadsInv, PodStep
  PROVE  LoadsInv'
<1>1. UNCHANGED <<bundle, trust, deployed, template, pc, phase, todo, cur,
                  missed, snap, cand, req>>
  BY DEF PodStep, Controller, StartPod, StopPod, ReplacePod, secretVars,
     rolloutVars, stateVars, jobVars
<1>2. /\ Keeps' = Keeps /\ Rotating' = Rotating /\ Restoring' = Restoring
      /\ \A P : InPhase(P)' = InPhase(P)
  BY <1>1, DecidedStays
     DEF Decided, Keeps, Minted, Rotating, Restoring, Phases, RollbackPhases, InPhase
<1>3. Elsewhere
  BY DEF LoadsInv
<1>4. Elsewhere'
  BY <1>1, <1>3, CopiedPods DEF Elsewhere
<1>5. Loading => Loading'
  <2> SUFFICES ASSUME Loading
               PROVE  Loading'
    OBVIOUS
  <2>1. PICK t, u : t = Rotating /\ u = Restoring
    OBVIOUS
  <2>2. Rotating' = t /\ Restoring' = u
    BY <1>2, <2>1
  <2>3. /\ IdentityAhead' = IdentityAhead /\ RollingOut' = RollingOut
        /\ Published(cand, {cand.ca})' = Published(cand, {cand.ca})
    BY <1>1 DEF IdentityAhead, RollingOut, Published
  <2>4. Rolling(t) => Rolling(t)'
    BY <1>1, <1>3, <2>3, PodsCarry DEF Rolling, Has
  <2>5. Rolling(u) => Rolling(u)'
    BY <1>1, <1>3, <2>3, PodsCarry DEF Rolling, Has
  <2>6. Carried(t)' => Carried(t)
    BY <1>1, <1>3, PodsCarry DEF Carried
  <2>7. CopiedBy(t, cand, {cand.ca}) /\ (Carried(t) => Published(cand, {cand.ca}))
          => CopiedBy(t, cand, {cand.ca})'
    <3> SUFFICES ASSUME CopiedBy(t, cand, {cand.ca}),
                        Carried(t) => Published(cand, {cand.ca})
                 PROVE  CopiedBy(t, cand, {cand.ca})'
      OBVIOUS
    <3>1. \A w \in deployed : \A q \in pods'[w] :
            q.template = t => q.bundle = cand /\ q.trust = {cand.ca}
      BY <1>3, PodsCarry
    <3> QED  BY <1>1, <3>1 DEF CopiedBy
  <2>8. /\ Rolling(Rotating) => Rolling(Rotating)'
        /\ Rolling(Restoring) => Rolling(Restoring)'
        /\ Carried(Rotating)' => Carried(Rotating)
        /\ CopiedBy(Rotating, cand, {cand.ca})
             /\ (Carried(Rotating) => Published(cand, {cand.ca}))
             => CopiedBy(Rotating, cand, {cand.ca})'
    BY <2>1, <2>2, <2>4, <2>5, <2>6, <2>7 DEF Rolling, Carried, CopiedBy
  <2> QED  BY <1>1, <1>2, <2>3, <2>8 DEF Loading
<1> QED  BY <1>2, <1>4, <1>5 DEF LoadsInv

LEMMA LoadsWrite ==
  ASSUME SecretInv, LoadsInv, WriteData
  PROVE  LoadsInv'
<1>1. /\ pc = "data" /\ pc' = "label" /\ UNCHANGED phase
      /\ bundle' = PhaseBundle(phase) /\ trust' = PhaseTrust(phase)
      /\ UNCHANGED <<deployed, template, pods, snap, cand, req>>
  BY DEF WriteData, AfterCall, Goto, clusterVars, stateVars, jobVars
<1>2. /\ Rotates' = Rotates /\ KeepsSigner' = KeepsSigner /\ Rotating' = Rotating
  BY <1>1, DecidedStays DEF Decided, Rotating, Phases
<1>3. /\ Minted /\ Minted' /\ Keeps' = Keeps
      /\ \A P : InPhase(P)' = InPhase(P)
      /\ StepFits /\ PhaseFits
  BY <1>1, <1>2 DEF Minted, Keeps, InPhase, ApplySteps, SecretInv
<1>4. Elsewhere'
  BY <1>1 DEF LoadsInv, Elsewhere
<1>5. ASSUME Keeps
      PROVE  Loading'
  <2>1. Loading
    BY <1>5 DEF LoadsInv
  <2>2. phase \in {"rotating", "restore"}
    <3>1. pc \in ApplySteps
      BY <1>1 DEF ApplySteps
    <3> QED  BY <1>1, <1>5, <3>1, KeepsPhases
  <2>3. \A t : Rolling(t)'
    BY <1>1 DEF Rolling, RollingOut
  <2>4. IdentityAhead' /\ ~RollingOut'
    BY <1>1 DEF IdentityAhead, RollingOut
  <2>5. phase = "rotating" => Published(cand, {cand.ca})'
    BY <1>1 DEF PhaseBundle, PhaseTrust, WritesOld, DualTrust, Published
  <2>6. phase = "rotating" => CopiedBy(Rotating, cand, {cand.ca})'
    BY <1>1, <1>2, <2>1 DEF Loading, InPhase, CopiedBy
  <2> QED  BY <1>1, <1>3, <2>2, <2>3, <2>4, <2>5, <2>6
           DEF Loading, InPhase, ApplySteps
<1> QED  BY <1>3, <1>4, <1>5 DEF LoadsInv

LEMMA LoadsJob ==
  ASSUME LoadsInv,
         \/ \E r \in Requests : Upgrade(r)
         \/ Snapshot \/ SnapshotGetFails \/ SnapshotRefuses
         \/ \E age \in Ages : MintRefuses(age)
         \/ LosePod \/ GiveUp \/ HelmApplies
  PROVE  LoadsInv'
<1>1. pc' \in {"idle", "snapshot", "mint"}
  BY DEF Upgrade, Snapshot, SnapshotGetFails, SnapshotRefuses, MintRefuses,
     LosePod, GiveUp, HelmApplies, JobFails, Goto
<1>2. ~Keeps'
  BY <1>1 DEF Keeps, Minted, ApplySteps
<1>3. Elsewhere'
  <2>1. CASE HelmApplies
    BY <2>1 DEF HelmApplies, LoadsInv, Elsewhere
  <2>2. CASE ~HelmApplies
    <3>1. UNCHANGED <<deployed, pods>>
      BY <2>2 DEF Upgrade, Snapshot, SnapshotGetFails, SnapshotRefuses,
         MintRefuses, LosePod, GiveUp, clusterVars
    <3> QED  BY <3>1 DEF LoadsInv, Elsewhere
  <2> QED  BY <2>1, <2>2
<1> QED  BY <1>2, <1>3 DEF LoadsInv

\* No template names what mint.sh has just made.
LEMMA LoadsMint ==
  ASSUME PartsTyped, Known, LoadsInv, NEW age \in Ages, Mint(age)
  PROVE  LoadsInv'
<1>1. /\ pc = "mint" /\ pc' = "start" /\ MintAdmits(age)
      /\ UNCHANGED <<bundle, trust, deployed, template, pods, snap, req>>
      /\ Rotates' = Rotates /\ KeepsSigner' = KeepsSigner
      /\ \A P : ~InPhase(P)'
  BY DEF Mint, Goto, secretVars, clusterVars, jobVars, Rotates, KeepsSigner,
     InPhase, ApplySteps
<1>2. Elsewhere'
  BY <1>1 DEF LoadsInv, Elsewhere
<1>3. ASSUME Rotates
      PROVE  ~Carried(Rotating)'
  <2>1. cand'.rev = serial + 1
    BY <1>1, <1>3, MintsNew DEF Mint, MintKeeps, Rotates
  <2>2. serial \in Nat
    BY DEF PartsTyped, BoundsTyped
  <2>3. Rotating'.rev = serial + 1
    BY <2>1 DEF Rotating, PhaseTemplate, PhaseBundle, WritesOld
  <2>4. ASSUME NEW t, KnownTemplate(t), t = Rotating'
        PROVE  FALSE
    BY <2>2, <2>3, <2>4 DEF KnownTemplate
  <2>5. deployed \subseteq Workloads
    BY DEF PartsTyped, ClusterTyped
  <2> QED  BY <1>1, <2>4, <2>5 DEF Known, KnownCluster, Carried
<1>4. Keeps' => Loading'
  <2> SUFFICES ASSUME Rotates
               PROVE  Loading'
    BY <1>1 DEF Keeps
  <2>1. CopiedBy(Rotating, cand, {cand.ca})'
    BY <1>3 DEF Carried, CopiedBy
  <2> QED  BY <1>1, <1>3, <2>1 DEF Loading
<1> QED  BY <1>2, <1>4 DEF LoadsInv

LEMMA LoadsCourse ==
  ASSUME SecretInv, LoadsInv, ApplyStart \/ Committed \/ RestartContainer
  PROVE  LoadsInv'
<1> USE DEF ApplySteps
<1>1. /\ UNCHANGED <<bundle, trust, deployed, template, pods, snap, cand, req>>
      /\ Minted /\ Minted' /\ Admitted
  BY DEF ApplyStart, Committed, RestartContainer, Enter, Goto, Minted,
     secretVars, clusterVars, stateVars, jobVars, SecretInv
<1>2. /\ Keeps' = Keeps /\ Rotating' = Rotating
  BY <1>1, DecidedStays DEF Decided, Keeps, Rotating, Phases
<1>3. Elsewhere'
  BY <1>1 DEF LoadsInv, Elsewhere
<1>4. ASSUME Keeps
      PROVE  Loading'
  <2>1. ~InPhase({"restore"})
    BY <1>1, <1>4 DEF ApplyStart, Committed, RestartContainer, InPhase,
       SecretInv, StepFits
  <2>2. pc' \in {"start", "done"} \/ (pc' = "data" /\ phase' = "rotating")
    <3>1. CASE ApplyStart
      <4>1. req.op = "rotate" /\ KeepsSigner /\ snap.shape = "canonical"
        BY <1>1, <1>4 DEF Keeps, Admitted, Rotates
      <4>2. Enter("rotating")
        BY <3>1, <4>1 DEF ApplyStart
      <4> QED  BY <4>2 DEF Enter
    <3>2. CASE Committed \/ RestartContainer
      BY <3>2 DEF Committed, RestartContainer
    <3> QED  BY <3>1, <3>2
  <2>3. /\ \A t : Rolling(t)'
        /\ IdentityAhead' /\ ~InPhase({"restore"})'
    BY <2>2 DEF Rolling, RollingOut, IdentityAhead, InPhase
  <2>4. /\ Carried(Rotating) => Published(cand, {cand.ca})
        /\ CopiedBy(Rotating, cand, {cand.ca})
    BY <1>4, <2>1 DEF LoadsInv, Loading
  <2>5. /\ Published(cand, {cand.ca})' = Published(cand, {cand.ca})
        /\ Carried(Rotating)' => Carried(Rotating)
        /\ CopiedBy(Rotating, cand, {cand.ca})'
    BY <1>1, <1>2, <2>4 DEF Published, Carried, CopiedBy
  <2> QED  BY <2>3, <2>4, <2>5 DEF Loading
<1> QED  BY <1>2, <1>3, <1>4 DEF LoadsInv

\* Where the script of such a rotation goes.
LEMMA KeepsTurns ==
  ASSUME OrderUndisturbed, SecretInv, LoadsInv, Keeps, ScriptStep
  PROVE  /\ pc \in ApplySteps
         /\ \/ /\ pc' \in ApplySteps \ {"data"} /\ UNCHANGED phase
               /\ pc = "data" => phase = "restore"
            \/ /\ pc' = "exited" /\ UNCHANGED phase
               /\ phase = "restore" => pc = "ready"
            \/ MovesOn("rotating", "ready", "commit")
            \/ phase = "rotating" /\ pc' = "data" /\ phase' = "restore"
<1> USE DEF ApplySteps, RollbackPhases
<1>1. /\ Moves /\ StepFits /\ pc \in ApplySteps /\ ArmedFits
      /\ phase \in {"rotating", "commit", "restore"}
      /\ Rotates /\ KeepsSigner
  BY ScriptMoves, KeepsPhases DEF SecretInv, Moves, Keeps
<1>2. CASE Passes
  BY <1>1, <1>2 DEF Passes
<1>3. CASE RollsBack
  BY <1>1, <1>3 DEF RollsBack, Enter, ArmedFits
<1>4. CASE Stops
  <2>1. CASE phase = "restore"
    <3>1. ~Kill
      BY <2>1 DEF Kill, Fault, OrderUndisturbed
    <3>2. pc = "next" => ~missed
      BY <1>1, <2>1 DEF LoadsInv, Loading, InPhase, RollingOut
    <3>3. pc' = "exited" /\ pc \notin {"gate", "check-history", "history"}
      BY <1>1, <1>4, <2>1 DEF Stops, StepFits
    <3>4. CASE EndRollout
      <4>1. Goto("ready")
        BY <3>2, <3>4 DEF EndRollout
      <4> QED  BY <3>3, <4>1 DEF Goto
    <3>5. CASE CallFails
      <4>1. AfterCall /\ pc \in {"data", "label", "annotate", "ready"}
        BY <2>1, <3>5 DEF CallFails
      <4>2. pc # "ready" => Goto("label") \/ Goto("annotate") \/ Goto("next")
        BY <2>1, <4>1 DEF AfterCall
      <4>3. pc = "ready"
        BY <3>3, <4>1, <4>2 DEF Goto
      <4> QED  BY <1>4, <2>1, <4>3 DEF Stops
    <3>6. CASE LabelSecret \/ AnnotateSecret
      BY <3>3, <3>6 DEF LabelSecret, AnnotateSecret, AfterCall, Goto
    <3> QED
      BY <1>4, <2>1, <3>1, <3>3, <3>4, <3>5, <3>6
         DEF ScriptStep, GetWorkload, SkipWorkload, IsNext, PatchWorkload,
             RolloutConverges, PatchFails, RolloutTimesOut, RecordReady,
             OverlapOpen, CheckHistory, CreateHistory, OverlapExpired,
             HistoryFails, Terminate, Goto, Stops
  <2> QED  BY <1>1, <1>4, <2>1 DEF Stops
<1>5. CASE Initialized \/ Advances
  BY <1>1, <1>5 DEF Initialized, Advances, Enter, MovesOn
<1> QED  BY <1>1, <1>2, <1>3, <1>4, <1>5 DEF Moves

\* Who turns to a workload, and who goes on with the one at hand.
LEMMA TurnsTo ==
  ASSUME ScriptStep, pc' \in {"patch", "status"}
  PROVE  \/ \E w \in Workloads : GetWorkload(w)
         \/ pc = "patch" /\ UNCHANGED <<todo, cur>>
<1>1. ~Die
  BY DEF Die, Enter, Goto
<1>2. ~AfterCall
  BY DEF AfterCall, AfterRollout, Enter, Goto
<1>3. ~AfterRollout
  BY DEF AfterRollout, Enter, Goto
<1> QED  BY <1>1, <1>2, <1>3
         DEF ScriptStep, LabelSecret, AnnotateSecret, SkipWorkload, IsNext,
             PatchWorkload, RolloutConverges, EndRollout, RecordReady,
             OverlapOpen, CheckHistory, CreateHistory, CallFails, PatchFails,
             RolloutTimesOut, OverlapExpired, HistoryFails, Terminate, Kill,
             Goto, Enter, rolloutVars

\* The rollout of such a rotation, and the rollout that takes it back.
LEMMA LoadsRolling ==
  ASSUME OrderUndisturbed, ClusterTyped, RolloutTyped, SecretInv, LoadsInv,
         Keeps, ScriptStep
  PROVE  /\ InPhase({"rotating"})' => Rolling(Rotating)' /\ IdentityAhead'
         /\ InPhase({"restore"})'
              => Rolling(Restoring)' /\ (RollingOut' => ~missed')
<1>1. /\ pc \in ApplySteps /\ StepFits /\ Loading
      /\ deployed \subseteq req.members /\ UNCHANGED req
  BY KeepsTurns, MembersRun, ScriptFrame
     DEF SecretInv, LoadsInv, Keeps, Decided
<1>2. PICK t, u : t = Rotating /\ u = Restoring
  OBVIOUS
<1>3. Rotating' = t /\ Restoring' = u
  BY <1>2, ScriptFrame DEF Rotating, Restoring, Phases, RollbackPhases
<1>4. ASSUME InPhase({"rotating"})'
      PROVE  Rolling(t)' /\ IdentityAhead'
  <2>1. /\ phase = "rotating" /\ UNCHANGED phase /\ pc # "data"
        /\ pc' \in ApplySteps \ {"data"}
    BY <1>4, KeepsTurns DEF InPhase, MovesOn, ApplySteps
  <2>2. Rolling(t) /\ IdentityAhead /\ t = PhaseTemplate(phase)
    BY <1>1, <1>2, <2>1 DEF Loading, InPhase, Rotating
  <2>3. <<"get", phase>> \notin FaultPoints
    BY <2>1 DEF OrderUndisturbed
  <2>4. Rolling(t)'
    BY <1>1, <2>1, <2>2, <2>3, RollingStep
  <2>5. ASSUME NEW w \in Workloads, GetWorkload(w)
        PROVE  IdentityAhead'
    BY <2>5 DEF GetWorkload, IsNext, IdentityAhead, jobVars
  <2>6. pc = "patch" /\ UNCHANGED <<todo, cur>> => IdentityAhead'
    BY <1>1, <2>2 DEF IdentityAhead
  <2>7. pc' \notin {"patch", "status"} => IdentityAhead'
    BY DEF IdentityAhead
  <2> QED  BY <2>4, <2>5, <2>6, <2>7, TurnsTo
<1>5. ASSUME InPhase({"restore"})'
      PROVE  Rolling(u)' /\ (RollingOut' => ~missed')
  <2>1. \/ /\ phase = "restore" /\ UNCHANGED phase
           /\ pc' \in ApplySteps \ {"data"}
        \/ pc' = "data"
    BY <1>5, KeepsTurns DEF InPhase, MovesOn, ApplySteps
  <2>2. CASE pc' = "data"
    BY <2>2 DEF Rolling, RollingOut
  <2>3. CASE /\ phase = "restore" /\ UNCHANGED phase
             /\ pc' \in ApplySteps \ {"data"}
    <3>1. /\ Rolling(u) /\ u = PhaseTemplate(phase)
          /\ RollingOut => ~missed
      BY <1>1, <1>2, <2>3 DEF Loading, InPhase, Restoring
    <3>2. \A k \in {"get", "patch", "rollout"} : <<k, phase>> \notin FaultPoints
      BY <2>3 DEF OrderUndisturbed
    <3>3. Rolling(u)'
      BY <1>1, <2>3, <3>1, <3>2, RollingStep
    <3>4. RollingOut' => ~missed'
      BY <3>1, <3>2, MissesOnly, RolloutStarts
    <3> QED  BY <3>3, <3>4
  <2> QED  BY <2>1, <2>2, <2>3
<1> QED  BY <1>2, <1>3, <1>4, <1>5 DEF Rolling

\* What names the candidate outside of the rollback is written when its bytes
\* are, and the rollback takes all of it back.
LEMMA LoadsCarried ==
  ASSUME OrderUndisturbed, ClusterTyped, RolloutTyped, SecretInv, LoadsInv,
         Keeps, ScriptStep, ~InPhase({"restore"})'
  PROVE  /\ Carried(Rotating)' => Published(cand, {cand.ca})
         /\ CopiedBy(Rotating, cand, {cand.ca})'
<1>1. /\ pc \in ApplySteps /\ StepFits /\ Loading /\ Admitted /\ Rotates
      /\ Rewritten
      /\ UNCHANGED <<deployed, pods, cand>> /\ Rotating' = Rotating
      /\ UNCHANGED template \/ PatchWorkload
  BY KeepsTurns, ScriptFrame
     DEF SecretInv, LoadsInv, Keeps, Decided, Rotating, Phases
<1>2. PICK t : t = Rotating
  OBVIOUS
<1>3. Rotating' = t
  BY <1>1, <1>2
<1>4. CASE phase # "restore"
  <2>1. /\ Carried(t) => Published(cand, {cand.ca})
        /\ CopiedBy(t, cand, {cand.ca})
    BY <1>1, <1>2, <1>4 DEF Loading, InPhase
  <2>2. CopiedBy(t, cand, {cand.ca})'
    BY <1>1, <2>1 DEF CopiedBy
  <2>3. CASE UNCHANGED template
    <3>1. Carried(t)' => Carried(t)
      BY <1>1, <2>3 DEF Carried
    <3> QED  BY <1>2, <1>3, <2>1, <2>2, <3>1 DEF Carried, CopiedBy
  <2>4. CASE PatchWorkload
    <3>1. pc = "patch" /\ phase = "rotating"
      BY <1>1, <1>4, <2>4, KeepsPhases DEF PatchWorkload, StepFits
    <3>2. Published(cand, {cand.ca})
      BY <1>1, <3>1
         DEF Rewritten, ApplySteps, RollbackPhases, Published, PhaseBundle,
             PhaseTrust, WritesOld, DualTrust
    <3> QED  BY <1>2, <1>3, <2>2, <3>2 DEF CopiedBy
  <2> QED  BY <1>1, <2>3, <2>4
<1>5. CASE phase = "restore"
  <2>1. pc = "ready"
    BY <1>5, KeepsTurns DEF InPhase, MovesOn, ApplySteps
  <2>2. \A w \in deployed : Has(w, Restoring)
    BY <1>1, <1>5, <2>1 DEF Loading, InPhase, Rolling, RollingOut
  <2>3. Restoring # Rotating
    <3>1. snap.ann.gen # req.gen
      BY <1>1 DEF Admitted
    <3>2. Rotating.token.gen = req.gen /\ Restoring.token.gen = snap.ann.gen
      BY DEF Rotating, Restoring, PhaseTemplate, PhaseToken, PhaseGen, WritesOld
    <3> QED  BY <3>1, <3>2
  <2>4. ~Carried(t)
    BY <1>2, <2>2, <2>3, OnlyTemplate
  <2>5. UNCHANGED template
    BY <1>1, <2>1 DEF PatchWorkload
  <2>6. ~Carried(t)'
    BY <1>1, <2>4, <2>5 DEF Carried
  <2> QED  BY <1>2, <1>3, <2>6 DEF Carried, CopiedBy
<1> QED  BY <1>4, <1>5

LEMMA LoadsScript ==
  ASSUME OrderUndisturbed, ClusterTyped, RolloutTyped, SecretInv, LoadsInv,
         ScriptStep
  PROVE  LoadsInv'
<1>1. /\ UNCHANGED <<bundle, trust, deployed, pods, cand>> /\ Keeps' = Keeps
  BY ScriptFrame DEF Decided, Keeps
<1>2. Elsewhere'
  BY <1>1 DEF LoadsInv, Elsewhere
<1>3. Keeps => Loading'
  BY <1>1, LoadsRolling, LoadsCarried DEF Loading, Published
<1> QED  BY <1>1, <1>2, <1>3 DEF LoadsInv

LEMMA LoadsNext ==
  ASSUME OrderUndisturbed, PartsTyped, Known, SecretInv, LoadsInv, [Next]_vars
  PROVE  LoadsInv'
BY LoadsScript, LoadsWrite, LoadsJob, LoadsMint, LoadsCourse, LoadsPods,
   LoadsStays
   DEF Next, HookStep, FaultStep, ScriptStep, PartsTyped, PodStep

\* A profile correction whose rollout has met no failure patches a workload
\* other than Identity only when every Identity pod serves the corrected CA
\* (rollout_generation of apply.sh takes Identity out of its list and rolls it
\* first), as long as the faults spare the steps named in the premise.
THEOREM IdentityFirst ==
  ASSUME NoMisread, OrderUndisturbed
  PROVE  Spec => IdentityLoadsFirst
<1>1. Init => PartsTyped /\ Known /\ SecretInv /\ LoadsInv
  BY InitTyped, TypedParts, KnownInit, SecretInit, LoadsInit DEF PartsTyped
<1>2. PartsTyped /\ [Next]_vars => PartsTyped'
  BY PartsTypedNext
<1>3. PartsTyped /\ Known /\ [Next]_vars => Known'
  BY KnownNext
<1>4. PartsTyped /\ SecretInv /\ [Next]_vars => SecretInv'
  BY SecretNext
<1>5. PartsTyped /\ Known /\ SecretInv /\ LoadsInv /\ [Next]_vars => LoadsInv'
  BY LoadsNext
<1>6. SecretInv /\ LoadsInv /\ [Next]_vars
        => [(req.reason = "profile" /\ phase = "rotating" /\ ~missed
               /\ template' # template /\ cur # Identity)
              => \A p \in pods[Identity] : p.bundle = cand]_vars
  <2> SUFFICES ASSUME SecretInv, LoadsInv, Next, req.reason = "profile",
                      phase = "rotating", ~missed, template' # template,
                      cur # Identity, NEW p \in pods[Identity]
               PROVE  p.bundle = cand
    BY DEF vars, clusterVars
  <2>1. pc = "patch"
    BY DEF Next, HookStep, FaultStep, Upgrade, Snapshot, SnapshotRefuses, Mint,
       MintRefuses, ApplyStart, WriteData, LabelSecret, AnnotateSecret,
       GetWorkload, SkipWorkload, PatchWorkload, RolloutConverges, EndRollout,
       RecordReady, OverlapOpen, CheckHistory, CreateHistory, Committed,
       RestartContainer, GiveUp, HelmApplies, SnapshotGetFails, CallFails,
       PatchFails, RolloutTimesOut, OverlapExpired, HistoryFails, Terminate,
       Kill, LosePod, Controller, StartPod, StopPod, ReplacePod, clusterVars
  <2>2. pc \in ApplySteps
    BY <2>1 DEF ApplySteps
  <2>3. Keeps
    BY <2>2 DEF SecretInv, PhaseFits, Keeps, Minted
  <2>4. Rolling(Rotating) /\ IdentityAhead /\ CopiedBy(Rotating, cand, {cand.ca})
    BY <2>2, <2>3 DEF LoadsInv, Loading, InPhase
  <2>5. Identity \notin todo
    BY <2>1, <2>4 DEF IdentityAhead
  <2>6. Identity \in deployed
    BY BundleAssumption DEF LoadsInv, Elsewhere
  <2>7. Has(Identity, Rotating)
    BY <2>1, <2>4, <2>5, <2>6 DEF Rolling, RollingOut
  <2> QED  BY <2>4, <2>6, <2>7 DEF Has, CopiedBy
<1> QED  BY <1>1, <1>2, <1>3, <1>4, <1>5, <1>6, PTL
         DEF Spec, IdentityLoadsFirst
================================================================================

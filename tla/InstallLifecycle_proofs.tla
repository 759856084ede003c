------------------------ MODULE InstallLifecycle_proofs ------------------------
(***************************************************************************)
(* Proofs about the install of an accepted tree, for any services, startup *)
(* dependencies, projections and edits, and any number of faults and       *)
(* revisions:                                                              *)
(*   TypeCorrect        pods, gates and Jobs keep their shapes;            *)
(*   StartsInOrder      an application starts after its dependencies were  *)
(*                      ready;                                             *)
(*   OutagesStay        no liveness probe restarts a healthy container;    *)
(*   InstalledReady     what helm calls installed serves.                  *)
(***************************************************************************)
EXTENDS InstallLifecycle, TLAPS

(***************************************************************************)
(* The repository.                                                         *)
(***************************************************************************)
\* What the edits of a repository leave as it is, and what its last green CI
\* run says about it; only such a repository is ever installed.
RepoInv ==
    /\ contract \in Document /\ HelmIds(contract) = Inventory
    /\ templates \in Projection /\ templates.runtime \subseteq RuntimeEdges
    /\ accepted \in BOOLEAN /\ edits \in 0..MaxEdits
    /\ accepted => ReadinessCheck(contract, mirror, templates)
    /\ helm # "none" => accepted

\* Helm's inventory is in the contract.
LEMMA ServiceFound ==
  ASSUME NEW c \in Document, HelmIds(c) = Inventory, NEW a \in Inventory
  PROVE  Service(c, a) \in c.services /\ Service(c, a).id = a
<1>1. PICK s \in c.services : s.id = a
  BY DEF HelmIds
<1> QED  BY <1>1 DEF Service

LEMMA ReplaceKeeps ==
  ASSUME NEW c \in Document, HelmIds(c) = Inventory,
         NEW old \in c.services, NEW new \in ServiceEntry,
         new.id = old.id, new.helm = old.helm
  PROVE  /\ Replace(c, old, new) \in Document
         /\ HelmIds(Replace(c, old, new)) = Inventory
<1>1. Replace(c, old, new).services = (c.services \ {old}) \cup {new}
  BY DEF Replace, Document
<1>2. Replace(c, old, new) \in Document
  BY DEF Replace, Document
<1>3. HelmIds(Replace(c, old, new)) = HelmIds(c)
  BY <1>1 DEF HelmIds
<1> QED  BY <1>2, <1>3

LEMMA ContractEdited ==
  ASSUME NEW c \in Document, HelmIds(c) = Inventory, NEW d \in ContractEdits(c)
  PROVE  d \in Document /\ HelmIds(d) = Inventory
<1> USE DocumentsAssumption DEF ServiceEntry
<1>1. CASE d = [c EXCEPT !.schemaVersion = 2]
  BY <1>1 DEF Document, HelmIds
<1>2. ASSUME NEW s \in c.services, NEW n \in EntryEdits(s), d = Replace(c, s, n)
      PROVE  d \in Document /\ HelmIds(d) = Inventory
  <2>1. s \in ServiceEntry
    BY DEF Document
  <2>2. n \in ServiceEntry /\ n.id = s.id /\ n.helm = s.helm
    BY <2>1 DEF EntryEdits
  <2> QED  BY <1>2, <2>2, ReplaceKeeps
<1>3. ASSUME NEW s \in c.services,
             d = [c EXCEPT !.services =
                    @ \cup {[s EXCEPT !.live = OtherEndpoint]}]
      PROVE  d \in Document /\ HelmIds(d) = Inventory
  <2>1. /\ s \in ServiceEntry
        /\ d.services = c.services \cup {[s EXCEPT !.live = OtherEndpoint]}
    BY <1>3 DEF Document
  <2>2. d \in Document
    BY <1>3, <2>1 DEF Document
  <2>3. HelmIds(d) = HelmIds(c)
    BY <2>1 DEF HelmIds
  <2> QED  BY <2>2, <2>3
<1>4. ASSUME NEW e \in NewEdges,
             d = Replace(c, Service(c, e[1]), Awaiting(Service(c, e[1]), e[2]))
      PROVE  d \in Document /\ HelmIds(d) = Inventory
  <2>1. e[1] \in Inventory /\ e[2] \in STRING
    BY DEF Inventory
  <2>2. Service(c, e[1]) \in c.services
    BY <2>1, ServiceFound
  <2>3. ASSUME NEW s \in ServiceEntry
        PROVE  /\ Awaiting(s, e[2]) \in ServiceEntry
               /\ Awaiting(s, e[2]).id = s.id /\ Awaiting(s, e[2]).helm = s.helm
    <3>1. [service |-> e[2], helm |-> TRUE] \in [service : STRING, helm : BOOLEAN]
      BY <2>1
    <3>2. PICK x : x = s.after \cup {[service |-> e[2], helm |-> TRUE]}
      OBVIOUS
    <3>3. x \in SUBSET [service : STRING, helm : BOOLEAN]
      BY <3>1, <3>2
    <3>4. Awaiting(s, e[2]) = [s EXCEPT !.after = x]
      BY <3>2 DEF Awaiting
    <3> QED  BY <3>3, <3>4
  <2>4. Service(c, e[1]) \in ServiceEntry
    BY <2>2 DEF Document
  <2> QED  BY <1>4, <2>2, <2>3, <2>4, ReplaceKeeps
<1>5. \/ d = [c EXCEPT !.schemaVersion = 2]
      \/ \E s \in c.services : \E n \in EntryEdits(s) : d = Replace(c, s, n)
      \/ \E s \in c.services : d = [c EXCEPT !.services =
                                     @ \cup {[s EXCEPT !.live = OtherEndpoint]}]
      \/ \E e \in NewEdges :
           d = Replace(c, Service(c, e[1]), Awaiting(Service(c, e[1]), e[2]))
  <2>1. ASSUME NEW C, d \in UNION {{Replace(c, s, n) : n \in EntryEdits(s)} : s \in C}
        PROVE  \E s \in C : \E n \in EntryEdits(s) : d = Replace(c, s, n)
    BY <2>1, Zenon
  <2>2. Open(c) \subseteq c.services
    BY DEF Open
  <2>3. \/ d \in {[c EXCEPT !.schemaVersion = 2]}
        \/ d \in UNION {{Replace(c, s, n) : n \in EntryEdits(s)} : s \in Open(c)}
        \/ d \in {[c EXCEPT !.services = @ \cup {[s EXCEPT !.live = OtherEndpoint]}] :
                    s \in Open(c)}
        \/ d \in {Replace(c, Service(c, e[1]), Awaiting(Service(c, e[1]), e[2])) :
                    e \in NewEdges}
    BY Zenon DEF ContractEdits
  <2> QED  BY <2>1, <2>2, <2>3
<1> QED  BY <1>1, <1>2, <1>3, <1>4, <1>5

LEMMA TemplatesEdited ==
  ASSUME NEW t \in Projection, t.runtime \subseteq RuntimeEdges,
         NEW u \in TemplateEdits(t)
  PROVE  u \in Projection /\ u.runtime \subseteq RuntimeEdges
<1> USE DEF Projection
<1>1. ASSUME NEW a \in Editable, u \in ProbeEdits(t, a)
      PROVE  u \in Projection /\ u.runtime \subseteq RuntimeEdges
  <2>1. /\ a \in Applications /\ a \in Inventory
        /\ t.live[a] \in Endpoint /\ t.ready[a] \in Endpoint
        /\ OtherEndpoint \in Endpoint
    BY DocumentsAssumption DEF Inventory
  <2>2. {"schema"} \in SUBSET {"schema", "fixture"}
    OBVIOUS
  <2>3. CASE \/ u = [t EXCEPT !.live[a] = t.ready[a]]
             \/ u = [t EXCEPT !.ready[a] = OtherEndpoint]
    BY <2>1, <2>3
  <2>4. CASE \/ u = [t EXCEPT !.endpoint[a] = OtherEndpoint]
             \/ u = [t EXCEPT !.endpoint[a] = t.live[a]]
    BY <2>1, <2>4
  <2>5. CASE u = [t EXCEPT !.ready[a] = OtherEndpoint,
                           !.endpoint[a] = OtherEndpoint]
    BY <2>1, <2>5
  <2>6. CASE u = [t EXCEPT !.checksums[a] = {"schema"}]
    BY <2>1, <2>2, <2>6
  <2>7. CASE u = [t EXCEPT !.ports[a] = {}]
    BY <2>1, <2>7
  <2>8. \/ u = [t EXCEPT !.live[a] = t.ready[a]]
        \/ u = [t EXCEPT !.ready[a] = OtherEndpoint]
        \/ u = [t EXCEPT !.endpoint[a] = OtherEndpoint]
        \/ u = [t EXCEPT !.endpoint[a] = t.live[a]]
        \/ u = [t EXCEPT !.ready[a] = OtherEndpoint,
                         !.endpoint[a] = OtherEndpoint]
        \/ u = [t EXCEPT !.checksums[a] = {"schema"}]
        \/ u = [t EXCEPT !.ports[a] = {}]
    BY <1>1, Zenon DEF ProbeEdits
  <2> QED  BY <2>3, <2>4, <2>5, <2>6, <2>7, <2>8
<1>2. ASSUME NEW a \in Applications, u \in GateEdits(t, a)
      PROVE  u \in Projection /\ u.runtime \subseteq RuntimeEdges
  <2>1. PICK d \in t.graph[a] : u = [t EXCEPT !.graph[a] = @ \ {d}]
    BY <1>2 DEF GateEdits
  <2> QED  BY <2>1
<1>3. CASE u \in EdgeEdits(t)
  <2>1. CASE \E e \in NewEdges : u = [t EXCEPT !.graph[e[1]] = @ \cup {e[2]}]
    <3>1. PICK e \in NewEdges : u = [t EXCEPT !.graph[e[1]] = @ \cup {e[2]}]
      BY <2>1
    <3>2. e[1] \in Applications /\ e[2] \in Inventory
      BY DocumentsAssumption
    <3> QED  BY <3>1, <3>2
  <2>2. CASE \E e \in t.runtime : u = [t EXCEPT !.runtime = @ \ {e}]
    BY <2>2
  <2>3. CASE \E e \in t.callers : u = [t EXCEPT !.callers = @ \ {e}]
    BY <2>3
  <2> QED  BY <1>3, <2>1, <2>2, <2>3 DEF EdgeEdits
<1>4. CASE u \in SwitchEdits(t)
  <2>1. CASE u = [t EXCEPT !.gate.attempts = 1] \/ u = [t EXCEPT !.gate.timeout = 30]
    BY <2>1
  <2>2. CASE u = [t EXCEPT !.notReady = {}]
    <3>1. {} \in SUBSET Inventory
      OBVIOUS
    <3> QED  BY <2>2, <3>1
  <2>3. CASE u = [t EXCEPT !.simulator = TRUE]
    BY <2>3, Zenon
  <2>4. CASE u = [t EXCEPT !.immutable = FALSE]
    BY <2>4, Zenon
  <2>5. CASE u = [t EXCEPT !.verbatim = FALSE]
    BY <2>5, Zenon
  <2> QED  BY <1>4, <2>1, <2>2, <2>3, <2>4, <2>5 DEF SwitchEdits
<1>5. \/ \E a \in Editable : u \in ProbeEdits(t, a)
      \/ \E a \in Applications : u \in GateEdits(t, a)
      \/ u \in EdgeEdits(t)
      \/ u \in SwitchEdits(t)
  <2>1. ASSUME NEW A, NEW B, NEW C, NEW D, u \in A \cup B \cup C \cup D
        PROVE  u \in A \/ u \in B \/ u \in C \/ u \in D
    BY <2>1
  <2>2. ASSUME NEW S, u \in UNION {ProbeEdits(t, a) : a \in S}
        PROVE  \E a \in S : u \in ProbeEdits(t, a)
    BY <2>2, Zenon
  <2>3. ASSUME NEW S, u \in UNION {GateEdits(t, a) : a \in S}
        PROVE  \E a \in S : u \in GateEdits(t, a)
    BY <2>3, Zenon
  <2> QED  BY <2>1, <2>2, <2>3 DEF TemplateEdits
<1> QED  BY <1>1, <1>2, <1>3, <1>4, <1>5

LEMMA RepoInitial == Init => RepoInv
<1> SUFFICES ASSUME Init
             PROVE  RepoInv
  OBVIOUS
<1>1. /\ contract = Contract0 /\ templates = Templates0 /\ accepted = FALSE
      /\ edits = 0 /\ helm = "none"
  BY DEF Init, RepoInit
<1>2. edits \in 0..MaxEdits
  BY <1>1, EditBound
<1> QED  BY <1>1, <1>2, DocumentsAssumption DEF RepoInv

LEMMA RepoKept ==
  ASSUME RepoInv, Next
  PROVE  RepoInv'
<1>1. CASE RepoStep
  <2>1. helm = "none" /\ helm' = "none"
    BY <1>1 DEF RepoStep, cluster
  <2>2. /\ contract \in Document /\ HelmIds(contract) = Inventory
        /\ templates \in Projection /\ templates.runtime \subseteq RuntimeEdges
        /\ edits \in 0..MaxEdits
    BY DEF RepoInv
  <2>3. Edited => edits' \in 0..MaxEdits /\ accepted' = FALSE
    BY <2>2, EditBound DEF Edited
  <2>4. CASE EditContract
    <3>1. PICK c \in ContractEdits(contract) : contract' = c
      BY <2>4 DEF EditContract
    <3>2. c \in Document /\ HelmIds(c) = Inventory
      BY <2>2, ContractEdited
    <3>3. Edited /\ UNCHANGED templates
      BY <2>4 DEF EditContract
    <3> QED  BY <2>1, <2>2, <2>3, <3>1, <3>2, <3>3 DEF RepoInv
  <2>5. CASE EditTemplates
    <3>1. PICK t \in TemplateEdits(templates) : templates' = t
      BY <2>5 DEF EditTemplates
    <3>2. t \in Projection /\ t.runtime \subseteq RuntimeEdges
      BY <2>2, TemplatesEdited
    <3>3. Edited /\ UNCHANGED contract
      BY <2>5 DEF EditTemplates
    <3> QED  BY <2>1, <2>2, <2>3, <3>1, <3>2, <3>3 DEF RepoInv
  <2>6. CASE Ci
    <3>1. /\ ReadinessCheck(contract, mirror, templates)
          /\ UNCHANGED <<contract, mirror, templates, edits>>
          /\ accepted' = TRUE
      BY <2>6 DEF Ci
    <3> QED  BY <2>1, <2>2, <3>1 DEF RepoInv
  <2> QED  BY <1>1, <2>4, <2>5, <2>6 DEF RepoStep, RepoNext
<1>2. CASE ~RepoStep
  <2>1. UNCHANGED repo /\ (helm' # "none" => accepted)
    <3>1. ASSUME NEW s \in Inventory, PodStep(s) \/ Crashes(s) \/ Replaced(s)
          PROVE  UNCHANGED repo /\ UNCHANGED helm
      BY <3>1 DEF PodStep, Starts, Probes, GateOpens, Enrolls, Crashes, Replaced
    <3>2. ASSUME NEW a \in Applications,
                 GatePasses(a) \/ GateExpires(a) \/ LivenessFails(a) \/ Hangs(a)
          PROVE  UNCHANGED repo /\ UNCHANGED helm
      BY <3>2 DEF GatePasses, GateExpires, LivenessFails, Hangs
    <3>3. CASE JobNext \/ JobFindsNoVault
      <4>1. \A at : JobStep(at) => UNCHANGED repo /\ UNCHANGED helm
        BY DEF JobStep
      <4> QED  BY <3>3, <4>1 DEF JobNext, JobFindsVault, JobFindsNoVault,
               JobEnables, JobWrites, JobReads, RepoInv
    <3>4. CASE Install \/ Upgrade \/ HelmNext
      BY <3>4 DEF RepoInv, Install, Upgrade, HelmNext, HelmSeesReady,
         HelmSeesHook, HelmFails
    <3> QED  BY <1>2, <3>1, <3>2, <3>3, <3>4 DEF Next, RepoInv
  <2>2. UNCHANGED <<contract, mirror, templates, accepted, edits>>
    BY <2>1 DEF repo
  <2> QED  BY <2>1, <2>2 DEF RepoInv
<1> QED  BY <1>1, <1>2

(***************************************************************************)
(* Pods, gates and Jobs.                                                   *)
(***************************************************************************)
\* Before the install there is no pod, and a gate waits only in a pod that
\* has not started.
PodShapes ==
    /\ helm \in {"none", "waiting", "hooks", "installed", "failed"}
    /\ pod \in [Inventory -> {"absent", "gate", "starting", "running", "hung"}]
    /\ gate = [s \in Inventory |-> gate[s]]
    /\ met = [s \in Inventory |-> met[s]]
    /\ ready \subseteq Inventory /\ enrolled \subseteq Enrolling
    /\ \A s \in Inventory : pod[s] # "gate" => gate[s] = {}
    /\ helm = "none" => \A s \in Inventory : pod[s] = "absent"

\* A Job has attempts left until it has failed; which Job helm waits for.
JobShapes ==
    /\ store \subseteq {"transit", "secret", "key", "agent"}
    /\ job \in [kind : {"none", Bootstrap, Seed},
                at : {"wait", "enable", "write", "read", "done", "failed"},
                failures : 0..BackoffLimit]
    /\ job.at # "failed" => job.failures < BackoffLimit
    /\ faults \in 0..MaxFaults /\ calm \in BOOLEAN
    /\ helm = "waiting" => job.kind = Bootstrap
    /\ helm = "hooks" => job.kind = Seed
    /\ helm \in {"none", "installed"} => job.at = "done"

LEMMA Steps ==
  ASSUME Next
  PROVE  \/ RepoStep
         \/ \E s \in Inventory : Starts(s) \/ Probes(s) \/ Crashes(s) \/ Replaced(s)
         \/ \E a \in Applications :
              \/ GateOpens(a) \/ Enrolls(a) \/ GatePasses(a) \/ GateExpires(a)
              \/ LivenessFails(a) \/ Hangs(a)
         \/ JobFindsVault \/ JobFindsNoVault \/ JobEnables \/ JobWrites \/ JobReads
         \/ Install \/ Upgrade \/ HelmSeesReady \/ HelmSeesHook \/ HelmFails
BY DEF Next, PodStep, JobNext, HelmNext

\* A step of a Job leaves the repository, helm and the pods alone.
LEMMA JobsApart ==
  ASSUME JobFindsVault \/ JobFindsNoVault \/ JobEnables \/ JobWrites \/ JobReads
  PROVE  /\ UNCHANGED <<contract, mirror, templates, accepted, edits>>
         /\ UNCHANGED <<helm, revision, pod, gate, met, ready, enrolled>>
         /\ job.at \in {"wait", "enable", "write", "read"}
<1>1. \A at : JobStep(at) => /\ UNCHANGED <<repo, helm, revision, podVars>>
                              /\ job.at = at
  BY DEF JobStep
<1>2. UNCHANGED <<repo, helm, revision, podVars>>
  BY <1>1 DEF JobFindsVault, JobFindsNoVault, JobEnables, JobWrites, JobReads
<1>3. job.at \in {"wait", "enable", "write", "read"}
  BY <1>1 DEF JobFindsVault, JobFindsNoVault, JobEnables, JobWrites, JobReads
<1> QED  BY <1>2, <1>3 DEF repo, podVars

\* A step of helm after the install leaves them alone too.
LEMMA HelmApart ==
  ASSUME Upgrade \/ HelmSeesReady \/ HelmSeesHook \/ HelmFails
  PROVE  /\ UNCHANGED <<contract, mirror, templates, accepted, edits>>
         /\ UNCHANGED <<pod, gate, met, ready, enrolled, store, faults>>
         /\ helm # "none" /\ helm' # "none"
BY DEF Upgrade, HelmSeesReady, HelmSeesHook, HelmFails, repo, podVars

LEMMA FreshPod ==
  ASSUME NEW s \in Inventory
  PROVE  /\ Fresh(s) \in {"gate", "starting"}
         /\ Fresh(s) # "gate" => FreshGate(s) = {}
         /\ Fresh(s) = "gate" => s \in Applications /\ FreshGate(s) = Targets(s)
BY DEF Fresh, FreshGate

LEMMA PodShapesKept ==
  ASSUME PodShapes, Next
  PROVE  PodShapes'
<1> USE DEF PodShapes
<1>1. CASE RepoStep
  BY <1>1 DEF RepoStep, cluster, podVars
<1>2. ASSUME NEW s \in Inventory,
             Starts(s) \/ Crashes(s)
      PROVE  PodShapes'
  BY <1>2 DEF Starts, Crashes
<1>3. ASSUME NEW s \in Inventory, Probes(s)
      PROVE  PodShapes'
  <2>1. /\ UNCHANGED <<helm, pod, gate, met, enrolled>>
        /\ ready' \subseteq ready \cup {s}
    BY <1>3 DEF Probes
  <2> QED  BY <2>1
<1>4. ASSUME NEW s \in Inventory, Replaced(s)
      PROVE  PodShapes'
  <2>1. /\ pod' = [pod EXCEPT ![s] = Fresh(s)]
        /\ gate' = [gate EXCEPT ![s] = FreshGate(s)]
        /\ met' = [met EXCEPT ![s] = {}]
        /\ ready' = ready \ {s}
        /\ UNCHANGED <<helm, enrolled>> /\ pod[s] = "running"
    BY <1>4 DEF Replaced
  <2> QED  BY <2>1, FreshPod
<1>5. ASSUME NEW a \in Applications, a \in Inventory,
             GateOpens(a) \/ LivenessFails(a) \/ Hangs(a)
      PROVE  PodShapes'
  BY <1>5 DEF GateOpens, LivenessFails, Hangs
<1>6. ASSUME NEW a \in Applications, a \in Inventory, Enrolls(a)
      PROVE  PodShapes'
  BY <1>6 DEF Enrolls
<1>7. ASSUME NEW a \in Applications, a \in Inventory, GatePasses(a)
      PROVE  PodShapes'
  <2>1. /\ pod[a] = "gate"
        /\ \E X : gate' = [gate EXCEPT ![a] = X]
        /\ \E X : met' = [met EXCEPT ![a] = X]
        /\ UNCHANGED <<helm, pod, ready, enrolled>>
    BY <1>7 DEF GatePasses
  <2> QED  BY <2>1
<1>8. ASSUME NEW a \in Applications, a \in Inventory, GateExpires(a)
      PROVE  PodShapes'
  <2>1. /\ pod[a] = "gate"
        /\ gate' = [gate EXCEPT ![a] = Targets(a)]
        /\ UNCHANGED <<helm, met, pod, ready, enrolled>>
    BY <1>8 DEF GateExpires
  <2> QED  BY <2>1
<1>9. CASE JobFindsVault \/ JobFindsNoVault \/ JobEnables \/ JobWrites \/ JobReads
  BY <1>9, JobsApart
<1>10. CASE Install
  <2>1. /\ pod' = [s \in Inventory |-> Fresh(s)]
        /\ gate' = [s \in Inventory |-> FreshGate(s)]
        /\ UNCHANGED <<met, ready, enrolled>> /\ helm' = "waiting"
    BY <1>10 DEF Install
  <2> QED  BY <2>1, FreshPod
<1>11. CASE Upgrade \/ HelmSeesReady \/ HelmSeesHook \/ HelmFails
  <2>1. helm' \in {"waiting", "hooks", "installed", "failed"}
    BY <1>11 DEF Upgrade, HelmSeesReady, HelmSeesHook, HelmFails
  <2> QED  BY <1>11, <2>1, HelmApart
<1>12. Applications \subseteq Inventory
  BY DEF Inventory
<1> QED  BY <1>1, <1>2, <1>3, <1>4, <1>5, <1>6, <1>7, <1>8, <1>9, <1>10, <1>11,
            <1>12, Steps

LEMMA JobShapesKept ==
  ASSUME JobShapes, Next
  PROVE  JobShapes'
<1> USE LifecycleBounds DEF JobShapes
<1>a. ASSUME Fault
      PROVE  faults' \in 0..MaxFaults /\ calm' = FALSE
  BY <1>a DEF Fault
<1>b. ASSUME AttemptFails, job.at # "failed"
      PROVE  /\ job' \in [kind : {"none", Bootstrap, Seed},
                          at : {"wait", "enable", "write", "read", "done", "failed"},
                          failures : 0..BackoffLimit]
             /\ job'.at # "failed" => job'.failures < BackoffLimit
             /\ job'.kind = job.kind
  <2>1. job.failures + 1 \in 0..BackoffLimit
    BY <1>b
  <2>2. PICK f, x : /\ f = job.failures + 1
                    /\ x = IF f >= BackoffLimit THEN "failed" ELSE "wait"
                    /\ job' = [job EXCEPT !.failures = f, !.at = x]
    BY <1>b DEF AttemptFails
  <2>3. x \in {"wait", "failed"} /\ (x # "failed" => f < BackoffLimit)
    BY <2>1, <2>2
  <2> QED  BY <2>1, <2>2, <2>3
<1>c. ASSUME NEW at \in {"enable", "write", "read", "done"}, JobGoes(at),
             job.at # "failed"
      PROVE  /\ job' \in [kind : {"none", Bootstrap, Seed},
                          at : {"wait", "enable", "write", "read", "done", "failed"},
                          failures : 0..BackoffLimit]
             /\ job'.failures < BackoffLimit
             /\ job'.kind = job.kind
  BY <1>c DEF JobGoes
<1>d. Mount \in {"transit", "secret"} /\ Written \in {"key", "agent"}
  BY DEF Mount, Written
<1>1. CASE RepoStep
  BY <1>1 DEF RepoStep, cluster
<1>2. ASSUME NEW s \in Inventory, Starts(s) \/ Probes(s)
      PROVE  JobShapes'
  BY <1>2 DEF Starts, Probes
<1>3. ASSUME NEW s \in Inventory, Crashes(s) \/ Replaced(s)
      PROVE  JobShapes'
  <2>1. Fault /\ store' = Forgets(s) /\ UNCHANGED <<helm, job>>
    BY <1>3 DEF Crashes, Replaced
  <2> QED  BY <2>1, <1>a DEF Forgets, DevVault
<1>4. ASSUME NEW a \in Applications,
             \/ GateOpens(a) \/ Enrolls(a) \/ GatePasses(a) \/ GateExpires(a)
             \/ LivenessFails(a)
      PROVE  JobShapes'
  BY <1>4 DEF GateOpens, Enrolls, GatePasses, GateExpires, LivenessFails
<1>5. ASSUME NEW a \in Applications, Hangs(a)
      PROVE  JobShapes'
  BY <1>5, <1>a DEF Hangs
<1>6. CASE JobFindsVault \/ JobFindsNoVault \/ JobEnables \/ JobWrites \/ JobReads
  <2>1. helm' = helm /\ helm \notin {"none", "installed"} /\ job.at # "failed"
    BY <1>6, JobsApart
  <2>2. /\ \/ AttemptFails
           \/ \E at \in {"enable", "write", "read", "done"} : JobGoes(at)
        /\ Fault \/ UNCHANGED <<calm, faults>>
        /\ store' \in {store, store \cup {Mount}, store \cup {Written}}
    BY <1>6 DEF JobFindsVault, JobFindsNoVault, JobEnables, JobWrites, JobReads
  <2> QED  BY <2>1, <2>2, <1>a, <1>b, <1>c, <1>d
<1>7. CASE Install \/ Upgrade
  <2>1. calm' \in BOOLEAN
    BY <1>7, Zenon DEF Install, Upgrade
  <2>2. /\ helm' = "waiting" /\ job' = NewJob(Bootstrap)
        /\ UNCHANGED <<store, faults>>
    BY <1>7 DEF Install, Upgrade
  <2>3. 0 \in 0..BackoffLimit /\ 0 < BackoffLimit
    OBVIOUS
  <2> QED  BY <2>1, <2>2, <2>3 DEF NewJob
<1>8. CASE HelmSeesReady
  BY <1>8 DEF HelmSeesReady, NewJob
<1>9. CASE HelmSeesHook \/ HelmFails
  BY <1>9 DEF HelmSeesHook, HelmFails
<1> QED  BY <1>1, <1>2, <1>3, <1>4, <1>5, <1>6, <1>7, <1>8, <1>9, Steps

(***************************************************************************)
(* What an accepted tree says of the pods of its release.                  *)
(***************************************************************************)
LEMMA Governed ==
  ASSUME RepoInv, accepted, NEW a \in Applications
  PROVE  ProbesMatch(contract, templates, a)
         /\ GateMatches(contract, templates, a, "bundled")
<1>1. VerifyCase(contract, templates, "bundled")
  BY DocumentsAssumption DEF RepoInv, ReadinessCheck
<1> QED  BY <1>1 DEF VerifyCase

\* The liveness endpoint always answers; the readiness endpoint is another
\* one, and answers when the application does.
LEMMA ProbesAnswered ==
  ASSUME RepoInv, accepted, NEW a \in Applications
  PROVE  /\ ProbeAnswers(a, templates.live[a])
         /\ ProbeAnswers(a, templates.ready[a]) = Answers(a)
         /\ Service(contract, a).live # Service(contract, a).ready
<1>1. /\ templates.live[a] = Service(contract, a).live
      /\ templates.ready[a] = Service(contract, a).ready
      /\ Service(contract, a).live # Service(contract, a).ready
  BY Governed DEF ProbesMatch
<1>2. ProbeAnswers(a, Service(contract, a).live)
  BY <1>1 DEF ProbeAnswers
<1>3. ProbeAnswers(a, Service(contract, a).ready) = Answers(a)
  BY <1>1 DEF ProbeAnswers
<1> QED  BY <1>1, <1>2, <1>3

\* A gate names every startup dependency of the contract, when the text of no
\* endpoint begins that of another.
LEMMA WaitsForAll ==
  ASSUME RepoInv, accepted, Begins = {}, NEW a \in Applications,
         NEW d \in HelmDependencies(contract, a)
  PROVE  TargetUrl(contract, d, "bundled") \in Targets(a)
<1> DEFINE u == TargetUrl(contract, d, "bundled")
<1>1. InScript(u, templates, a, "bundled")
  BY Governed DEF GateMatches
<1>2. PICK w \in Targets(a) : w.host = u.host /\ w.at = u.at
  BY <1>1 DEF InScript, Targets
<1>3. u = [host |-> u.host, at |-> u.at]
  BY DEF TargetUrl, External
<1>4. w = [host |-> w.host, at |-> w.at]
  BY <1>2 DEF Targets, GateTargets, RenderedUrl, External
<1> QED  BY <1>2, <1>3, <1>4

\* What answers at the URL of a dependency is the dependency, and ready.
LEMMA AnswerMeansReady ==
  ASSUME RepoInv, accepted, NEW a \in Applications, NEW d,
         Responds(a, TargetUrl(contract, d, "bundled"))
  PROVE  d \in ready
<1> DEFINE u == TargetUrl(contract, d, "bundled")
<1>1. /\ u.host \in Inventory
      /\ \/ u.at = ReadyAt(u.host) /\ u.host \in ready
         \/ u.host \in Applications /\ u.at = Service(contract, u.host).live
  BY Zenon DEF Responds
<1>2. "external" \notin Inventory
  BY DocumentsAssumption
<1>3. CASE d \in Infrastructure
  <2>1. u.host = d \/ u.host = "external"
    BY <1>3 DEF TargetUrl, External
  <2>2. d \notin Applications
    BY <1>3, DocumentsAssumption
  <2> QED  BY <1>1, <1>2, <2>1, <2>2
<1>4. CASE d \notin Infrastructure
  <2>1. u.host = d /\ u.at = Service(contract, d).ready
    BY <1>4 DEF TargetUrl
  <2>2. d \in Applications
    BY <1>1, <1>4, <2>1 DEF Inventory
  <2>3. Service(contract, d).live # Service(contract, d).ready
    BY <2>2, ProbesAnswered
  <2> QED  BY <1>1, <2>1, <2>3
<1> QED  BY <1>3, <1>4

(***************************************************************************)
(* A pod that waits in its gate has met each dependency or still asks for  *)
(* it.                                                                     *)
(***************************************************************************)
GateInv ==
    \A a \in Applications : pod[a] = "gate" =>
        \A d \in HelmDependencies(contract, a) :
            d \in met[a] \/ TargetUrl(contract, d, "bundled") \in gate[a]

LEMMA Installed ==
  ASSUME RepoInv, PodShapes, NEW s \in Inventory, pod[s] # "absent"
  PROVE  helm # "none" /\ accepted
BY DEF RepoInv, PodShapes

LEMMA GateKept ==
  ASSUME RepoInv, PodShapes, GateInv, Begins = {}, Next
  PROVE  GateInv'
<1>0. Applications \subseteq Inventory
  BY DEF Inventory
<1>1. SUFFICES ASSUME NEW a \in Applications, pod'[a] = "gate",
                      contract' = contract, templates' = templates,
                      NEW d \in HelmDependencies(contract, a)
               PROVE  \/ d \in met'[a]
                      \/ TargetUrl(contract, d, "bundled") \in gate'[a]
  <2>1. CASE RepoStep
    <3>1. pod' = pod /\ helm = "none"
      BY <2>1 DEF RepoStep, cluster, podVars
    <3>2. \A a \in Applications : pod'[a] # "gate"
      BY <1>0, <3>1 DEF PodShapes
    <3> QED  BY <3>2 DEF GateInv
  <2>2. CASE ~RepoStep
    <3>1. UNCHANGED <<contract, templates>>
      <4>1. CASE \E s \in Inventory : Starts(s) \/ Probes(s) \/ Crashes(s) \/ Replaced(s)
        BY <4>1 DEF Starts, Probes, Crashes, Replaced, repo
      <4>2. CASE \E a \in Applications :
                   \/ GateOpens(a) \/ Enrolls(a) \/ GatePasses(a) \/ GateExpires(a)
                   \/ LivenessFails(a) \/ Hangs(a)
        BY <4>2 DEF GateOpens, Enrolls, GatePasses, GateExpires, LivenessFails,
           Hangs, repo
      <4>3. CASE Install
        BY <4>3 DEF Install, repo
      <4> QED  BY <2>2, <4>1, <4>2, <4>3, Steps, JobsApart, HelmApart
    <3>2. ASSUME NEW a, NEW d
          PROVE  /\ HelmDependencies(contract, a)' = HelmDependencies(contract', a)
                 /\ TargetUrl(contract, d, "bundled")' = TargetUrl(contract', d, "bundled")
      BY DEF HelmDependencies, TargetUrl
    <3>3. contract' = contract
      BY <3>1
    <3> QED  BY <1>1, <3>1, <3>2, <3>3 DEF GateInv
  <2> QED  BY <2>1, <2>2
<1>2. CASE pod[a] = "gate" /\ met'[a] = met[a] /\ gate'[a] = gate[a]
  BY <1>2 DEF GateInv
<1>3. accepted => TargetUrl(contract, d, "bundled") \in Targets(a)
  BY WaitsForAll
<1>4. CASE RepoStep
  BY <1>1, <1>2, <1>4 DEF RepoStep, cluster, podVars
<1>5. ASSUME NEW s \in Inventory, Starts(s) \/ Probes(s) \/ Crashes(s)
      PROVE  pod[a] = "gate" /\ met'[a] = met[a] /\ gate'[a] = gate[a]
  BY <1>0, <1>1, <1>5 DEF Starts, Probes, Crashes, PodShapes
<1>6. ASSUME NEW s \in Inventory, Replaced(s)
      PROVE  d \in met'[a] \/ TargetUrl(contract, d, "bundled") \in gate'[a]
  <2>1. /\ pod' = [pod EXCEPT ![s] = Fresh(s)]
        /\ gate' = [gate EXCEPT ![s] = FreshGate(s)]
        /\ met' = [met EXCEPT ![s] = {}]
        /\ pod[s] = "running"
    BY <1>6 DEF Replaced
  <2>2. CASE s = a
    <3>1. Fresh(a) = "gate" /\ gate'[a] = FreshGate(a)
      BY <1>0, <1>1, <2>1, <2>2 DEF PodShapes
    <3>2. FreshGate(a) = Targets(a)
      BY <1>0, <3>1, FreshPod
    <3>3. accepted
      BY <2>1, Installed
    <3> QED  BY <1>3, <3>1, <3>2, <3>3
  <2>3. CASE s # a
    BY <1>0, <1>1, <1>2, <2>1, <2>3 DEF PodShapes
  <2> QED  BY <2>2, <2>3
<1>7. ASSUME NEW b \in Applications,
             GateOpens(b) \/ Enrolls(b) \/ LivenessFails(b) \/ Hangs(b)
      PROVE  pod[a] = "gate" /\ met'[a] = met[a] /\ gate'[a] = gate[a]
  BY <1>0, <1>1, <1>7 DEF GateOpens, Enrolls, LivenessFails, Hangs, PodShapes
<1>8. ASSUME NEW b \in Applications, GatePasses(b)
      PROVE  d \in met'[a] \/ TargetUrl(contract, d, "bundled") \in gate'[a]
  <2>1. PICK u \in gate[b] :
          /\ Responds(b, u)
          /\ gate' = [gate EXCEPT ![b] = @ \ {u}]
          /\ met' = [met EXCEPT ![b] = @ \cup (ready \cap HelmDependencies(contract, b))]
          /\ pod' = pod
    BY <1>8 DEF GatePasses
  <2>2. CASE b # a
    BY <1>0, <1>1, <1>2, <2>1, <2>2 DEF PodShapes
  <2>3. CASE b = a
    <3>1. /\ gate'[a] = gate[a] \ {u}
          /\ met'[a] = met[a] \cup (ready \cap HelmDependencies(contract, a))
      BY <1>0, <2>1, <2>3 DEF PodShapes
    <3>2. d \in met[a] \/ TargetUrl(contract, d, "bundled") \in gate[a]
      BY <1>1, <2>1 DEF GateInv
    <3>3. CASE TargetUrl(contract, d, "bundled") = u
      <4>1. pod[a] # "absent"
        BY <1>1, <2>1
      <4>2. accepted
        BY <1>0, <4>1, Installed
      <4>3. d \in ready
        BY <2>1, <2>3, <3>3, <4>2, AnswerMeansReady
      <4> QED  BY <1>1, <3>1, <4>3
    <3> QED  BY <3>1, <3>2, <3>3
  <2> QED  BY <2>2, <2>3
<1>9. ASSUME NEW b \in Applications, GateExpires(b)
      PROVE  d \in met'[a] \/ TargetUrl(contract, d, "bundled") \in gate'[a]
  <2>1. gate' = [gate EXCEPT ![b] = Targets(b)] /\ UNCHANGED <<pod, met>>
    BY <1>9 DEF GateExpires
  <2>2. accepted
    BY <1>0, <1>1, <2>1, Installed
  <2> QED  BY <1>0, <1>1, <1>2, <1>3, <2>1, <2>2 DEF PodShapes
<1>10. CASE Install
  <2>1. /\ pod' = [s \in Inventory |-> Fresh(s)]
        /\ gate' = [s \in Inventory |-> FreshGate(s)]
        /\ accepted
    BY <1>10 DEF Install
  <2>2. Fresh(a) = "gate" /\ gate'[a] = FreshGate(a)
    BY <1>0, <1>1, <2>1
  <2> QED  BY <1>0, <1>3, <2>1, <2>2, FreshPod
<1> QED  BY <1>1, <1>2, <1>4, <1>5, <1>6, <1>7, <1>8, <1>9, <1>10, Steps,
            JobsApart, HelmApart

(***************************************************************************)
(* A ready application had every answer it checks: what it asks at run     *)
(* time is admitted to it, and it has its workload identity.               *)
(***************************************************************************)
Admitted(a, d) ==
    <<a, d>> \in RuntimeEdges =>
        LET u == RuntimeUrl(templates, <<a, d>>, "bundled") IN
            /\ u.host \in Inventory
            /\ u.at[1] \in templates.ports[u.host]
            /\ NetworkPolicyAllows(templates, u.host, u.at[1], a)
            /\ \/ u.at = ReadyAt(u.host)
               \/ u.host \in Applications /\ u.at = Service(contract, u.host).live

ReadyInv ==
    \A s \in ready :
        /\ pod[s] \in {"running", "hung"}
        /\ s \in Applications =>
              /\ \A d \in Checks[s] : Admitted(s, d)
              /\ s \in Enrolling => s \in enrolled

\* While nothing has happened since helm began, what was found ready still is,
\* and what a Job has done stays in Vault.
CalmInv ==
    calm =>
        /\ \A s \in Inventory : pod[s] # "hung"
        /\ helm = "waiting" /\ job.at = "done" => "key" \in store
        /\ helm = "hooks" =>
              AllReady /\ "key" \in store /\ (job.at = "done" => "agent" \in store)
        /\ helm = "installed" => AllReady /\ {"key", "agent"} \subseteq store

LEMMA AdmittedSame ==
  ASSUME UNCHANGED <<contract, templates>>, NEW a, NEW d
  PROVE  Admitted(a, d)' <=> Admitted(a, d)
<1>1. \A x, u : RuntimeUrl(templates, x, u)' = RuntimeUrl(templates, x, u)
  BY DEF RuntimeUrl, RenderedUrl
<1>2. \A x : ReadyAt(x)' = ReadyAt(x) /\ Service(contract, x)' = Service(contract, x)
  BY DEF ReadyAt, Service
<1> QED  BY <1>1, <1>2 DEF Admitted, NetworkPolicyAllows

\* The repository is left alone once there is a release.
LEMMA RepoAlone ==
  ASSUME Next, ~RepoStep
  PROVE  UNCHANGED <<contract, mirror, templates, accepted, edits>>
<1>1. CASE \E s \in Inventory : Starts(s) \/ Probes(s) \/ Crashes(s) \/ Replaced(s)
  BY <1>1 DEF Starts, Probes, Crashes, Replaced, repo
<1>2. CASE \E a \in Applications :
             \/ GateOpens(a) \/ Enrolls(a) \/ GatePasses(a) \/ GateExpires(a)
             \/ LivenessFails(a) \/ Hangs(a)
  BY <1>2 DEF GateOpens, Enrolls, GatePasses, GateExpires, LivenessFails,
     Hangs, repo
<1>3. CASE Install
  BY <1>3 DEF Install, repo
<1> QED  BY <1>1, <1>2, <1>3, Steps, JobsApart, HelmApart

LEMMA NobodyReadyBefore ==
  ASSUME PodShapes, ReadyInv, helm = "none"
  PROVE  ready = {}
BY DEF PodShapes, ReadyInv

\* An answer of an application is an answer of all it checks.
LEMMA AnswerAdmitted ==
  ASSUME NEW a \in Applications, Answers(a)
  PROVE  /\ \A d \in Checks[a] : Admitted(a, d)
         /\ a \in Enrolling => a \in enrolled
<1>1. ASSUME NEW d \in Checks[a], <<a, d>> \in RuntimeEdges
      PROVE  Responds(a, RuntimeUrl(templates, <<a, d>>, "bundled"))
  BY <1>1 DEF Answers
<1> QED  BY <1>1 DEF Answers, Admitted, Responds, Connects

LEMMA ReadyKept ==
  ASSUME RepoInv, PodShapes, ReadyInv, Next
  PROVE  ReadyInv'
<1>0. Applications \subseteq Inventory
  BY DEF Inventory
<1>1. CASE RepoStep
  <2>1. ready' = {}
    BY <1>1, NobodyReadyBefore DEF RepoStep, cluster, podVars
  <2> QED  BY <2>1 DEF ReadyInv
<1>2. CASE Install
  <2>1. ready' = {}
    BY <1>2, NobodyReadyBefore DEF Install
  <2> QED  BY <2>1 DEF ReadyInv
<1>3. CASE ~RepoStep /\ ~Install
  <2>1. \A a, d : Admitted(a, d)' <=> Admitted(a, d)
    BY <1>3, RepoAlone, AdmittedSame
  <2>2. SUFFICES ASSUME NEW s \in ready'
                 PROVE  /\ pod'[s] \in {"running", "hung"}
                        /\ s \in Applications =>
                             /\ \A d \in Checks[s] : Admitted(s, d)
                             /\ s \in Enrolling => s \in enrolled'
    BY <2>1 DEF ReadyInv
  <2>3. CASE s \in ready /\ pod'[s] \in {"running", "hung"} /\ enrolled \subseteq enrolled'
    BY <2>3 DEF ReadyInv
  <2>4. s \in ready => s \in Inventory /\ pod[s] \in {"running", "hung"}
    BY DEF ReadyInv, PodShapes
  <2>5. ASSUME NEW r \in Inventory, Starts(r) \/ Crashes(r) \/ Replaced(r)
        PROVE  s \in ready /\ pod'[s] \in {"running", "hung"} /\ enrolled \subseteq enrolled'
    BY <2>4, <2>5 DEF Starts, Crashes, Replaced, PodShapes
  <2>6. ASSUME NEW a \in Applications,
               \/ GateOpens(a) \/ GatePasses(a) \/ GateExpires(a)
               \/ LivenessFails(a) \/ Hangs(a)
        PROVE  s \in ready /\ pod'[s] \in {"running", "hung"} /\ enrolled \subseteq enrolled'
    BY <1>0, <2>4, <2>6 DEF GateOpens, GatePasses, GateExpires, LivenessFails,
       Hangs, PodShapes
  <2>7. ASSUME NEW a \in Applications, Enrolls(a)
        PROVE  s \in ready /\ pod'[s] \in {"running", "hung"} /\ enrolled \subseteq enrolled'
    BY <2>4, <2>7 DEF Enrolls
  <2>8. ASSUME NEW r \in Inventory, Probes(r)
        PROVE  /\ pod'[s] \in {"running", "hung"}
               /\ s \in Applications =>
                    /\ \A d \in Checks[s] : Admitted(s, d)
                    /\ s \in Enrolling => s \in enrolled'
    <3>1. UNCHANGED <<pod, enrolled>>
      BY <2>8 DEF Probes
    <3>2. CASE s \in ready
      BY <2>3, <2>4, <3>1, <3>2
    <3>3. CASE s \notin ready
      <4>1. /\ s = r /\ pod[s] = "running"
            /\ s \in Applications => ProbeAnswers(s, templates.ready[s])
        BY <2>8, <3>3 DEF Probes
      <4>2. accepted
        BY <2>8, <4>1, Installed
      <4>3. s \in Applications => Answers(s)
        BY <4>1, <4>2, ProbesAnswered
      <4> QED  BY <3>1, <4>1, <4>3, AnswerAdmitted
    <3> QED  BY <3>2, <3>3
  <2> QED  BY <1>3, <2>3, <2>4, <2>5, <2>6, <2>7, <2>8, Steps, JobsApart, HelmApart
<1> QED  BY <1>1, <1>2, <1>3

\* With everything ready and nothing hanging, every probe succeeds.
LEMMA AllAnswer ==
  ASSUME RepoInv, PodShapes, ReadyInv, AllReady, "key" \in store, accepted,
         \A s \in Inventory : pod[s] # "hung",
         NEW s \in Inventory
  PROVE  /\ pod[s] = "running"
         /\ s \in Applications => ProbeAnswers(s, templates.ready[s])
<1>1. \A r \in Inventory : pod[r] = "running" /\ r \in ready
  BY DEF AllReady, ReadyInv
<1>2. ASSUME s \in Applications
      PROVE  Answers(s)
  <2>1. ASSUME NEW d \in Checks[s]
        PROVE  IF <<s, d>> \in RuntimeEdges
               THEN Responds(s, RuntimeUrl(templates, <<s, d>>, "bundled"))
               ELSE pod[d] = "running"
    <3>1. Admitted(s, d)
      BY <1>1, <1>2 DEF ReadyInv
    <3>2. CASE <<s, d>> \in RuntimeEdges
      BY <1>1, <3>1, <3>2 DEF Admitted, Responds, Connects
    <3>3. CASE <<s, d>> \notin RuntimeEdges
      BY <1>1, <1>2, <3>3, ServicesAssumption
    <3> QED  BY <3>2, <3>3
  <2> QED  BY <1>1, <1>2, <2>1 DEF Answers, ReadyInv
<1> QED  BY <1>1, <1>2, ProbesAnswered

LEMMA CalmKept ==
  ASSUME RepoInv, PodShapes, JobShapes, ReadyInv, CalmInv, Next
  PROVE  CalmInv'
<1>0. Applications \subseteq Inventory
  BY DEF Inventory
<1>1. SUFFICES ASSUME calm'
               PROVE  CalmInv'
  BY DEF CalmInv
<1>2. ~Fault
  BY <1>1 DEF Fault
<1>3. CASE RepoStep
  BY <1>3 DEF RepoStep, cluster, podVars, CalmInv, AllReady
<1>4. ASSUME NEW s \in Inventory, Starts(s)
      PROVE  CalmInv'
  BY <1>4 DEF Starts, CalmInv, AllReady, PodShapes
<1>5. ASSUME NEW s \in Inventory, Probes(s)
      PROVE  CalmInv'
  <2>1. UNCHANGED <<helm, pod, store, job, calm>>
    BY <1>5 DEF Probes
  <2>2. ~(helm \in {"hooks", "installed"})
    <3>1. SUFFICES ASSUME helm \in {"hooks", "installed"}
                   PROVE  FALSE
      OBVIOUS
    <3>2. AllReady /\ "key" \in store /\ \A r \in Inventory : pod[r] # "hung"
      BY <1>1, <2>1, <3>1 DEF CalmInv
    <3>3. accepted
      BY <3>1 DEF RepoInv
    <3>4. /\ pod[s] = "running"
          /\ s \in Applications => ProbeAnswers(s, templates.ready[s])
      BY <3>2, <3>3, AllAnswer
    <3>5. s \in ready
      BY <3>2 DEF AllReady
    <3> QED  BY <1>5, <3>4, <3>5 DEF Probes
  <2> QED  BY <2>1, <2>2 DEF CalmInv
<1>6. ASSUME NEW s \in Inventory, Crashes(s) \/ Replaced(s)
      PROVE  FALSE
  BY <1>2, <1>6 DEF Crashes, Replaced
<1>7. ASSUME NEW a \in Applications, Hangs(a)
      PROVE  FALSE
  BY <1>2, <1>7 DEF Hangs
<1>8. ASSUME NEW a \in Applications, LivenessFails(a)
      PROVE  FALSE
  <2>1. pod[a] # "hung" /\ calm
    BY <1>0, <1>1, <1>8 DEF LivenessFails, CalmInv
  <2>2. pod[a] = "running" /\ ~ProbeAnswers(a, templates.live[a])
    BY <1>8, <2>1 DEF LivenessFails
  <2>3. accepted
    BY <1>0, <2>2, Installed
  <2> QED  BY <2>2, <2>3, ProbesAnswered
<1>9. ASSUME NEW a \in Applications,
             GateOpens(a) \/ Enrolls(a) \/ GatePasses(a) \/ GateExpires(a)
      PROVE  CalmInv'
  <2>1. /\ UNCHANGED <<helm, ready, store, job, calm>>
        /\ pod' = pod \/ pod' = [pod EXCEPT ![a] = "starting"]
    BY <1>9 DEF GateOpens, Enrolls, GatePasses, GateExpires
  <2> QED  BY <1>0, <2>1 DEF CalmInv, AllReady, PodShapes
<1>10. CASE JobFindsVault \/ JobFindsNoVault \/ JobEnables \/ JobWrites \/ JobReads
  <2>1. UNCHANGED <<helm, pod, ready>> /\ job.at # "done" /\ helm # "installed"
    BY <1>10, JobsApart DEF JobShapes
  <2>2. /\ store \subseteq store'
        /\ job'.at = "done" => Written \in store'
        /\ calm
    <3>1. AttemptFails => job'.at # "done"
      BY DEF AttemptFails, JobShapes
    <3>2. \A at \in {"enable", "write", "read"} : JobGoes(at) => job'.at # "done"
      BY DEF JobGoes, JobShapes
    <3> QED  BY <1>1, <1>2, <1>10, <3>1, <3>2 DEF JobFindsVault, JobFindsNoVault,
             JobEnables, JobWrites, JobReads
  <2>3. /\ helm = "waiting" => Written = "key"
        /\ helm = "hooks" => Written = "agent"
    BY DEF JobShapes, Written, Bootstrap, Seed
  <2> QED  BY <2>1, <2>2, <2>3 DEF CalmInv, AllReady
<1>11. CASE Install
  <2>1. /\ pod' = [s \in Inventory |-> Fresh(s)] /\ helm' = "waiting"
        /\ job' = NewJob(Bootstrap)
    BY <1>11 DEF Install
  <2> QED  BY <2>1, FreshPod DEF CalmInv, NewJob
<1>12. CASE Upgrade
  <2>1. /\ \A s \in Inventory : pod'[s] # "hung"
        /\ helm' = "waiting" /\ job' = NewJob(Bootstrap)
    BY <1>1, <1>12, HelmApart DEF Upgrade
  <2> QED  BY <2>1 DEF CalmInv, NewJob
<1>13. CASE HelmSeesReady
  <2>1. /\ helm = "waiting" /\ AllReady /\ job.at = "done" /\ helm' = "hooks"
        /\ job' = NewJob(Seed) /\ calm' = calm
    BY <1>13 DEF HelmSeesReady
  <2> QED  BY <1>1, <1>13, <2>1, HelmApart DEF CalmInv, NewJob, AllReady
<1>14. CASE HelmSeesHook \/ HelmFails
  <2>1. /\ calm' = calm
        /\ \/ helm = "hooks" /\ job.at = "done" /\ helm' = "installed"
           \/ helm' = "failed"
    BY <1>14 DEF HelmSeesHook, HelmFails
  <2> QED  BY <1>1, <1>14, <2>1, HelmApart DEF CalmInv, AllReady
<1> QED  BY <1>3, <1>4, <1>5, <1>6, <1>7, <1>8, <1>9, <1>10, <1>11, <1>12,
            <1>13, <1>14, Steps

(***************************************************************************)
(* The inductive invariant, and what follows from it.                      *)
(***************************************************************************)
IInv == /\ RepoInv /\ PodShapes /\ JobShapes
        /\ ReadyInv /\ CalmInv

LEMMA Initially == Init => IInv
<1> SUFFICES ASSUME Init
             PROVE  IInv
  OBVIOUS
<1>1. PodShapes
  BY DEF Init, PodShapes
<1>2. JobShapes
  <2>1. 0 \in 0..BackoffLimit /\ 0 < BackoffLimit /\ 0 \in 0..MaxFaults
    BY LifecycleBounds
  <2> QED  BY <2>1 DEF Init, JobShapes, NoJob, DevVault
<1>3. ReadyInv /\ CalmInv
  BY DEF Init, ReadyInv, CalmInv, Inventory
<1> QED  BY <1>1, <1>2, <1>3, RepoInitial DEF IInv

LEMMA Kept == IInv /\ [Next]_vars => IInv'
<1> SUFFICES ASSUME IInv, [Next]_vars
             PROVE  IInv'
  OBVIOUS
<1>1. CASE Next
  BY <1>1, RepoKept, PodShapesKept, JobShapesKept, ReadyKept, CalmKept
     DEF IInv
<1>2. CASE UNCHANGED vars
  <2> USE <1>2 DEF vars, repo, cluster, podVars
  <2>1. RepoInv'
    BY DEF IInv, RepoInv
  <2>2. PodShapes' /\ JobShapes'
    BY DEF IInv, PodShapes, JobShapes
  <2>3. ReadyInv'
    BY AdmittedSame DEF IInv, ReadyInv
  <2>4. CalmInv'
    BY DEF IInv, CalmInv, AllReady
  <2> QED  BY <2>1, <2>2, <2>3, <2>4 DEF IInv
<1> QED  BY <1>1, <1>2

LEMMA Always == Spec => []IInv
BY Initially, Kept, PTL DEF Spec

LEMMA GatesWait ==
  ASSUME Begins = {}
  PROVE  Spec => []GateInv
<1>1. Init => GateInv
  BY DEF Init, GateInv, Inventory
<1>2. GateInv /\ IInv /\ [Next]_vars => GateInv'
  <2>1. GateInv /\ IInv /\ Next => GateInv'
    BY GateKept DEF IInv
  <2>2. GateInv /\ UNCHANGED vars => GateInv'
    BY DEF vars, repo, cluster, podVars, GateInv, HelmDependencies, TargetUrl, Service
  <2> QED  BY <2>1, <2>2
<1> QED  BY <1>1, <1>2, Always, PTL DEF Spec

\* Pods, gates, Jobs and the repository keep their shapes (services.yaml,
\* the two Jobs, the fixture), whatever is edited, fails or is retried.
THEOREM TypeCorrect == Spec => []TypeOK
<1>1. IInv => TypeOK
  <2> SUFFICES ASSUME IInv
               PROVE  TypeOK
    OBVIOUS
  <2>1. RepoTypeOK
    BY DEF IInv, RepoInv, RepoTypeOK, Projection
  <2> QED  BY <2>1 DEF IInv, PodShapes, JobShapes, TypeOK
<1> QED  BY <1>1, Always, PTL

\* The init gate of services.yaml: whatever crashes, is replaced or is
\* restarted while a pod waits, its application starts only when every startup
\* dependency that the contract gives it has been ready during that wait; as
\* long as the text of no endpoint begins that of another, which the check
\* could take for it in the gate's script (check_dependency_readiness.py:288).
THEOREM StartsInOrder ==
  ASSUME Begins = {}
  PROVE  Spec => StartedInOrder
<1>1. IInv /\ GateInv /\ [Next]_vars =>
        [\A a \in Applications :
           pod[a] = "gate" /\ pod'[a] = "starting" =>
             HelmDependencies(contract, a) \subseteq met[a]]_pod
  <2> SUFFICES ASSUME IInv, GateInv, [Next]_vars, pod' # pod,
                      NEW a \in Applications,
                      pod[a] = "gate", pod'[a] = "starting"
               PROVE  HelmDependencies(contract, a) \subseteq met[a]
    OBVIOUS
  <2>0. a \in Inventory /\ Applications \subseteq Inventory /\ PodShapes
    BY DEF Inventory, IInv
  <2>1. Next
    BY DEF vars, cluster, podVars
  <2>2. helm # "none"
    BY <2>0 DEF PodShapes
  <2>3. ~(RepoStep \/ Install)
    BY <2>2 DEF RepoStep, Install
  <2>4. ~(\E s \in Inventory : Starts(s) \/ Probes(s) \/ Crashes(s) \/ Replaced(s))
    BY <2>0 DEF Starts, Probes, Crashes, Replaced, PodShapes
  <2>5. PICK b \in Applications :
          \/ GateOpens(b) \/ Enrolls(b) \/ GatePasses(b) \/ GateExpires(b)
          \/ LivenessFails(b) \/ Hangs(b)
    BY <2>1, <2>3, <2>4, Steps, JobsApart, HelmApart
  <2>6. GateOpens(b) /\ b = a
    BY <2>0, <2>5 DEF GateOpens, Enrolls, GatePasses, GateExpires, LivenessFails,
       Hangs, PodShapes
  <2>7. gate[a] = {}
    BY <2>6 DEF GateOpens
  <2> QED  BY <2>0, <2>7 DEF GateInv
<1> QED  BY <1>1, Always, GatesWait, PTL DEF Spec, StartedInOrder

\* The liveness probes of services.yaml ask /health, not /readyz: a container
\* that runs is restarted only by a fault of its own, whichever of its
\* dependencies is down and for how long.
THEOREM OutagesStay == Spec => OutageDoesNotRestart
<1>1. IInv /\ [Next]_vars =>
        [\A a \in Applications :
           pod[a] = "running" /\ pod'[a] # "running" => faults' = faults + 1]_pod
  <2> SUFFICES ASSUME IInv, [Next]_vars, pod' # pod,
                      NEW a \in Applications,
                      pod[a] = "running", pod'[a] # "running"
               PROVE  faults' = faults + 1
    OBVIOUS
  <2>0. a \in Inventory /\ Applications \subseteq Inventory /\ PodShapes /\ RepoInv
    BY DEF Inventory, IInv
  <2>1. Next
    BY DEF vars, cluster, podVars
  <2>2. helm # "none" /\ accepted
    BY <2>0, Installed
  <2>3. ~(RepoStep \/ Install)
    BY <2>2 DEF RepoStep, Install
  <2>4. ASSUME NEW s \in Inventory, Starts(s) \/ Probes(s)
        PROVE  FALSE
    BY <2>0, <2>4 DEF Starts, Probes, PodShapes
  <2>5. ASSUME NEW s \in Inventory, Crashes(s) \/ Replaced(s)
        PROVE  faults' = faults + 1
    BY <2>5 DEF Crashes, Replaced, Fault
  <2>6. ASSUME NEW b \in Applications,
               GateOpens(b) \/ Enrolls(b) \/ GatePasses(b) \/ GateExpires(b)
        PROVE  FALSE
    BY <2>0, <2>6 DEF GateOpens, Enrolls, GatePasses, GateExpires, PodShapes
  <2>7. ASSUME NEW b \in Applications, LivenessFails(b)
        PROVE  FALSE
    <3>1. b = a
      BY <2>0, <2>7 DEF LivenessFails, PodShapes
    <3>2. ~ProbeAnswers(a, templates.live[a])
      BY <2>7, <3>1 DEF LivenessFails
    <3> QED  BY <2>0, <2>2, <3>2, ProbesAnswered
  <2>8. ASSUME NEW b \in Applications, Hangs(b)
        PROVE  faults' = faults + 1
    BY <2>8 DEF Hangs, Fault
  <2> QED  BY <2>1, <2>3, <2>4, <2>5, <2>6, <2>7, <2>8, Steps, JobsApart, HelmApart
<1> QED  BY <1>1, Always, PTL DEF Spec, OutageDoesNotRestart

\* --wait, --wait-for-jobs and the read-back of both Jobs: a release that helm
\* calls installed has every Service ready and Vault's key and agent entry in
\* place, whatever happened in earlier revisions, as long as nothing has since
\* helm began this one.
THEOREM InstalledReady == Spec => []InstalledServes
<1>1. IInv => InstalledServes
  BY DEF IInv, CalmInv, InstalledServes
<1> QED  BY <1>1, Always, PTL
================================================================================

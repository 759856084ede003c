------------------------------ MODULE SharedTokens ------------------------------
(***************************************************************************)
(* The Secret that HIL, Console and Brain must agree on, of                *)
(* templates/shared-tokens-secret.yaml.  The chart mints its keys when it  *)
(* is rendered, unless it finds them in the live Secret under the rotation *)
(* id of the values; operators may own the Secret instead.  The rendered   *)
(* values stay in the revision Helm records, the Secret is applied after   *)
(* the hooks and before the Deployments, and a pod reads its keys when it  *)
(* starts.  So what is in force, what Helm remembers and what a pod holds  *)
(* may be three different things.                                          *)
(*                                                                         *)
(* Abstracted: a key is the number of the rendering (or of the operator's  *)
(* update) that made it, 0 where there is none; a rotation id is a number. *)
(* A service's old and new pod are one after the other.                    *)
(***************************************************************************)
EXTENDS Naturals, Sequences, FiniteSetsExt

CONSTANTS
    RecoverForward, \* the operator follows the README's rules (see MayUse)
    MaxOperations,  \* how many installs, upgrades and rollbacks are explored
    MaxFaults       \* how many of them fail

ASSUME TokensAssumption ==
    /\ RecoverForward \in BOOLEAN
    /\ MaxOperations \in Nat /\ MaxFaults \in Nat

VARIABLES
    external,  \* authSecrets.existingSecretName is set
    live,      \* the Secret in the cluster: its rotation id and its keys
    issued,    \* every key that ever was in force, under its rotation id
    history,   \* the revisions Helm keeps: what was rendered, how it ended
    before,    \* the keys of the manifest Helm compares the new one with
    pc, todo,  \* Helm's step, and the Deployments still to apply
    dep,       \* per consumer: the pod template of its Deployment
    pods,      \* per consumer: the template its pod runs, the keys it holds
    newest,    \* the latest rotation id anybody has used
    minted,    \* how often keys were made
    ops, faults  \* bounds

helmVars    == <<history, before, pc, todo, ops, faults>>
secretVars  == <<external, live, issued, newest, minted>>
clusterVars == <<dep, pods>>
vars == <<helmVars, secretVars, clusterVars>>

\* In the order in which services.yaml renders them, and Helm applies them.
ConsumerOrder == <<"brain", "console", "hil">>
Consumers == {"brain", "console", "hil"}

\* The keys of the chart; an older chart had no more than the first two.
OldKeys  == {"hil-decide-token", "hil-session-key"}
BaseKeys == OldKeys \cup {"hil-bootstrap-token", "brain-cache-hmac-key"}
Keys     == BaseKeys \cup {"hil-payload-key"}

\* Which keys a service's Deployment refers to (Console in operator mTLS).
Reads(c) ==
    CASE c = "hil" -> Keys \ {"brain-cache-hmac-key"}
      [] c = "console" -> {"hil-decide-token"}
      [] c = "brain" -> {"brain-cache-hmac-key"}

NoKeys   == [k \in Keys |-> 0]
Present(data) == {k \in Keys : data[k] # 0}
Made(keys, n) == [k \in Keys |-> IF k \in keys THEN n ELSE 0]

NoSecret == [id |-> 0, data |-> NoKeys]

NoTemplate == [id |-> 0, keys |-> {}]
NoPod == [tpl |-> NoTemplate, held |-> NoKeys]

Latest == history[Len(history)]
Completed == {n \in 1..Len(history) : history[n].completed}

\* What a manifest, or an operator, puts in force; a key that neither names may
\* still be left in the object, and nobody refers to it.
InForce(secret, keys) ==
    {[id |-> secret.id, key |-> k, value |-> secret.data[k]] : k \in keys}

Becomes(secret, keys) ==
    live' = secret /\ issued' = issued \cup InForce(secret, keys)

\* The keys of the generation that is in force.
GenerationKeys == {g.key : g \in {h \in issued : h.id = live.id}}

(***************************************************************************)
(* Initial states: nothing but, for operators who own it, the Secret; or   *)
(* an older chart, whose Secret lacks the keys that came later.            *)
(***************************************************************************)
TemplateOf(c, revision) ==
    [id |-> revision.id, keys |-> Reads(c) \cap revision.keys]

Started(tpl, secret) ==
    [tpl |-> tpl,
     held |-> [k \in Keys |-> IF k \in tpl.keys THEN secret.data[k] ELSE 0]]

InitWith(secret, revisions) ==
    /\ live = secret /\ issued = InForce(secret, Present(secret.data))
    /\ history = revisions
    /\ dep = [c \in Consumers |->
                IF revisions = <<>> THEN NoTemplate
                ELSE TemplateOf(c, revisions[1])]
    /\ pods = [c \in Consumers |->
                 IF revisions = <<>> THEN NoPod
                 ELSE Started(TemplateOf(c, revisions[1]), secret)]
    /\ newest = secret.id /\ minted = secret.id
    /\ before = {} /\ pc = "idle" /\ todo = <<>>
    /\ ops = 0 /\ faults = 0

OldRevision == [id |-> 1, keys |-> OldKeys, data |-> Made(OldKeys, 1),
                completed |-> TRUE]

Init ==
    \/ external = TRUE /\ InitWith([id |-> 1, data |-> Made(BaseKeys, 1)], <<>>)
    \/ external = FALSE /\ InitWith(NoSecret, <<>>)
    \/ external = FALSE /\ InitWith([id |-> 1, data |-> OldRevision.data],
                                    <<OldRevision>>)

(***************************************************************************)
(* Rendering.                                                              *)
(***************************************************************************)
\* Mutant of Kept: the rotation id is not compared.
KeptAlways(id, k) == live.data[k] # 0

\* Mutant of Kept: lookup finds nothing, as with helm template.
KeptNever(id, k) == FALSE

\* "lookup" reads the Secret while the chart is rendered, before any hook.
Kept(id, k) == live.id = id /\ live.data[k] # 0

Rendered(id, keys) ==
    IF external THEN NoKeys
    ELSE [k \in Keys |-> IF k \notin keys THEN 0
                         ELSE IF Kept(id, k) THEN live.data[k]
                         ELSE minted + 1]

Mints(id, keys) == ~external /\ \E k \in keys : ~Kept(id, k)

(***************************************************************************)
(* What the README asks of an operator: an id is a generation, it comes    *)
(* with its keys, and changing it is the only way to other keys.  A new    *)
(* generation takes a new id; otherwise the id is the one in force, or     *)
(* that of the operation being tried again, with the keys it had.          *)
(***************************************************************************)
MayUse(id, keys) ==
    IF external THEN id = live.id
    ELSE \/ id = newest + 1
         \/ id = live.id /\ keys = GenerationKeys \cup BaseKeys
         \/ history # <<>> /\ id = Latest.id /\ keys = Latest.keys

\* "must recover forward rather than restoring a superseded generation"
MayRestore(revision) ==
    /\ revision.completed /\ revision.id = live.id
    /\ external \/ GenerationKeys \subseteq revision.keys

(***************************************************************************)
(* Helm.                                                                   *)
(***************************************************************************)
Begin(revision, keys) ==
    /\ history' = Append(history, revision)
    /\ before' = keys /\ pc' = "hooks" /\ ops' = ops + 1
    /\ UNCHANGED <<todo, external, live, issued, faults, clusterVars>>

\* helm upgrade --install: compared with the last revision that completed.
Upgrade(id, keys) ==
    /\ pc = "idle" /\ ops < MaxOperations
    /\ RecoverForward => MayUse(id, keys)
    /\ Begin([id |-> id, keys |-> keys, data |-> Rendered(id, keys),
              completed |-> FALSE],
             IF history = <<>> THEN {}
             ELSE IF Completed # {} THEN history[Max(Completed)].keys
             ELSE Latest.keys)
    /\ newest' = Max({newest, id})
    /\ minted' = IF Mints(id, keys) THEN minted + 1 ELSE minted

\* helm rollback brings a revision back as it was rendered then.
Rollback(n) ==
    /\ pc = "idle" /\ ops < MaxOperations
    /\ n \in 1..(Len(history) - 1)
    /\ RecoverForward => MayRestore(history[n])
    /\ Begin([history[n] EXCEPT !.completed = FALSE], Latest.keys)
    /\ UNCHANGED <<newest, minted>>

\* The three-way merge: a key that left the manifest leaves the object.
Merged(revision) ==
    [k \in Keys |-> IF revision.data[k] # 0 THEN revision.data[k]
                    ELSE IF k \in before THEN 0 ELSE live.data[k]]

ApplySecret ==
    /\ pc = "hooks"
    /\ IF external THEN UNCHANGED <<live, issued>>
       ELSE Becomes([id |-> Latest.id, data |-> Merged(Latest)], Latest.keys)
    /\ pc' = "deployments" /\ todo' = ConsumerOrder
    /\ UNCHANGED <<history, before, ops, faults, external, newest, minted,
                   clusterVars>>

ApplyDeployment ==
    /\ pc = "deployments" /\ todo # <<>>
    /\ dep' = [dep EXCEPT ![Head(todo)] = TemplateOf(Head(todo), Latest)]
    /\ todo' = Tail(todo)
    /\ UNCHANGED <<history, before, pc, ops, faults, secretVars, pods>>

Finish ==
    /\ pc = "deployments" /\ todo = <<>>
    /\ history' = [history EXCEPT ![Len(history)].completed = TRUE]
    /\ pc' = "idle"
    /\ UNCHANGED <<before, todo, ops, faults, secretVars, clusterVars>>

\* In a hook, in the middle of the resources, or while waiting for the pods.
HelmFails ==
    /\ pc # "idle" /\ faults < MaxFaults
    /\ faults' = faults + 1 /\ pc' = "idle" /\ todo' = <<>>
    /\ UNCHANGED <<history, before, ops, secretVars, clusterVars>>

\* helm.sh/resource-policy: keep
Uninstall ==
    /\ pc = "idle" /\ history # <<>>
    /\ history' = <<>>
    /\ dep' = [c \in Consumers |-> NoTemplate]
    /\ pods' = [c \in Consumers |-> NoPod]
    /\ UNCHANGED <<before, pc, todo, ops, faults, secretVars>>

(***************************************************************************)
(* Operators and Kubernetes.                                               *)
(***************************************************************************)
\* The operator replaces every key of the external Secret in one update, and
\* means to advance the id in the next release.
UpdateExternal(id) ==
    /\ external /\ pc = "idle" /\ ops < MaxOperations
    /\ RecoverForward => id = newest + 1
    /\ Becomes([id |-> id, data |-> Made(BaseKeys, minted + 1)], BaseKeys)
    /\ newest' = Max({newest, id}) /\ minted' = minted + 1 /\ ops' = ops + 1
    /\ UNCHANGED <<history, before, pc, todo, faults, external, clusterVars>>

\* A pod whose keys are not all there does not start.
CanStart(tpl) == tpl # NoTemplate /\ tpl.keys \subseteq Present(live.data)

\* A Deployment replaces its pod only when the template has changed.
RollPod(c) ==
    /\ pods[c].tpl # dep[c] /\ CanStart(dep[c])
    /\ pods' = [pods EXCEPT ![c] = Started(dep[c], live)]
    /\ UNCHANGED <<helmVars, secretVars, dep>>

\* A pod that is evicted, or whose container restarts, reads its keys again.
RestartPod(c) ==
    /\ CanStart(pods[c].tpl)
    /\ pods' = [pods EXCEPT ![c] = Started(pods[c].tpl, live)]
    /\ UNCHANGED <<helmVars, secretVars, dep>>

(***************************************************************************)
(* Specification.                                                          *)
(***************************************************************************)
ChartKeys == IF external THEN {BaseKeys} ELSE {BaseKeys, Keys}

Next ==
    \/ \E id \in 1..(newest + 1) :
         \/ \E keys \in ChartKeys : Upgrade(id, keys)
         \/ UpdateExternal(id)
    \/ \E n \in 1..Len(history) : Rollback(n)
    \/ ApplySecret \/ ApplyDeployment \/ Finish \/ HelmFails \/ Uninstall
    \/ \E c \in Consumers : RollPod(c) \/ RestartPod(c)

Spec == Init /\ [][Next]_vars

(***************************************************************************)
(* Properties.                                                             *)
(***************************************************************************)
\* A rotation id is a generation: under one id a key never had two values, not
\* even before and after a failed or repeated upgrade, a rollback, or an
\* uninstall that keeps HIL's data; and no value served under two ids, so a
\* rotation leaves nothing of what it replaces.
OneKeyPerGeneration ==
    \A g, h \in issued : g.key = h.key => (g.id = h.id <=> g.value = h.value)

\* Whatever fails, restarts or is rolled back, a pod that runs under the id in
\* force holds the keys in force; and what completed is under that id, and
\* lacks no key to start with.
ConsumersCurrent ==
    /\ \A c \in Consumers : pods[c].tpl.id = live.id =>
         \A k \in pods[c].tpl.keys : pods[c].held[k] = live.data[k]
    /\ pc = "idle" /\ history # <<>> /\ Latest.completed
         => \A c \in Consumers : /\ dep[c].keys \subseteq Present(live.data)
                                 /\ dep[c].id = live.id \/ external
================================================================================

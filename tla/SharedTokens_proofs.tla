------------------------- MODULE SharedTokens_proofs --------------------------
(***************************************************************************)
(* Proofs about the shared tokens, for any number of installs, upgrades,   *)
(* rollbacks, operator updates and failures, as long as the operator keeps *)
(* to the README (RecoverForward):                                         *)
(*   OneGeneration   a rotation id is one value of every key, and back;    *)
(*   ConsumersAgree  pods under the id in force hold the keys in force,    *)
(*                   and what completed can start.                         *)
(***************************************************************************)
EXTENDS SharedTokens, SequenceTheorems, TLAPS

(***************************************************************************)
(* The inductive invariant.                                                *)
(***************************************************************************)
Data     == [Keys -> Nat]
Secret   == [id : Nat, data : Data]
Revision == [id : Nat, keys : SUBSET Keys, data : Data, completed : BOOLEAN]
Template == [id : Nat, keys : SUBSET Keys]
Pod      == [tpl : Template, held : Data]

Of(id, k, v) == [id |-> id, key |-> k, value |-> v]

\* Every key of the revision has been in force under its id.
Served(r) == \A k \in r.keys : Of(r.id, k, r.data[k]) \in issued

\* Applying the revision gives no key of its id a second value.
Agrees(r) == \A k \in r.keys : \A g \in issued :
                g.key = k => (g.id = r.id <=> g.value = r.data[k])

Typed ==
    /\ external \in BOOLEAN /\ live \in Secret
    /\ issued \subseteq [id : Nat, key : Keys, value : Nat]
    /\ history \in Seq(Revision)
    /\ pc \in {"idle", "hooks", "deployments"} /\ todo \in Seq(Consumers)
    /\ dep \in [Consumers -> Template] /\ pods \in [Consumers -> Pod]
    /\ newest \in Nat /\ minted \in Nat

\* New ids and new values are above all others.
Numbered ==
    /\ live.id <= newest
    /\ \A g \in issued : 0 < g.value /\ g.value <= minted /\ g.id <= live.id
    /\ \A n \in 1..Len(history) :
         /\ history[n].id <= newest
         /\ \A k \in Keys : history[n].data[k] <= minted

\* The object holds the generation in force; a key it has besides was left by
\* a manifest, and is not one every manifest has.
Holds ==
    /\ \A g \in issued : g.id = live.id => live.data[g.key] = g.value
    /\ \A k \in BaseKeys : /\ external => live.data[k] # 0
                           /\ live.data[k] # 0
                                => Of(live.id, k, live.data[k]) \in issued

\* What Helm remembers: revisions that completed were in force, the latest is of
\* the generation in force or of a later one.
Recorded ==
    /\ pc # "idle" => history # <<>> /\ ~Latest.completed
    /\ \A n \in 1..Len(history) :
         IF external THEN history[n].keys \subseteq BaseKeys
         ELSE /\ \A k \in Keys : k \in history[n].keys <=> history[n].data[k] # 0
              /\ history[n].completed => Served(history[n])
    /\ external /\ pc # "idle" => Latest.id = live.id
    /\ ~external /\ history # <<>> =>
         /\ live.id <= Latest.id
         /\ Latest.id # live.id => BaseKeys \subseteq Latest.keys
         /\ pc = "hooks" => Agrees(Latest)
         /\ pc = "deployments" => Latest.id = live.id /\ Served(Latest)
         /\ pc = "idle" /\ Latest.completed => Latest.id = live.id
         /\ Latest.id = live.id => /\ GenerationKeys \subseteq Latest.keys
                                   /\ Latest.keys \subseteq GenerationKeys \cup BaseKeys

\* Templates and pods under the id in force know only keys of its generation.
Current ==
    \A c \in Consumers :
        /\ dep[c].id <= live.id /\ pods[c].tpl.id <= live.id
        /\ dep[c].id = live.id => dep[c].keys \subseteq GenerationKeys
        /\ pods[c].tpl.id = live.id =>
             \A k \in pods[c].tpl.keys : Of(live.id, k, pods[c].held[k]) \in issued

\* How far Helm has come with the Deployments.
Applied ==
    /\ pc = "deployments" =>
         \A c \in Consumers : (\A i \in 1..Len(todo) : todo[i] # c)
            => dep[c] = TemplateOf(c, Latest)
    /\ pc = "idle" /\ history # <<>> /\ Latest.completed =>
         \A c \in Consumers : dep[c] = TemplateOf(c, Latest)

IInv == /\ Typed /\ Numbered /\ Holds /\ Recorded /\ Current /\ Applied
        /\ OneKeyPerGeneration

(***************************************************************************)
(* What the operators return.                                              *)
(***************************************************************************)
LEMMA KeyFacts == OldKeys \subseteq BaseKeys /\ BaseKeys \subseteq Keys
  BY DEF OldKeys, BaseKeys, Keys

LEMMA MaxOfTwo ==
  ASSUME NEW a \in Nat, NEW b \in Nat
  PROVE  Max({a, b}) = IF a >= b THEN a ELSE b
<1>1. \E x \in {a, b} : \A y \in {a, b} : x >= y
  OBVIOUS
<1>2. Max({a, b}) \in {a, b} /\ \A y \in {a, b} : Max({a, b}) >= y
  BY <1>1 DEF Max
<1> QED  BY <1>2

LEMMA MadeTyped ==
  ASSUME NEW keys, NEW n \in Nat
  PROVE  Made(keys, n) \in Data /\ NoKeys \in Data
  BY DEF Made, Data, NoKeys

LEMMA TemplateTyped ==
  ASSUME NEW c, NEW r \in Revision
  PROVE  /\ TemplateOf(c, r) \in Template /\ TemplateOf(c, r).id = r.id
         /\ TemplateOf(c, r).keys \subseteq r.keys
  BY DEF TemplateOf, Template, Revision

LEMMA StartedTyped ==
  ASSUME NEW tpl \in Template, NEW secret \in Secret
  PROVE  /\ Started(tpl, secret) \in Pod /\ Started(tpl, secret).tpl = tpl
         /\ \A k \in tpl.keys : Started(tpl, secret).held[k] = secret.data[k]
  BY DEF Started, Pod, Secret, Data, Template

\* What a rendering keeps is in force; what it mints is nowhere yet.
LEMMA RenderedTyped ==
  ASSUME Typed, NEW id \in Nat, NEW keys \in SUBSET Keys
  PROVE  /\ Rendered(id, keys) \in Data
         /\ ~external => \A k \in Keys :
              /\ k \in keys <=> Rendered(id, keys)[k] # 0
              /\ k \in keys => \/ /\ live.id = id /\ live.data[k] # 0
                                  /\ Rendered(id, keys)[k] = live.data[k]
                               \/ /\ ~Kept(id, k) /\ Mints(id, keys)
                                  /\ Rendered(id, keys)[k] = minted + 1
<1>1. live.data \in [Keys -> Nat] /\ minted \in Nat /\ external \in BOOLEAN
  BY DEF Typed, Secret, Data
<1>2. CASE external
  BY <1>1, <1>2, MadeTyped DEF Rendered
<1>3. CASE ~external
  BY <1>1, <1>3 DEF Rendered, Kept, Mints, Data
<1> QED  BY <1>2, <1>3

LEMMA Generation ==
  ASSUME NEW k
  PROVE  k \in GenerationKeys <=> \E g \in issued : g.id = live.id /\ g.key = k
  BY DEF GenerationKeys

LEMMA LatestRevision ==
  ASSUME Typed, history # <<>>
  PROVE  /\ Len(history) \in Nat \ {0} /\ Len(history) \in 1..Len(history)
         /\ Latest = history[Len(history)] /\ Latest \in Revision
  BY DEF Typed, Latest

LEMMA Appended ==
  ASSUME Typed, NEW r \in Revision, history' = Append(history, r)
  PROVE  /\ history' \in Seq(Revision) /\ history' # <<>>
         /\ Len(history') = Len(history) + 1 /\ Latest' = r
         /\ \A n \in 1..Len(history) : history'[n] = history[n]
         /\ history'[Len(history) + 1] = r
  BY DEF Typed, Latest

(***************************************************************************)
(* Initial states.                                                         *)
(***************************************************************************)
LEMMA SetUp ==
  ASSUME NEW secret, NEW keys \in SUBSET Keys,
         \/ secret = [id |-> 1, data |-> Made(keys, 1)]
         \/ secret = NoSecret /\ keys = {}
  PROVE  /\ secret \in Secret /\ secret.id <= 1
         /\ InForce(secret, Present(secret.data))
              = {Of(1, k, 1) : k \in keys}
         /\ keys # {} => secret.id = 1
         /\ \A k \in Keys : secret.data[k] = IF k \in keys THEN 1 ELSE 0
  BY MadeTyped DEF Secret, NoSecret, NoKeys, InForce, Present, Made, Of

LEMMA InitInv == ASSUME Init PROVE IInv
<1>1. /\ OldRevision \in Revision /\ OldRevision.id = 1
      /\ OldRevision.keys = OldKeys /\ OldRevision.data = Made(OldKeys, 1)
  BY KeyFacts, MadeTyped DEF OldRevision, Revision
<1>2. /\ NoTemplate \in Template /\ NoTemplate.id = 0 /\ NoTemplate.keys = {}
      /\ NoPod \in Pod /\ NoPod.tpl = NoTemplate
  BY MadeTyped DEF NoTemplate, Template, NoPod, Pod
<1>3. PICK keys \in SUBSET Keys :
        /\ \/ live = [id |-> 1, data |-> Made(keys, 1)]
           \/ live = NoSecret /\ keys = {}
        /\ external \in BOOLEAN /\ InitWith(live, history)
        /\ external => history = <<>> /\ keys = BaseKeys
        /\ ~external => \/ history = <<>> /\ keys = {}
                        \/ history = <<OldRevision>> /\ keys = OldKeys
  <2>1. CASE external = TRUE /\ InitWith([id |-> 1, data |-> Made(BaseKeys, 1)], <<>>)
    <3>1. BaseKeys \in SUBSET Keys
      BY KeyFacts
    <3>2. /\ live = [id |-> 1, data |-> Made(BaseKeys, 1)]
          /\ external \in BOOLEAN /\ InitWith(live, history) /\ history = <<>>
      BY <2>1 DEF InitWith
    <3> QED  BY <2>1, <3>1, <3>2
  <2>2. CASE external = FALSE /\ InitWith(NoSecret, <<>>)
    <3>1. {} \in SUBSET Keys
      OBVIOUS
    <3> QED  BY <2>2, <3>1 DEF InitWith
  <2>3. CASE external = FALSE /\ InitWith([id |-> 1, data |-> OldRevision.data],
                                          <<OldRevision>>)
    <3>1. OldKeys \in SUBSET Keys
      BY KeyFacts
    <3>2. /\ live = [id |-> 1, data |-> Made(OldKeys, 1)]
          /\ external \in BOOLEAN /\ InitWith(live, history)
          /\ history = <<OldRevision>>
      BY <2>3, <1>1 DEF InitWith
    <3> QED  BY <2>3, <3>1, <3>2
  <2> QED  BY <2>1, <2>2, <2>3 DEF Init
<1>4. /\ live \in Secret /\ live.id <= 1
      /\ issued = {Of(1, k, 1) : k \in keys}
      /\ keys # {} => live.id = 1
      /\ \A k \in Keys : live.data[k] = IF k \in keys THEN 1 ELSE 0
  BY <1>3, SetUp DEF InitWith
<1>5. newest = live.id /\ minted = live.id /\ pc = "idle" /\ todo = <<>>
  BY <1>3 DEF InitWith
<1>6. live.id \in Nat
  BY <1>4 DEF Secret
<1>7. ASSUME NEW c \in Consumers
      PROVE  \/ history = <<>> /\ dep[c] = NoTemplate /\ pods[c] = NoPod
             \/ /\ history = <<OldRevision>> /\ dep[c] = TemplateOf(c, OldRevision)
                /\ pods[c] = Started(TemplateOf(c, OldRevision), live)
  BY <1>3 DEF InitWith
<1>8. history = <<OldRevision>> => Latest = OldRevision /\ Len(history) = 1
  BY DEF Latest
<1>9. ASSUME history = <<OldRevision>>
       PROVE  GenerationKeys = OldKeys /\ live.id = 1
  <2>1. keys = OldKeys /\ keys # {}
    BY <1>3, <1>9 DEF OldKeys
  <2>2. live.id = 1 /\ issued = {Of(1, k, 1) : k \in OldKeys}
    BY <1>4, <2>1
  <2>3. ASSUME NEW k PROVE k \in GenerationKeys <=> k \in OldKeys
    <3>1. k \in OldKeys => Of(1, k, 1) \in issued
      BY <2>2
    <3>2. \A g \in issued : g.id = 1 /\ g.key \in OldKeys
      BY <2>2 DEF Of
    <3>3. Of(1, k, 1).id = 1 /\ Of(1, k, 1).key = k
      BY DEF Of
    <3> QED  BY <2>2, <3>1, <3>2, <3>3, Generation
  <2> QED  BY <2>2, <2>3
<1>10. Typed
  <2>1. issued \subseteq [id : Nat, key : Keys, value : Nat]
    BY <1>4 DEF Of
  <2>2. dep \in [Consumers -> Template] /\ pods \in [Consumers -> Pod]
    <3>1. /\ dep = [c \in Consumers |-> dep[c]]
          /\ pods = [c \in Consumers |-> pods[c]]
      BY <1>3 DEF InitWith
    <3>2. \A c \in Consumers : dep[c] \in Template /\ pods[c] \in Pod
      BY <1>1, <1>2, <1>4, <1>7, TemplateTyped, StartedTyped
    <3> QED  BY <3>1, <3>2
  <2>3. history \in Seq(Revision)
    <3>1. <<OldRevision>> \in Seq(Revision) /\ <<>> \in Seq(Revision)
      BY <1>1
    <3> QED  BY <1>3, <3>1
  <2> QED  BY <1>3, <1>4, <1>5, <1>6, <2>1, <2>2, <2>3 DEF Typed
<1>11. Numbered
  <2>1. \A g \in issued : g.value = 1 /\ g.id = 1 /\ live.id = 1
    BY <1>4 DEF Of
  <2>2. \A n \in 1..Len(history) :
          /\ history[n].id <= newest
          /\ \A k \in Keys : history[n].data[k] <= minted
    <3>1. CASE history = <<>>
      BY <3>1
    <3>2. CASE history = <<OldRevision>> /\ keys = OldKeys
      <4>1. live.id = 1
        BY <1>4, <3>2 DEF OldKeys
      <4>2. \A k \in Keys : OldRevision.data[k] <= 1
        BY <1>1 DEF Made
      <4> QED  BY <1>1, <1>5, <1>8, <3>2, <4>1, <4>2
    <3> QED  BY <1>3, <3>1, <3>2
  <2> QED  BY <1>5, <1>6, <2>1, <2>2 DEF Numbered
<1>12. Holds
  BY <1>3, <1>4, KeyFacts DEF Holds, Of
<1>13. Recorded
  <2>1. history = <<OldRevision>> => Served(OldRevision)
    BY <1>1, <1>3, <1>4, KeyFacts DEF Served, Made
  <2>2. history = <<OldRevision>> => GenerationKeys = OldKeys /\ live.id = 1
    BY <1>9
  <2>3. \A k \in Keys : k \in OldRevision.keys <=> OldRevision.data[k] # 0
    BY <1>1 DEF Made
  <2> QED  BY <1>1, <1>3, <1>5, <1>8, <2>1, <2>2, <2>3, KeyFacts DEF Recorded
<1>14. Current
  <2> SUFFICES ASSUME NEW c \in Consumers
               PROVE  /\ dep[c].id <= live.id /\ pods[c].tpl.id <= live.id
                      /\ dep[c].keys \subseteq GenerationKeys
                      /\ \A k \in pods[c].tpl.keys :
                           Of(live.id, k, pods[c].held[k]) \in issued
    BY DEF Current
  <2>1. CASE dep[c] = NoTemplate /\ pods[c] = NoPod
    BY <1>2, <1>6, <2>1
  <2>2. CASE /\ history = <<OldRevision>> /\ dep[c] = TemplateOf(c, OldRevision)
             /\ pods[c] = Started(TemplateOf(c, OldRevision), live)
    <3>1. live.id = 1 /\ GenerationKeys = OldKeys
      BY <1>9, <2>2
    <3>2. \A k \in OldKeys : live.data[k] = 1 /\ Of(1, k, 1) \in issued
      BY <1>3, <1>4, <2>2, KeyFacts
    <3>3. /\ dep[c].id = 1 /\ dep[c].keys \subseteq OldKeys
          /\ pods[c].tpl = dep[c]
          /\ \A k \in dep[c].keys : pods[c].held[k] = live.data[k]
      BY <1>1, <1>4, <2>2, TemplateTyped, StartedTyped
    <3> QED  BY <3>1, <3>2, <3>3
  <2> QED  BY <1>7, <2>1, <2>2
<1>15. Applied
  BY <1>5, <1>7, <1>8 DEF Applied
<1>16. OneKeyPerGeneration
  BY <1>4 DEF OneKeyPerGeneration, Of
<1> QED  BY <1>10, <1>11, <1>12, <1>13, <1>14, <1>15, <1>16 DEF IInv

(***************************************************************************)
(* Helm begins a revision.                                                 *)
(***************************************************************************)
LEMMA BeginInv ==
  ASSUME IInv, pc = "idle", NEW r \in Revision, NEW keys, Begin(r, keys),
         ~r.completed, newest' \in Nat, minted' \in Nat,
         newest <= newest', minted <= minted',
         r.id <= newest', \A k \in Keys : r.data[k] <= minted',
         external => r.keys \subseteq BaseKeys /\ r.id = live.id,
         ~external => /\ \A k \in Keys : k \in r.keys <=> r.data[k] # 0
                      /\ live.id <= r.id /\ Agrees(r)
                      /\ r.id # live.id => BaseKeys \subseteq r.keys
                      /\ r.id = live.id => /\ GenerationKeys \subseteq r.keys
                                           /\ r.keys \subseteq GenerationKeys \cup BaseKeys
  PROVE  IInv'
<1> USE DEF IInv
<1>1. /\ history' = Append(history, r) /\ pc' = "hooks"
      /\ UNCHANGED <<external, live, issued, todo, dep, pods>>
  BY DEF Begin, clusterVars
<1>2. /\ history' \in Seq(Revision) /\ history' # <<>>
      /\ Len(history') = Len(history) + 1 /\ Latest' = r
      /\ \A n \in 1..Len(history) : history'[n] = history[n]
      /\ history'[Len(history) + 1] = r
  BY <1>1, Appended
<1>3. Len(history) \in Nat
  BY DEF Typed
<1>4. \A n \in 1..Len(history') : history'[n] = r \/ n \in 1..Len(history)
  BY <1>2, <1>3
<1>5. Typed'
  BY <1>1, <1>2 DEF Typed
<1>6. Numbered'
  <2>1. /\ newest \in Nat /\ minted \in Nat /\ live.id \in Nat
        /\ issued \subseteq [id : Nat, key : Keys, value : Nat]
        /\ \A n \in 1..Len(history) : /\ history[n].id \in Nat
                                      /\ \A k \in Keys : history[n].data[k] \in Nat
    <3>1. \A n \in 1..Len(history) : history[n] \in Revision
      BY DEF Typed
    <3> QED  BY <3>1 DEF Typed, Secret, Revision, Data
  <2>2. \A n \in 1..Len(history') :
          /\ history'[n].id <= newest'
          /\ \A k \in Keys : history'[n].data[k] <= minted'
    BY <1>2, <1>4, <2>1 DEF Numbered
  <2> QED  BY <1>1, <2>1, <2>2 DEF Numbered
<1>7. Holds'
  BY <1>1 DEF Holds
<1>8. Recorded'
  <2>1. ASSUME NEW n \in 1..Len(history')
        PROVE  IF external THEN history'[n].keys \subseteq BaseKeys
               ELSE /\ \A k \in Keys : k \in history'[n].keys <=> history'[n].data[k] # 0
                    /\ history'[n].completed => Served(history'[n])
    BY <1>2, <1>4 DEF Recorded
  <2>2. GenerationKeys' = GenerationKeys /\ Agrees(r)' = Agrees(r)
    BY <1>1 DEF GenerationKeys, Agrees
  <2>3. \A n \in 1..Len(history') : Served(history'[n]) => Served(history[n])'
    BY <1>1 DEF Served
  <2> QED  BY <1>1, <1>2, <2>1, <2>2, <2>3 DEF Recorded
<1>9. Current'
  BY <1>1 DEF Current, GenerationKeys
<1>10. Applied'
  BY <1>1 DEF Applied
<1>11. OneKeyPerGeneration'
  BY <1>1 DEF OneKeyPerGeneration
<1> QED  BY <1>5, <1>6, <1>7, <1>8, <1>9, <1>10, <1>11

\* A key that is kept is in force under this id, a key that is minted is new, and
\* a key of the generation in force is never minted again.
LEMMA UpgradeInv ==
  ASSUME RecoverForward, IInv, NEW id \in 1..(newest + 1),
         NEW keys \in ChartKeys, Upgrade(id, keys)
  PROVE  IInv'
<1> DEFINE r == [id |-> id, keys |-> keys, data |-> Rendered(id, keys),
                 completed |-> FALSE]
<1>1. /\ Typed /\ newest \in Nat /\ minted \in Nat /\ id \in Nat /\ live.id \in Nat
      /\ live.data \in [Keys -> Nat]
      /\ external \in BOOLEAN
  BY DEF IInv, Typed, Secret, Data
<1>2. /\ keys \in SUBSET Keys /\ BaseKeys \subseteq keys
      /\ external => keys = BaseKeys
  BY KeyFacts DEF ChartKeys
<1>3. /\ pc = "idle" /\ MayUse(id, keys)
      /\ newest' = Max({newest, id})
      /\ minted' = IF Mints(id, keys) THEN minted + 1 ELSE minted
      /\ \E b : Begin(r, b)
  BY DEF Upgrade
<1>4. newest' = IF newest >= id THEN newest ELSE id
  BY <1>1, <1>3, MaxOfTwo
<1>5. /\ Rendered(id, keys) \in Data
      /\ ~external => \A k \in Keys :
           /\ k \in keys <=> Rendered(id, keys)[k] # 0
           /\ k \in keys => \/ /\ live.id = id /\ live.data[k] # 0
                               /\ Rendered(id, keys)[k] = live.data[k]
                            \/ /\ ~Kept(id, k) /\ Mints(id, keys)
                               /\ Rendered(id, keys)[k] = minted + 1
  BY <1>1, <1>2, RenderedTyped
<1>6. r \in Revision
  BY <1>1, <1>2, <1>5 DEF Revision
<1>7. /\ newest' \in Nat /\ newest <= newest' /\ id <= newest'
      /\ minted' \in Nat /\ minted <= minted'
  BY <1>1, <1>3, <1>4
<1>8. CASE external
  <2>1. \A k \in Keys : Rendered(id, keys)[k] = 0
    BY <1>8 DEF Rendered, NoKeys
  <2>2. id = live.id
    BY <1>3, <1>8 DEF MayUse
  <2>3. \A k \in Keys : r.data[k] <= minted'
    BY <1>7, <2>1
  <2>4. ~r.completed /\ r.id = id /\ r.keys = keys
    OBVIOUS
  <2> HIDE DEF r
  <2> QED  BY <1>2, <1>3, <1>6, <1>7, <1>8, <2>2, <2>3, <2>4, BeginInv
<1>9. CASE ~external
  <2>1. \/ id = newest + 1
        \/ id = live.id /\ keys = GenerationKeys \cup BaseKeys
        \/ history # <<>> /\ id = Latest.id /\ keys = Latest.keys
    BY <1>3, <1>9 DEF MayUse
  <2>2. /\ live.id <= newest
        /\ \A g \in issued : /\ g.id \in Nat /\ g.value \in Nat /\ g.key \in Keys
                             /\ 0 < g.value /\ g.value <= minted /\ g.id <= live.id
    BY <1>1 DEF IInv, Numbered, Typed
  <2>3. history # <<>> =>
          /\ Latest.id \in Nat /\ live.id <= Latest.id
          /\ Latest.id = live.id => /\ GenerationKeys \subseteq Latest.keys
                                    /\ Latest.keys \subseteq GenerationKeys \cup BaseKeys
    BY <1>1, <1>9, LatestRevision DEF IInv, Recorded, Revision
  <2>4. /\ live.id <= id
        /\ id = live.id => /\ GenerationKeys \subseteq keys
                           /\ keys \subseteq GenerationKeys \cup BaseKeys
    BY <1>1, <2>1, <2>2, <2>3
  <2>5. ASSUME NEW k \in keys, NEW g \in issued, g.key = k
        PROVE  g.id = id <=> g.value = Rendered(id, keys)[k]
    <3>1. CASE /\ live.id = id /\ live.data[k] # 0
               /\ Rendered(id, keys)[k] = live.data[k]
      <4>1. Of(id, k, live.data[k]) \in issued
        <5>1. CASE k \in BaseKeys
          BY <3>1, <5>1 DEF IInv, Holds
        <5>2. CASE k \in GenerationKeys
          <6>1. PICK h \in issued : h.id = live.id /\ h.key = k
            BY <5>2, Generation
          <6>2. h.value = live.data[k]
            BY <6>1 DEF IInv, Holds
          <6>3. h = Of(h.id, h.key, h.value)
            BY <1>1 DEF Typed, Of
          <6> QED  BY <3>1, <6>1, <6>2, <6>3
        <5> QED  BY <2>4, <3>1, <5>1, <5>2
      <4>2. /\ Of(id, k, live.data[k]).key = k /\ Of(id, k, live.data[k]).id = id
            /\ Of(id, k, live.data[k]).value = live.data[k]
        BY DEF Of
      <4> QED  BY <2>5, <3>1, <4>1, <4>2 DEF IInv, OneKeyPerGeneration
    <3>2. CASE ~Kept(id, k) /\ Rendered(id, keys)[k] = minted + 1
      <4>1. g.value # minted + 1
        BY <1>1, <2>2
      <4>2. g.id # id
        <5>1. g.id = live.id => live.data[k] # 0
          BY <2>2, <2>5 DEF IInv, Holds
        <5> QED  BY <1>1, <2>2, <2>4, <3>2, <5>1 DEF Kept
      <4> QED  BY <3>2, <4>1, <4>2
    <3> QED  BY <1>2, <1>5, <1>9, <3>1, <3>2
  <2>6. Agrees(r)
    BY <2>5 DEF Agrees
  <2>7. \A k \in Keys : r.data[k] <= minted'
    <3> SUFFICES ASSUME NEW k \in Keys PROVE Rendered(id, keys)[k] <= minted'
      OBVIOUS
    <3>1. CASE k \notin keys
      BY <1>5, <1>7, <1>9, <3>1
    <3>2. CASE /\ k \in keys /\ live.id = id /\ live.data[k] # 0
               /\ Rendered(id, keys)[k] = live.data[k]
      <4>1. \E g \in issued : g.value = live.data[k]
        <5>1. CASE k \in BaseKeys
          <6>1. Of(live.id, k, live.data[k]) \in issued
            BY <3>2, <5>1 DEF IInv, Holds
          <6> QED  BY <6>1 DEF Of
        <5>2. CASE k \in GenerationKeys
          <6>1. PICK g \in issued : g.id = live.id /\ g.key = k
            BY <5>2, Generation
          <6> QED  BY <6>1 DEF IInv, Holds
        <5> QED  BY <2>4, <3>2, <5>1, <5>2
      <4> QED  BY <1>1, <1>7, <2>2, <3>2, <4>1
    <3>3. CASE Mints(id, keys) /\ Rendered(id, keys)[k] = minted + 1
      BY <1>1, <1>3, <3>3
    <3> QED  BY <1>5, <1>9, <3>1, <3>2, <3>3
  <2> QED  BY <1>2, <1>3, <1>5, <1>6, <1>7, <1>9, <2>4, <2>6, <2>7, BeginInv
<1> QED  BY <1>1, <1>8, <1>9

LEMMA RollbackInv ==
  ASSUME RecoverForward, IInv, NEW n \in 1..Len(history), Rollback(n)
  PROVE  IInv'
<1> DEFINE r == [history[n] EXCEPT !.completed = FALSE]
<1>1. /\ pc = "idle" /\ MayRestore(history[n])
      /\ \E b : Begin(r, b)
      /\ newest' = newest /\ minted' = minted
  BY DEF Rollback
<1>2. /\ newest \in Nat /\ minted \in Nat /\ live.id \in Nat /\ external \in BOOLEAN
      /\ history[n] \in Revision
      /\ issued \subseteq [id : Nat, key : Keys, value : Nat]
  BY DEF IInv, Typed, Secret
<1>3. /\ r \in Revision /\ ~r.completed
      /\ r.id = history[n].id /\ r.keys = history[n].keys /\ r.data = history[n].data
  BY <1>2 DEF Revision
<1> HIDE DEF r
<1>4. r.id <= newest /\ \A k \in Keys : r.data[k] <= minted
  BY <1>3 DEF IInv, Numbered
<1>5. r.id = live.id /\ history[n].completed
  BY <1>1, <1>3 DEF MayRestore
<1>6. CASE external
  <2>1. r.keys \subseteq BaseKeys
    BY <1>3, <1>6 DEF IInv, Recorded
  <2> QED  BY <1>1, <1>2, <1>3, <1>4, <1>5, <1>6, <2>1, BeginInv
<1>7. CASE ~external
  <2>1. /\ \A k \in Keys : k \in r.keys <=> r.data[k] # 0
        /\ \A k \in r.keys : Of(r.id, k, r.data[k]) \in issued
    BY <1>3, <1>5, <1>7 DEF IInv, Recorded, Served
  <2>2. Agrees(r)
    BY <2>1 DEF IInv, OneKeyPerGeneration, Agrees, Of
  <2>3. GenerationKeys \subseteq r.keys
    BY <1>1, <1>3, <1>7 DEF MayRestore
  <2>4. r.keys \subseteq GenerationKeys
    <3> SUFFICES ASSUME NEW k \in r.keys PROVE k \in GenerationKeys
      OBVIOUS
    <3>1. Of(live.id, k, r.data[k]) \in issued
      BY <1>5, <2>1
    <3> QED  BY <3>1, Generation DEF Of
  <2> QED  BY <1>1, <1>2, <1>3, <1>4, <1>5, <1>7, <2>1, <2>2, <2>3, <2>4, BeginInv
<1> QED  BY <1>2, <1>6, <1>7

(***************************************************************************)
(* Helm applies the Secret.                                                *)
(***************************************************************************)
LEMMA OrderFacts ==
  /\ ConsumerOrder \in Seq(Consumers)
  /\ \A c \in Consumers : \E i \in 1..Len(ConsumerOrder) : ConsumerOrder[i] = c
<1>1. ConsumerOrder = <<"brain", "console", "hil">> /\ Len(ConsumerOrder) = 3
  BY DEF ConsumerOrder
<1>2. "brain" \in Consumers /\ "console" \in Consumers /\ "hil" \in Consumers
  BY DEF Consumers
<1>3. ConsumerOrder \in Seq(Consumers)
  BY <1>1, <1>2
<1>4. /\ ConsumerOrder[1] = "brain" /\ ConsumerOrder[2] = "console"
      /\ ConsumerOrder[3] = "hil"
  BY <1>1
<1> QED  BY <1>1, <1>3, <1>4 DEF Consumers

LEMMA ApplyExternalInv ==
  ASSUME IInv, ApplySecret, external
  PROVE  IInv'
<1>1. /\ pc = "hooks" /\ pc' = "deployments" /\ todo' = ConsumerOrder
      /\ UNCHANGED <<external, live, issued, history, dep, pods, newest, minted>>
  BY DEF ApplySecret, clusterVars
<1>2. Latest' = Latest /\ GenerationKeys' = GenerationKeys
  BY <1>1 DEF Latest, GenerationKeys
<1>3. Typed'
  BY <1>1, OrderFacts DEF IInv, Typed
<1>4. Numbered' /\ Holds' /\ Current' /\ OneKeyPerGeneration'
  BY <1>1, <1>2 DEF IInv, Numbered, Holds, Current, OneKeyPerGeneration
<1>5. Recorded'
  BY <1>1, <1>2 DEF IInv, Recorded
<1>6. Applied'
  BY <1>1, OrderFacts DEF Applied
<1> QED  BY <1>3, <1>4, <1>5, <1>6 DEF IInv

LEMMA ApplyManagedInv ==
  ASSUME IInv, ApplySecret, ~external
  PROVE  IInv'
<1>1. /\ pc = "hooks" /\ pc' = "deployments" /\ todo' = ConsumerOrder
      /\ UNCHANGED <<external, history, dep, pods, newest, minted>>
      /\ live' = [id |-> Latest.id, data |-> Merged(Latest)]
      /\ issued' = issued \cup {Of(Latest.id, k, Merged(Latest)[k]) : k \in Latest.keys}
  BY DEF ApplySecret, Becomes, InForce, Of, clusterVars
<1>2. /\ history # <<>> /\ Latest \in Revision /\ Latest.id \in Nat
      /\ Latest.keys \subseteq Keys /\ Latest.data \in [Keys -> Nat]
      /\ live.data \in [Keys -> Nat] /\ live.id \in Nat /\ minted \in Nat
      /\ newest \in Nat
      /\ issued \subseteq [id : Nat, key : Keys, value : Nat]
  BY <1>1, LatestRevision DEF IInv, Recorded, Typed, Revision, Data, Secret
<1>3. /\ live.id <= Latest.id /\ Agrees(Latest) /\ ~Latest.completed
      /\ Latest.id # live.id => BaseKeys \subseteq Latest.keys
      /\ \A k \in Keys : k \in Latest.keys <=> Latest.data[k] # 0
      /\ Latest.id = live.id => /\ GenerationKeys \subseteq Latest.keys
                                /\ Latest.keys \subseteq GenerationKeys \cup BaseKeys
  BY <1>1, <1>2, LatestRevision DEF IInv, Recorded
<1>4. /\ Merged(Latest) \in [Keys -> Nat]
      /\ \A k \in Latest.keys : Merged(Latest)[k] = Latest.data[k]
      /\ \A k \in Keys : k \notin Latest.keys =>
           Merged(Latest)[k] = 0 \/ Merged(Latest)[k] = live.data[k]
  BY <1>2, <1>3 DEF Merged
<1>5. Latest' = Latest
  BY <1>1 DEF Latest
<1>6. live'.id = Latest.id /\ live'.data = Merged(Latest)
  BY <1>1
<1>7. \A k \in Latest.keys : Of(Latest.id, k, Latest.data[k]) \in issued'
  BY <1>1, <1>4
<1>8. ASSUME NEW g \in issued'
      PROVE  \/ g \in issued
             \/ /\ g.key \in Latest.keys /\ g.id = Latest.id
                /\ g.value = Latest.data[g.key]
  BY <1>1, <1>4 DEF Of
<1>9. ASSUME NEW g \in issued
      PROVE  /\ g.id <= live.id /\ g.id \in Nat /\ g.key \in Keys /\ g.value \in Nat
             /\ g.id = Latest.id => /\ Latest.id = live.id /\ g.key \in Latest.keys
                                    /\ g.value = Latest.data[g.key]
  <2>1. g.id <= live.id /\ g.id \in Nat /\ g.key \in Keys /\ g.value \in Nat
    BY <1>2 DEF IInv, Numbered
  <2>2. ASSUME g.id = Latest.id
        PROVE  Latest.id = live.id /\ g.key \in Latest.keys
    <3>1. Latest.id = live.id
      BY <1>2, <1>3, <2>1, <2>2
    <3>2. g.key \in GenerationKeys
      BY <2>2, <3>1, Generation
    <3> QED  BY <1>3, <3>1, <3>2
  <2> QED  BY <1>3, <2>1, <2>2 DEF Agrees
<1>10. \A k : k \in GenerationKeys' <=> k \in Latest.keys
  <2> SUFFICES ASSUME NEW k PROVE k \in GenerationKeys' <=> k \in Latest.keys
    OBVIOUS
  <2>1. k \in GenerationKeys' <=> \E g \in issued' : g.id = live'.id /\ g.key = k
    BY DEF GenerationKeys
  <2>2. k \in Latest.keys => \E g \in issued' : g.id = live'.id /\ g.key = k
    BY <1>6, <1>7 DEF Of
  <2> QED  BY <1>6, <1>8, <1>9, <2>1, <2>2
<1>11. Typed'
  <2>1. live' \in Secret
    BY <1>1, <1>2, <1>4 DEF Secret, Data
  <2>2. issued' \subseteq [id : Nat, key : Keys, value : Nat]
    BY <1>1, <1>2, <1>4 DEF Of
  <2> QED  BY <1>1, <2>1, <2>2, OrderFacts DEF IInv, Typed
<1>12. Numbered'
  <2>1. Latest.id <= newest /\ \A k \in Keys : Latest.data[k] <= minted
    BY <1>2, LatestRevision DEF IInv, Numbered
  <2>2. ASSUME NEW g \in issued'
        PROVE  0 < g.value /\ g.value <= minted /\ g.id <= Latest.id
    <3>1. CASE g \in issued
      BY <1>2, <1>3, <1>9, <3>1 DEF IInv, Numbered
    <3>2. CASE /\ g.key \in Latest.keys /\ g.id = Latest.id
               /\ g.value = Latest.data[g.key]
      <4>1. g.key \in Keys /\ g.value \in Nat /\ g.value # 0
        BY <1>2, <1>3, <3>2
      <4> QED  BY <1>2, <2>1, <3>2, <4>1
    <3> QED  BY <1>8, <3>1, <3>2
  <2> QED  BY <1>1, <1>6, <2>1, <2>2 DEF IInv, Numbered
<1>13. Holds'
  <2>1. ASSUME NEW g \in issued', g.id = Latest.id
        PROVE  Merged(Latest)[g.key] = g.value
    BY <1>4, <1>8, <1>9, <2>1
  <2>2. ASSUME NEW k \in BaseKeys, Merged(Latest)[k] # 0
        PROVE  Of(Latest.id, k, Merged(Latest)[k]) \in issued'
    <3>1. CASE k \in Latest.keys
      BY <1>4, <1>7, <3>1
    <3>2. CASE k \notin Latest.keys
      <4>1. k \in Keys /\ live.data[k] = Merged(Latest)[k]
        BY <1>4, <2>2, <3>2, KeyFacts
      <4>2. Of(live.id, k, live.data[k]) \in issued
        BY <2>2, <4>1 DEF IInv, Holds
      <4>3. Of(live.id, k, live.data[k]).id = live.id
            /\ Of(live.id, k, live.data[k]).key = k
        BY DEF Of
      <4>4. CASE Latest.id = live.id
        BY <1>9, <3>2, <4>2, <4>3, <4>4
      <4> QED  BY <1>3, <3>2, <4>4
    <3> QED  BY <3>1, <3>2
  <2> QED  BY <1>1, <1>6, <2>1, <2>2 DEF Holds
<1>14. Recorded'
  <2>1. \A n \in 1..Len(history) : Served(history[n]) => Served(history[n])'
    BY <1>1 DEF Served
  <2>2. Served(Latest)'
    BY <1>5, <1>7 DEF Served
  <2>3. GenerationKeys' = Latest.keys
    BY <1>10
  <2>4. /\ Latest'.id = live'.id /\ ~Latest'.completed
        /\ history' # <<>>
    BY <1>1, <1>2, <1>3, <1>5, <1>6
  <2>5. \A n \in 1..Len(history') :
          /\ \A k \in Keys : k \in history'[n].keys <=> history'[n].data[k] # 0
          /\ history'[n].completed => Served(history[n])'
    BY <1>1, <2>1 DEF IInv, Recorded
  <2> QED  BY <1>1, <1>2, <1>5, <2>2, <2>3, <2>4, <2>5 DEF Recorded
<1>15. Current'
  <2> SUFFICES ASSUME NEW c \in Consumers
               PROVE  /\ dep[c].id <= Latest.id /\ pods[c].tpl.id <= Latest.id
                      /\ dep[c].id = Latest.id => dep[c].keys \subseteq Latest.keys
                      /\ pods[c].tpl.id = Latest.id =>
                           \A k \in pods[c].tpl.keys :
                             Of(Latest.id, k, pods[c].held[k]) \in issued
    BY <1>1, <1>6, <1>10 DEF Current
  <2>1. dep[c].id \in Nat /\ pods[c].tpl.id \in Nat
    BY DEF IInv, Typed, Template, Pod
  <2>2. /\ dep[c].id <= live.id /\ pods[c].tpl.id <= live.id
        /\ dep[c].id = live.id => dep[c].keys \subseteq GenerationKeys
        /\ pods[c].tpl.id = live.id =>
             \A k \in pods[c].tpl.keys : Of(live.id, k, pods[c].held[k]) \in issued
    BY DEF IInv, Current
  <2> QED  BY <1>2, <1>3, <2>1, <2>2
<1>16. Applied'
  BY <1>1, OrderFacts DEF Applied
<1>17. OneKeyPerGeneration'
  <2> SUFFICES ASSUME NEW g \in issued', NEW h \in issued', g.key = h.key
               PROVE  g.id = h.id <=> g.value = h.value
    BY DEF OneKeyPerGeneration
  <2>1. ASSUME NEW a \in issued, NEW k \in Latest.keys, a.key = k
        PROVE  a.id = Latest.id <=> a.value = Latest.data[k]
    BY <1>3, <2>1 DEF Agrees
  <2>2. CASE g \in issued /\ h \in issued
    BY <2>2 DEF IInv, OneKeyPerGeneration
  <2> QED  BY <1>8, <2>1, <2>2
<1> QED  BY <1>11, <1>12, <1>13, <1>14, <1>15, <1>16, <1>17 DEF IInv

(***************************************************************************)
(* Helm goes on, ends, or removes the release.                             *)
(***************************************************************************)
\* A new template knows the keys of the latest revision, all of them in force.
LEMMA ApplyDeploymentInv ==
  ASSUME IInv, ApplyDeployment
  PROVE  IInv'
<1> DEFINE c == Head(todo)
<1>1. /\ pc = "deployments" /\ todo # <<>>
      /\ dep' = [dep EXCEPT ![c] = TemplateOf(c, Latest)] /\ todo' = Tail(todo)
      /\ UNCHANGED <<external, live, issued, history, pc, pods, newest, minted>>
  BY DEF ApplyDeployment, secretVars
<1>2. /\ todo \in Seq(Consumers) /\ dep \in [Consumers -> Template]
      /\ pc = "deployments" /\ external \in BOOLEAN /\ live.id \in Nat
  BY <1>1 DEF IInv, Typed, Secret
<1>3. /\ c \in Consumers /\ Tail(todo) \in Seq(Consumers)
      /\ c = todo[1] /\ Len(Tail(todo)) = Len(todo) - 1
      /\ \A i \in 1..Len(Tail(todo)) : Tail(todo)[i] = todo[i + 1]
      /\ Len(todo) \in Nat
  BY <1>1, <1>2
<1> HIDE DEF c
<1>4. /\ history # <<>> /\ Latest \in Revision /\ ~Latest.completed
      /\ Len(history) \in 1..Len(history) /\ Latest = history[Len(history)]
  BY <1>2, LatestRevision DEF IInv, Recorded
<1>5. /\ TemplateOf(c, Latest) \in Template /\ TemplateOf(c, Latest).id = Latest.id
      /\ TemplateOf(c, Latest).keys \subseteq Latest.keys
  BY <1>4, TemplateTyped
<1>6. Latest' = Latest /\ GenerationKeys' = GenerationKeys
  BY <1>1 DEF Latest, GenerationKeys
<1>7. Latest.id = live.id /\ Latest.keys \subseteq GenerationKeys
  <2>1. CASE external
    <3>1. BaseKeys \subseteq GenerationKeys
      <4> SUFFICES ASSUME NEW k \in BaseKeys PROVE k \in GenerationKeys
        OBVIOUS
      <4>1. Of(live.id, k, live.data[k]) \in issued
        BY <2>1 DEF IInv, Holds
      <4> QED  BY <4>1, Generation DEF Of
    <3>2. Latest.keys \subseteq BaseKeys /\ Latest.id = live.id
      BY <1>2, <1>4, <2>1 DEF IInv, Recorded
    <3> QED  BY <3>1, <3>2
  <2>2. CASE ~external
    <3>1. Latest.id = live.id /\ Served(Latest)
      BY <1>2, <1>4, <2>2 DEF IInv, Recorded
    <3>2. ASSUME NEW k \in Latest.keys PROVE k \in GenerationKeys
      <4>1. Of(live.id, k, Latest.data[k]) \in issued
        BY <3>1 DEF Served
      <4> QED  BY <4>1, Generation DEF Of
    <3> QED  BY <3>1, <3>2
  <2> QED  BY <1>2, <2>1, <2>2
<1>8. Typed'
  BY <1>1, <1>2, <1>3, <1>5 DEF IInv, Typed
<1>9. Numbered' /\ Holds' /\ OneKeyPerGeneration'
  BY <1>1 DEF IInv, Numbered, Holds, OneKeyPerGeneration
<1>10. Recorded'
  <2>1. \A n \in 1..Len(history) : Served(history[n])' = Served(history[n])
    BY <1>1 DEF Served
  <2>2. Served(Latest)' = Served(Latest)
    BY <1>1, <1>6 DEF Served
  <2> QED  BY <1>1, <1>6, <2>1, <2>2 DEF IInv, Recorded
<1>11. Current'
  BY <1>1, <1>2, <1>3, <1>5, <1>6, <1>7 DEF IInv, Current
<1>12. Applied'
  <2> SUFFICES ASSUME NEW d \in Consumers,
                      \A i \in 1..Len(todo') : todo'[i] # d
               PROVE  dep'[d] = TemplateOf(d, Latest)
    BY <1>1, <1>6 DEF Applied, TemplateOf
  <2>1. CASE d = c
    BY <1>1, <1>2, <2>1
  <2>2. CASE d # c
    <3>1. \A i \in 1..Len(todo) : todo[i] # d
      <4> SUFFICES ASSUME NEW i \in 1..Len(todo), todo[i] = d PROVE FALSE
        OBVIOUS
      <4>1. i # 1
        BY <1>3, <2>2
      <4>2. i - 1 \in 1..Len(Tail(todo)) /\ Tail(todo)[i - 1] = todo[i]
        BY <1>3, <4>1
      <4> QED  BY <1>1, <4>2
    <3> QED  BY <1>1, <1>2, <2>2, <3>1 DEF IInv, Applied
  <2> QED  BY <2>1, <2>2
<1> QED  BY <1>8, <1>9, <1>10, <1>11, <1>12 DEF IInv

LEMMA FinishInv ==
  ASSUME IInv, Finish
  PROVE  IInv'
<1> DEFINE m == Len(history)
<1>1. /\ pc = "deployments" /\ todo = <<>> /\ pc' = "idle"
      /\ history' = [history EXCEPT ![m].completed = TRUE]
      /\ UNCHANGED <<external, live, issued, todo, dep, pods, newest, minted>>
  BY DEF Finish, secretVars, clusterVars
<1>2. /\ history # <<>> /\ Latest \in Revision /\ history \in Seq(Revision)
      /\ m \in 1..m /\ m \in Nat /\ Latest = history[m]
  BY <1>1, LatestRevision DEF IInv, Recorded, Typed
<1>3. /\ history' \in Seq(Revision) /\ Len(history') = m /\ history' # <<>>
      /\ Latest' = history'[m]
      /\ \A n \in 1..m :
           /\ history'[n].id = history[n].id /\ history'[n].keys = history[n].keys
           /\ history'[n].data = history[n].data
           /\ n # m => history'[n].completed = history[n].completed
  <2> DEFINE r == [history[m] EXCEPT !.completed = TRUE]
  <2>1. /\ r \in Revision /\ r.id = history[m].id /\ r.keys = history[m].keys
        /\ r.data = history[m].data
    BY <1>2 DEF Revision
  <2>2. history' = [history EXCEPT ![m] = r]
    BY <1>1
  <2> HIDE DEF r
  <2>3. /\ history' \in Seq(Revision) /\ Len(history') = m
        /\ \A n \in 1..m : history'[n] = IF n = m THEN r ELSE history[n]
    BY <1>2, <2>1, <2>2, ExceptSeq
  <2>4. history' # <<>> /\ Latest' = history'[m]
    BY <1>2, <2>3 DEF Latest
  <2> QED  BY <2>1, <2>3, <2>4
<1> HIDE DEF m
<1>4. GenerationKeys' = GenerationKeys
  BY <1>1 DEF GenerationKeys
<1>5. Latest'.id = Latest.id /\ Latest'.keys = Latest.keys /\ Latest'.data = Latest.data
  BY <1>2, <1>3
<1>6. Typed'
  BY <1>1, <1>3 DEF IInv, Typed
<1>7. Numbered'
  BY <1>1, <1>3 DEF IInv, Numbered, m
<1>8. Holds' /\ OneKeyPerGeneration' /\ Current'
  BY <1>1, <1>4 DEF IInv, Holds, OneKeyPerGeneration, Current
<1>9. Recorded'
  <2>1. ASSUME NEW n \in 1..m
        PROVE  IF external THEN history'[n].keys \subseteq BaseKeys
               ELSE /\ \A k \in Keys : k \in history'[n].keys <=> history'[n].data[k] # 0
                    /\ history'[n].completed => Served(history[n])'
    <3>1. Served(history[n])' = Served(history[n])
      BY <1>1, <1>3 DEF Served
    <3>2. ~external => Served(Latest)
      BY <1>1, <1>2 DEF IInv, Recorded
    <3> QED  BY <1>2, <1>3, <3>1, <3>2 DEF IInv, Recorded, m
  <2>2. ~external => Latest.id = live.id
    BY <1>1, <1>2 DEF IInv, Recorded
  <2> QED  BY <1>1, <1>2, <1>3, <1>4, <1>5, <2>1, <2>2 DEF IInv, Recorded
<1>10. Applied'
  <2>1. \A c \in Consumers : dep[c] = TemplateOf(c, Latest)
    BY <1>1 DEF IInv, Applied
  <2> QED  BY <1>1, <1>5, <2>1 DEF Applied, TemplateOf
<1> QED  BY <1>6, <1>7, <1>8, <1>9, <1>10 DEF IInv

LEMMA HelmFailsInv ==
  ASSUME IInv, HelmFails
  PROVE  IInv'
<1>1. /\ pc # "idle" /\ pc' = "idle" /\ todo' = <<>>
      /\ UNCHANGED <<external, live, issued, history, dep, pods, newest, minted>>
  BY DEF HelmFails, secretVars, clusterVars
<1>2. Latest' = Latest /\ GenerationKeys' = GenerationKeys
  BY <1>1 DEF Latest, GenerationKeys
<1>3. ~Latest.completed
  BY <1>1 DEF IInv, Recorded
<1>4. Typed' /\ Numbered' /\ Holds' /\ Current' /\ OneKeyPerGeneration'
  BY <1>1, <1>2 DEF IInv, Typed, Numbered, Holds, Current, OneKeyPerGeneration
<1>5. Recorded'
  <2>1. \A n \in 1..Len(history) : Served(history[n])' = Served(history[n])
    BY <1>1 DEF Served
  <2> QED  BY <1>1, <1>2, <1>3, <2>1 DEF IInv, Recorded
<1>6. Applied'
  BY <1>1, <1>2, <1>3 DEF Applied
<1> QED  BY <1>4, <1>5, <1>6 DEF IInv

LEMMA UninstallInv ==
  ASSUME IInv, Uninstall
  PROVE  IInv'
<1>1. /\ pc = "idle" /\ history' = <<>>
      /\ dep' = [c \in Consumers |-> NoTemplate]
      /\ pods' = [c \in Consumers |-> NoPod]
      /\ UNCHANGED <<external, live, issued, pc, todo, newest, minted>>
  BY DEF Uninstall, secretVars
<1>2. /\ NoTemplate \in Template /\ NoTemplate.id = 0 /\ NoTemplate.keys = {}
      /\ NoPod \in Pod /\ NoPod.tpl = NoTemplate
  BY MadeTyped DEF NoTemplate, Template, NoPod, Pod
<1>3. live.id \in Nat
  BY DEF IInv, Typed, Secret
<1>4. Typed'
  BY <1>1, <1>2 DEF IInv, Typed
<1>5. Numbered' /\ Holds' /\ OneKeyPerGeneration'
  BY <1>1 DEF IInv, Numbered, Holds, OneKeyPerGeneration
<1>6. Recorded' /\ Applied'
  BY <1>1 DEF Recorded, Applied
<1>7. Current'
  BY <1>1, <1>2, <1>3 DEF Current
<1> QED  BY <1>4, <1>5, <1>6, <1>7 DEF IInv

(***************************************************************************)
(* Operators and Kubernetes.                                               *)
(***************************************************************************)
\* What the operator puts in force is new under a new id.
LEMMA UpdateExternalInv ==
  ASSUME RecoverForward, IInv, NEW id \in 1..(newest + 1), UpdateExternal(id)
  PROVE  IInv'
<1>1. /\ newest \in Nat /\ minted \in Nat /\ live.id \in Nat /\ live.id <= newest
      /\ issued \subseteq [id : Nat, key : Keys, value : Nat]
  BY DEF IInv, Typed, Numbered, Secret
<1>2. /\ external /\ pc = "idle" /\ id = newest + 1
      /\ live' = [id |-> id, data |-> Made(BaseKeys, minted + 1)]
      /\ issued' = issued \cup {Of(id, k, Made(BaseKeys, minted + 1)[k]) : k \in BaseKeys}
      /\ newest' = Max({newest, id}) /\ minted' = minted + 1
      /\ UNCHANGED <<history, pc, todo, external, dep, pods>>
  BY DEF UpdateExternal, Becomes, InForce, Of, clusterVars
<1>3. newest' = id
  BY <1>1, <1>2, MaxOfTwo
<1>4. /\ Made(BaseKeys, minted + 1) \in Data
      /\ \A k \in BaseKeys : Made(BaseKeys, minted + 1)[k] = minted + 1
  BY <1>1, MadeTyped, KeyFacts DEF Made
<1>5. issued' = issued \cup {Of(id, k, minted + 1) : k \in BaseKeys}
  BY <1>2, <1>4
<1>6. live'.id = id /\ live'.data = Made(BaseKeys, minted + 1)
  BY <1>2
<1>7. \A g \in issued : g.value <= minted /\ g.id < id /\ g.value \in Nat /\ g.id \in Nat
  BY <1>1, <1>2 DEF IInv, Numbered
<1>8. ASSUME NEW g \in issued'
      PROVE  \/ g \in issued
             \/ g.id = id /\ g.value = minted + 1 /\ g.key \in BaseKeys
  BY <1>5 DEF Of
<1>9. Latest' = Latest
  BY <1>2 DEF Latest
<1>10. Typed'
  <2>1. issued' \subseteq [id : Nat, key : Keys, value : Nat]
    BY <1>1, <1>2, <1>5, KeyFacts DEF Of
  <2>2. live' \in Secret
    BY <1>1, <1>2, <1>4 DEF Secret
  <2> QED  BY <1>1, <1>2, <1>3, <2>1, <2>2 DEF IInv, Typed
<1>11. Numbered'
  <2>1. \A n \in 1..Len(history) : /\ history[n].id \in Nat
                                   /\ \A k \in Keys : history[n].data[k] \in Nat
    <3>1. \A n \in 1..Len(history) : history[n] \in Revision
      BY DEF IInv, Typed
    <3> QED  BY <3>1 DEF Revision, Data
  <2>2. \A g \in issued' : 0 < g.value /\ g.value <= minted' /\ g.id <= id
    BY <1>1, <1>2, <1>7, <1>8 DEF IInv, Numbered
  <2>3. \A n \in 1..Len(history) :
          /\ history[n].id <= id
          /\ \A k \in Keys : history[n].data[k] <= minted + 1
    BY <1>1, <1>2, <2>1 DEF IInv, Numbered
  <2>4. id \in Nat /\ id <= id
    BY <1>1, <1>2
  <2>5. \A n \in 1..Len(history') :
          /\ history'[n].id <= newest'
          /\ \A k \in Keys : history'[n].data[k] <= minted'
    BY <1>2, <1>3, <2>3
  <2> QED  BY <1>3, <1>6, <2>2, <2>4, <2>5 DEF Numbered
<1>12. Holds'
  <2>1. \A g \in issued' : g.id = id => Made(BaseKeys, minted + 1)[g.key] = g.value
    BY <1>1, <1>4, <1>7, <1>8
  <2>2. \A k \in BaseKeys : Of(id, k, minted + 1) \in issued'
    BY <1>5
  <2> QED  BY <1>1, <1>4, <1>6, <2>1, <2>2 DEF Holds
<1>13. Recorded'
  BY <1>2, <1>9 DEF IInv, Recorded
<1>14. Current'
  <2>1. \A c \in Consumers : dep[c].id \in Nat /\ pods[c].tpl.id \in Nat
    BY DEF IInv, Typed, Template, Pod
  <2> QED  BY <1>1, <1>2, <1>6, <2>1 DEF IInv, Current
<1>15. Applied'
  BY <1>2, <1>9 DEF IInv, Applied, TemplateOf
<1>16. OneKeyPerGeneration'
  <2> SUFFICES ASSUME NEW g \in issued', NEW h \in issued', g.key = h.key
               PROVE  g.id = h.id <=> g.value = h.value
    BY DEF OneKeyPerGeneration
  <2>1. CASE g \in issued /\ h \in issued
    BY <2>1 DEF IInv, OneKeyPerGeneration
  <2> QED  BY <1>1, <1>7, <1>8, <2>1
<1> QED  BY <1>10, <1>11, <1>12, <1>13, <1>14, <1>15, <1>16 DEF IInv

\* A pod that starts copies keys of the generation its template names.
LEMMA PodInv ==
  ASSUME IInv, NEW c \in Consumers, RollPod(c) \/ RestartPod(c)
  PROVE  IInv'
<1>1. PICK tpl \in {dep[c], pods[c].tpl} :
        /\ CanStart(tpl) /\ pods' = [pods EXCEPT ![c] = Started(tpl, live)]
        /\ UNCHANGED <<external, live, issued, history, pc, todo, dep, newest, minted>>
  BY DEF RollPod, RestartPod, helmVars, secretVars
<1>2. /\ live \in Secret /\ live.id \in Nat /\ tpl \in Template
      /\ pods \in [Consumers -> Pod]
      /\ issued \subseteq [id : Nat, key : Keys, value : Nat]
  BY DEF IInv, Typed, Secret, Pod
<1>3. /\ Started(tpl, live) \in Pod /\ Started(tpl, live).tpl = tpl
      /\ \A k \in tpl.keys : Started(tpl, live).held[k] = live.data[k]
  BY <1>2, StartedTyped
<1>4. Latest' = Latest /\ GenerationKeys' = GenerationKeys
  BY <1>1 DEF Latest, GenerationKeys
<1>5. tpl.id <= live.id /\ (tpl.id = live.id => tpl.keys \subseteq GenerationKeys)
  <2>1. CASE tpl = dep[c]
    BY <2>1 DEF IInv, Current
  <2>2. CASE tpl = pods[c].tpl
    <3>1. ASSUME tpl.id = live.id, NEW k \in tpl.keys PROVE k \in GenerationKeys
      <4>1. Of(live.id, k, pods[c].held[k]) \in issued
        BY <2>2, <3>1 DEF IInv, Current
      <4> QED  BY <4>1, Generation DEF Of
    <3> QED  BY <2>2, <3>1 DEF IInv, Current
  <2> QED  BY <1>1, <2>1, <2>2
<1>6. ASSUME tpl.id = live.id, NEW k \in tpl.keys
      PROVE  Of(live.id, k, live.data[k]) \in issued
  <2>1. PICK g \in issued : g.id = live.id /\ g.key = k
    BY <1>5, <1>6, Generation
  <2>2. g = Of(g.id, g.key, g.value) /\ g.value = live.data[k]
    BY <1>2, <2>1 DEF Of, IInv, Holds
  <2> QED  BY <2>1, <2>2
<1>7. Typed'
  BY <1>1, <1>2, <1>3 DEF IInv, Typed
<1>8. Numbered' /\ Holds' /\ OneKeyPerGeneration' /\ Applied'
  BY <1>1, <1>4 DEF IInv, Numbered, Holds, OneKeyPerGeneration, Applied, TemplateOf
<1>9. Recorded'
  <2>1. \A n \in 1..Len(history) : Served(history[n])' = Served(history[n])
    BY <1>1 DEF Served
  <2>2. Served(Latest)' = Served(Latest) /\ Agrees(Latest)' = Agrees(Latest)
    BY <1>1, <1>4 DEF Served, Agrees
  <2> QED  BY <1>1, <1>4, <2>1, <2>2 DEF IInv, Recorded
<1>10. Current'
  <2>1. \A d \in Consumers : pods'[d] = IF d = c THEN Started(tpl, live) ELSE pods[d]
    BY <1>1, <1>2
  <2> QED  BY <1>1, <1>3, <1>4, <1>5, <1>6, <2>1 DEF IInv, Current
<1> QED  BY <1>7, <1>8, <1>9, <1>10 DEF IInv

(***************************************************************************)
(* The theorems.                                                           *)
(***************************************************************************)
LEMMA StutterInv ==
  ASSUME IInv, UNCHANGED vars
  PROVE  IInv'
<1>1. UNCHANGED <<external, live, issued, history, pc, todo, dep, pods, newest, minted>>
  BY DEF vars, helmVars, secretVars, clusterVars
<1> QED  BY <1>1 DEF IInv, Typed, Numbered, Holds, Recorded, Current, Applied,
            OneKeyPerGeneration, Latest, GenerationKeys, Served, Agrees, TemplateOf

LEMMA NextInv == ASSUME RecoverForward, IInv, [Next]_vars PROVE IInv'
  BY UpgradeInv, RollbackInv, ApplyExternalInv, ApplyManagedInv,
     ApplyDeploymentInv, FinishInv, HelmFailsInv, UninstallInv,
     UpdateExternalInv, PodInv, StutterInv DEF Next

\* The invariant, for any number of operations and failures.
THEOREM Invariance == ASSUME RecoverForward PROVE Spec => []IInv
<1>1. Init => IInv
  BY InitInv
<1>2. IInv /\ [Next]_vars => IInv'
  BY NextInv
<1> QED  BY <1>1, <1>2, PTL DEF Spec

\* Under one rotation id a key never has two values, and no value serves under
\* two ids: whatever is upgraded, repeated, rolled back, uninstalled or fails
\* (shared-tokens-secret.yaml: lookup, keep).
THEOREM OneGeneration == ASSUME RecoverForward PROVE Spec => []OneKeyPerGeneration
<1>1. IInv => OneKeyPerGeneration
  BY DEF IInv
<1> QED  BY <1>1, Invariance, PTL

\* A pod under the id in force holds the keys in force, and what Helm completed
\* is under that id and has every key it needs (services.yaml: the annotation
\* clavenar.io/auth-rotation-id).
THEOREM ConsumersAgree == ASSUME RecoverForward PROVE Spec => []ConsumersCurrent
<1>1. ASSUME IInv PROVE ConsumersCurrent
  <2>1. ASSUME NEW c \in Consumers, pods[c].tpl.id = live.id,
               NEW k \in pods[c].tpl.keys
        PROVE  pods[c].held[k] = live.data[k]
    <3>1. Of(live.id, k, pods[c].held[k]) \in issued
      BY <1>1, <2>1 DEF IInv, Current
    <3> QED  BY <1>1, <3>1 DEF IInv, Holds, Of
  <2>2. ASSUME pc = "idle", history # <<>>, Latest.completed, NEW c \in Consumers
        PROVE  /\ dep[c].keys \subseteq Present(live.data)
               /\ dep[c].id = live.id \/ external
    <3>1. /\ Latest \in Revision /\ Latest = history[Len(history)]
          /\ Len(history) \in 1..Len(history)
          /\ external \in BOOLEAN
      BY <1>1, <2>2, LatestRevision DEF IInv, Typed
    <3>2. /\ dep[c].id = Latest.id /\ dep[c].keys \subseteq Latest.keys
      BY <1>1, <2>2, <3>1, TemplateTyped DEF IInv, Applied
    <3>3. CASE external
      <4>1. Latest.keys \subseteq BaseKeys
        BY <1>1, <3>1, <3>3 DEF IInv, Recorded
      <4> QED  BY <1>1, <3>2, <3>3, <4>1, KeyFacts DEF IInv, Holds, Present
    <3>4. CASE ~external
      <4>1. /\ Latest.id = live.id
            /\ \A k \in Latest.keys : Of(Latest.id, k, Latest.data[k]) \in issued
            /\ \A k \in Keys : k \in Latest.keys <=> Latest.data[k] # 0
            /\ Latest.keys \subseteq Keys
        BY <1>1, <2>2, <3>1, <3>4 DEF IInv, Recorded, Served, Revision
      <4>2. \A k \in Latest.keys : live.data[k] = Latest.data[k]
        BY <1>1, <4>1 DEF IInv, Holds, Of
      <4> QED  BY <3>2, <4>1, <4>2 DEF Present
    <3> QED  BY <3>1, <3>3, <3>4
  <2> QED  BY <2>1, <2>2 DEF ConsumersCurrent
<1> QED  BY <1>1, Invariance, PTL
================================================================================

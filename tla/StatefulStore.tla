----------------------------- MODULE StatefulStore -----------------------------
(***************************************************************************)
(* What an upgrade of services with durable data has to promise, however   *)
(* it is done: what a service tells its clients it keeps; a backup is all  *)
(* that it had told them at some moment, under the release it had then;    *)
(* the data goes back only to the published backup, and only while nobody  *)
(* reads it; a release is replaced only over a backup of it, and comes     *)
(* back only onto its own.                                                 *)
(*                                                                         *)
(* StatefulUpgrade implements it (StatefulUpgrade!ImplementsStore).        *)
(***************************************************************************)
EXTENDS Naturals

CONSTANT Services

VARIABLES
    data,     \* per service: what its clients have been told
    release,  \* per service: the release that is deployed
    copied,   \* per service: the backup that is being made, if any
    saved,    \* per service: the published backup, if any
    read      \* per service: what readers of some release see
vars == <<data, release, copied, saved, read>>

Data == [rel : Nat, commits : Nat]
Backup == [data : Data, source : Nat]
View == [by : Nat, data : Data]

\* Everyone sees what the clients were told, and nothing of a later release.
Faithful(s) == \A v \in read[s] : v.data = data[s] /\ v.data.rel <= v.by

Init ==
    /\ data \in [Services -> Data] /\ release \in [Services -> Nat]
    /\ copied = [s \in Services |-> {}] /\ saved = [s \in Services |-> {}]
    /\ read \in [Services -> SUBSET View]
    /\ \A s \in Services : data[s].rel <= release[s] /\ Faithful(s)

\* Readers come and go.
Read(s) ==
    /\ read' = [read EXCEPT ![s] = read'[s]]
    /\ read'[s] \subseteq View /\ Faithful(s)'
    /\ UNCHANGED <<data, release, copied, saved>>

\* A running service migrates or commits.
Update(s) ==
    /\ data' = [data EXCEPT ![s] = data'[s]]
    /\ data'[s] \in Data /\ data'[s].rel <= release[s]
    /\ data[s].rel <= data'[s].rel /\ data[s].commits <= data'[s].commits
    /\ read' = [read EXCEPT ![s] = read'[s]]
    /\ read'[s] # {} /\ read'[s] \subseteq View /\ Faithful(s)'
    /\ UNCHANGED <<release, copied, saved>>

Copy(s) ==
    /\ copied' = [copied EXCEPT ![s] = {[data |-> data[s], source |-> release[s]]}]
    /\ UNCHANGED <<data, release, saved, read>>

Discard(s) ==
    /\ copied' = [copied EXCEPT ![s] = {}]
    /\ UNCHANGED <<data, release, saved, read>>

Publish(s) ==
    /\ copied[s] # {}
    /\ saved' = [saved EXCEPT ![s] = copied[s]]
    /\ copied' = [copied EXCEPT ![s] = {}]
    /\ UNCHANGED <<data, release, read>>

Restore(s) ==
    /\ read[s] = {}
    /\ \E b \in saved[s] : /\ b.source <= release[s]
                           /\ data' = [data EXCEPT ![s] = b.data]
    /\ UNCHANGED <<release, copied, saved, read>>

\* A later release, over a backup of the one it replaces.
Upgrade(s) ==
    /\ release' = [release EXCEPT ![s] = release'[s]]
    /\ release'[s] \in Nat /\ release[s] <= release'[s]
    /\ \E b \in saved[s] : b.source = release[s]
    /\ UNCHANGED <<data, copied, saved, read>>

\* The release of the backup, onto the backup.
Rollback(s) ==
    /\ read[s] = {}
    /\ \E b \in saved[s] : /\ data[s] = b.data
                           /\ release' = [release EXCEPT ![s] = b.source]
    /\ UNCHANGED <<data, copied, saved, read>>

Next == \E s \in Services :
    \/ Read(s) \/ Update(s)
    \/ Copy(s) \/ Discard(s) \/ Publish(s)
    \/ Restore(s) \/ Upgrade(s) \/ Rollback(s)

Spec == Init /\ [][Next]_vars
================================================================================

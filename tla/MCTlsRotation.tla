----------------------------- MODULE MCTlsRotation -----------------------------
(* Small instances of TlsRotation: two running workloads, one that a         *)
(* membership rotation adds, two generations after the first.                *)
EXTENDS TlsRotation

CONSTANTS identity, hil, exec, plain, extra

MCWorkloads == {identity, hil, exec}
MCGenerations == 0..2
MCSanContracts == {plain, extra}
MCInitialMembers == {identity, hil}

Rotate(reason, g, members, sans) ==
    [op |-> "rotate", reason |-> reason, gen |-> g, members |-> members,
     sans |-> sans]
Reconcile(g, members, sans) ==
    [op |-> "reconcile", reason |-> "none", gen |-> g, members |-> members,
     sans |-> sans]

AllRequests ==
    {Reconcile(0, MCInitialMembers, plain), Reconcile(1, MCInitialMembers, plain),
     Rotate("expiry", 1, MCInitialMembers, plain),
     Rotate("membership", 1, MCWorkloads, plain),
     Rotate("membership", 2, MCInitialMembers, plain),
     Rotate("dns", 1, MCInitialMembers, extra),
     Rotate("profile", 1, MCInitialMembers, plain),
     Rotate("expiry", 2, MCInitialMembers, plain)}

\* Calls fail and time runs out at or after the point where every workload
\* trusts both roots; the container is killed before the old root is retired;
\* the pod is lost anywhere but in the last step of the rollback.
LateFaults ==
    ({"api", "patch", "rollout", "deadline", "term"}
        \X {"overlap-new", "retiring"})
    \cup ({"kill"} \X {"initial", "migrate", "rotating", "overlap-new"})
    \cup ({"podloss"} \X (Phases \ {"none", "snapshot", "restore"}))
    \cup ({"api"} \X {"initial", "migrate"})
    \cup {<<"rollout", "initial">>}

FreshRequests == {Rotate("expiry", 1, MCInitialMembers, plain),
                  Rotate("membership", 1, MCWorkloads, plain)}
ReconcileRequests == {Reconcile(0, MCInitialMembers, plain),
                      Reconcile(1, MCInitialMembers, plain)}

KeepingRequests == {Rotate("dns", 1, MCInitialMembers, extra),
                    Rotate("dns", 2, MCInitialMembers, plain),
                    Rotate("profile", 1, MCInitialMembers, plain),
                    Rotate("profile", 2, MCInitialMembers, plain)}
\* For rotations that keep the signer: everything that can fail before the
\* final annotation, outside the rollback.
KeepingFaults ==
    {"api", "patch", "rollout", "term", "kill", "podloss"} \X {"rotating"}

\* The environments in which apply.sh is not what its comments say.
EarlyRolloutFault == {<<"rollout", "overlap-old">>}
StuckRollout == {<<"rollout", "rotating">>}
SkippedWorkload == {<<"get", "overlap-new">>}
MisreadSecret == {<<"get", "snapshot">>}

\* For liveness: every kind of fault, anywhere in a rotation.
SettlingRequests == {Rotate("expiry", 1, MCInitialMembers, plain),
                     Rotate("profile", 1, MCInitialMembers, plain),
                     Reconcile(0, MCInitialMembers, plain)}
AnyFault ==
    {"api", "patch", "rollout", "deadline", "term", "kill", "podloss", "get"}
    \X (Phases \ {"none"})
================================================================================

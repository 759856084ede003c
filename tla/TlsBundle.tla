------------------------------- MODULE TlsBundle -------------------------------
(***************************************************************************)
(* The bytes the TLS rotation hook moves around, and the decisions         *)
(* files/tls-rotation/snapshot.sh and mint.sh take about them.             *)
(*                                                                         *)
(* A certificate bundle is abstracted to what the hook's decisions and the *)
(* handshakes of the workloads can tell apart:                             *)
(*   ca.key   the signer (two CA certificates over one key verify the same *)
(*            leaves),                                                     *)
(*   ca.cert  the CA certificate bytes (tls-ca-sha256),                    *)
(*   rev      the bytes of the whole bundle (tls-bundle-sha256),           *)
(*   members  the workload identities it holds (its service-*.crt keys),   *)
(*   sans     the SAN contract its leaves were minted for,                 *)
(*   exact    whether every certificate has the exact required profile.    *)
(* Revision 0 stands for no bundle.  Key/certificate pairing, file modes   *)
(* and inventories are checked by the scripts on bytes that only the       *)
(* scripts write; they are abstracted into the bundle being one value.     *)
(***************************************************************************)
EXTENDS Naturals

CONSTANTS
    Workloads,      \* the identities and, one to one, the TLS workloads
    Identity,       \* the Identity workload, rolled first by a profile fix
    Generations,    \* rotation.generation values
    SanContracts,   \* tlsBundle.additionalDnsNames values
    BaseSans        \* the contract of a bundle that names nothing extra

ASSUME BundleAssumption == /\ Identity \in Workloads
                           /\ BaseSans \in SanContracts

FreshReasons == {"membership", "expiry"}
SignerPreservingReasons == {"dns", "profile"}
Reasons == {"none"} \cup FreshReasons \cup SignerPreservingReasons

CA == [key : Nat, cert : Nat]
Bundle == [ca : CA, rev : Nat, members : SUBSET Workloads,
           sans : SanContracts, exact : BOOLEAN]

NoBundle == [ca |-> [key |-> 0, cert |-> 0], rev |-> 0, members |-> {},
             sans |-> BaseSans, exact |-> FALSE]

\* One hook invocation: the rendered tlsBundle.rotation values and services.
Request == [op : {"reconcile", "rotate"}, reason : Reasons,
            gen : Generations, members : SUBSET Workloads,
            sans : SanContracts]

(***************************************************************************)
(* Trust metadata.  state = "unset" is a Secret without the annotations;   *)
(* readyGen = "none" stands for readiness=pending.  annotate_secret writes *)
(* every field in one call.                                                *)
(***************************************************************************)
Tags == {"stable", "overlap-old", "overlap-new", "rollback-new-dual",
         "rollback-old-dual"}
Token == [gen : Generations, tag : Tags]
States == {"unset", "stable", "overlap-old", "overlap-new", "retiring",
           "rotating", "rollback-new-dual", "rollback-old-dual"}
Annotations ==
    [state : States, gen : Generations, rev : Nat, trust : SUBSET CA,
     ready : BOOLEAN, readyToken : Token, canRollback : BOOLEAN,
     previousCa : Nat]

(***************************************************************************)
(* snapshot.sh: what the existing metadata must look like.                 *)
(***************************************************************************)
IsLegacy(ann) == ann.state = "unset"

IsCanonical(ann) ==
    /\ ann.state = "stable"
    /\ ann.ready
    /\ ann.readyToken = [gen |-> ann.gen, tag |-> "stable"]
    /\ ~ann.canRollback

SnapshotAccepts(labelled, ann) ==
    /\ labelled
    /\ IsLegacy(ann) \/ IsCanonical(ann)

(***************************************************************************)
(* mint.sh: validation of existing bytes.  ca.crt must be one certificate, *)
(* the signer's own; the SAN contract is exact except for a dns rotation,  *)
(* the profile is exact only for a dns rotation; an expired CA is refused. *)
(***************************************************************************)
ValidatesActive(b, trust, r, age) ==
    /\ trust = {b.ca}
    /\ age # "expired"
    /\ IF r.op = "rotate" /\ r.reason = "dns"
       THEN b.exact
       ELSE b.sans = r.sans

\* Mutant of DigestsMatch: recorded digests are never compared.
DigestsIgnored(b, trust, ann) == TRUE

DigestsMatch(b, trust, ann) ==
    IsLegacy(ann) \/ (ann.rev = b.rev /\ ann.trust = trust)

\* Bytes and metadata an unattended hook run would act on.
Trusted(labelled, ann, b, trust) ==
    /\ SnapshotAccepts(labelled, ann)
    /\ trust = {b.ca}
    /\ DigestsMatch(b, trust, ann)

(***************************************************************************)
(* mint.sh: is the request admitted for the bundle b of generation gen?    *)
(***************************************************************************)
AdmitsReconcile(shape, b, gen, r) ==
    /\ r.op = "reconcile" /\ r.reason = "none"
    /\ shape = "canonical" => gen = r.gen
    /\ b.members = r.members

\* Mutant of AdmitsRotate: a membership rotation may also remove identities.
AdmitsRemoval(shape, b, gen, r, age) ==
    /\ r.op = "rotate"
    /\ shape = "canonical"
    /\ gen # r.gen
    /\ \/ r.reason = "membership" /\ b.members # r.members
       \/ r.reason = "expiry" /\ b.members = r.members /\ age = "due"
       \/ r.reason = "dns" /\ b.members = r.members /\ b.sans # r.sans
       \/ r.reason = "profile" /\ b.members = r.members /\ ~b.exact

AdmitsRotate(shape, b, gen, r, age) ==
    /\ r.op = "rotate"
    /\ shape = "canonical"
    /\ gen # r.gen
    /\ \/ /\ r.reason = "membership"
          /\ b.members # r.members /\ b.members \subseteq r.members
       \/ /\ r.reason = "expiry"
          /\ b.members = r.members /\ age = "due"
       \/ /\ r.reason = "dns"
          /\ b.members = r.members /\ b.sans # r.sans
       \/ /\ r.reason = "profile"
          /\ b.members = r.members /\ ~b.exact

(***************************************************************************)
(* mint.sh: the three generators.  n is a serial never used before.        *)
(***************************************************************************)
generate_bundle(r, n) ==
    [ca |-> [key |-> n, cert |-> n], rev |-> n, members |-> r.members,
     sans |-> r.sans, exact |-> TRUE]

generate_dns_bundle(b, r, n) == [b EXCEPT !.rev = n, !.sans = r.sans]

generate_profile_bundle(b, n) ==
    [b EXCEPT !.ca.cert = n, !.rev = n, !.exact = TRUE]

Candidate(b, r, n) ==
    CASE r.reason = "dns" -> generate_dns_bundle(b, r, n)
      [] r.reason = "profile" -> generate_profile_bundle(b, n)
      [] OTHER -> generate_bundle(r, n)

\* A peer with this trust accepts a leaf of bundle b.
Accepts(trust, b) == \E c \in trust : c.key = b.ca.key
================================================================================

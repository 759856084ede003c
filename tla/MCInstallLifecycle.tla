------------------------- MODULE MCInstallLifecycle -------------------------
(* The part of the graph with every kind of edge: the bundled Vault with     *)
(* its key, Identity that enrolls the others and itself, Brain whose         *)
(* readiness has no dependency, and the proxy that watches both at run time. *)
EXTENDS InstallLifecycle, TLC

MCApplications == {"identity", "brain", "proxy"}
MCInfrastructure == {"vault"}
MCCases == {"default", "bundled"}
MCBundled == ("default" :> {}) @@ ("bundled" :> MCInfrastructure)

ReadyPort == [identity |-> 8086, brain |-> 9081, proxy |-> 8080]
Graph ==
    [identity |-> {"vault"}, brain |-> {"identity"},
     proxy |-> {"vault", "brain", "identity"}]
MCChecks == [identity |-> {"vault"}, brain |-> {}, proxy |-> {"brain", "identity"}]

Entry(a) ==
    [id |-> a, helm |-> TRUE,
     live |-> IF a \in MCInfrastructure THEN <<0, "process">>
              ELSE <<ReadyPort[a], "/health">>,
     ready |-> IF a \in MCInfrastructure THEN BundledAt(a)
               ELSE <<ReadyPort[a], "/readyz">>,
     after |-> IF a \in MCInfrastructure THEN {}
               ELSE {[service |-> d, helm |-> TRUE] : d \in Graph[a]}]

\* What other topologies run, and Identity waits for there.
Bootstrapper == [id |-> "bootstrap", helm |-> FALSE, live |-> <<0, "exit">>,
                 ready |-> <<0, "exit">>, after |-> {}]
ForOthers(s) == IF s.id # "identity" THEN s
                ELSE [s EXCEPT !.after =
                        @ \cup {[service |-> "bootstrap", helm |-> FALSE]}]

MCContract0 ==
    [name |-> "clavenar.dependency-readiness/v1", schemaVersion |-> 1,
     services |-> {ForOthers(Entry(a)) : a \in MCApplications \cup MCInfrastructure}
                  \cup {Bootstrapper}]

MCEnrollPort == 8186

MCGovernedPorts ==
    [d \in MCApplications \cup MCInfrastructure |->
        {Entry(d).ready[1]} \cup (IF d = "identity" THEN {MCEnrollPort} ELSE {})]

MCGovernedCallers ==
    LET admitted(d, callers) == {<<d, Entry(d).ready[1], a>> : a \in callers} IN
    admitted("vault", {"proxy", "identity", Bootstrap, Seed})
    \cup admitted("identity", {"brain", "proxy"})
    \cup admitted("brain", {"proxy"})
    \cup {<<"identity", MCEnrollPort, a>> : a \in MCApplications}

MCGovernedNotReady == {"identity", "vault"}

MCTemplates0 ==
    [graph |-> [a \in MCApplications |-> Graph[a]],
     live |-> [a \in MCApplications |-> Entry(a).live],
     ready |-> [a \in MCApplications |-> Entry(a).ready],
     endpoint |-> [d \in MCApplications \cup MCInfrastructure |-> Entry(d).ready],
     checksums |-> [a \in MCApplications |-> {"schema", "fixture"}],
     gate |-> [timeout |-> 2, attempts |-> 30],
     runtime |-> RuntimeEdges, simulator |-> FALSE,
     ports |-> MCGovernedPorts, callers |-> MCGovernedCallers,
     notReady |-> MCGovernedNotReady, immutable |-> TRUE, verbatim |-> TRUE]

MCEditable == {"identity"}
MCOtherEndpoint == <<8086, "/readyz/all">>
MCBegins == {<<<<8086, "/readyz">>, MCOtherEndpoint>>}

\* A startup edge that no policy admits; see the README.
MCNoEdges == {}
MCBrainWaitsForProxy == {<<"brain", "proxy">>}
============================================================================

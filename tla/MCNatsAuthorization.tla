------------------------ MODULE MCNatsAuthorization ------------------------
(* Two deployed clients and the external demo-mint, one stream with a       *)
(* durable consumer, the nested core subject, and two buckets; contracts    *)
(* that move a manager, a writer, a subscriber or a client.                 *)
EXTENDS NatsAuthorization

MCChartClients == {"identity", "ledger"}
MCNoStream == "null"

Client(s) == [service |-> s, dnsSan |-> s, inbox |-> <<"_INBOX", "clavenar", s>>]

Forensic(manager, publishers, subscribers, durables) ==
    [subject |-> <<"clavenar", "forensic">>, stream |-> "clavenar-forensic",
     streamManager |-> manager, publishers |-> publishers,
     subscribers |-> subscribers, durables |-> durables]

ForensicIdentity ==
    [subject |-> <<"clavenar", "forensic", "identity">>, stream |-> MCNoStream,
     streamManager |-> MCNoStream, publishers |-> {"identity"},
     subscribers |-> {}, durables |-> {}]

Bucket(b, manager, readers, writers) ==
    [bucket |-> b, stream |-> "KV_" \o b, manager |-> manager,
     readers |-> readers, writers |-> writers]

Contract(version, clients, subjects, buckets) ==
    [version |-> version, clients |-> {Client(s) : s \in clients},
     subjects |-> subjects, buckets |-> buckets]

All == {"identity", "ledger", "demo-mint"}
LedgerDurable == {[service |-> "ledger", name |-> "ledger"]}

Revocation == Bucket("revocation", "identity", {"identity", "ledger"}, {"identity"})
GrantUsage == Bucket("grant_usage", "identity", {"identity"}, {"ledger"})

Current == Contract("v1", All,
    {Forensic("ledger", All, {}, LedgerDurable), ForensicIdentity},
    {Revocation, GrantUsage})

Moved == Contract("v1", All,
    {Forensic("identity", {"identity", "demo-mint"}, {"ledger"},
              LedgerDurable \cup {[service |-> "identity", name |-> "identity"]}),
     ForensicIdentity},
    {Bucket("revocation", "ledger", {"ledger"}, {"identity", "ledger"})})

Dropped == Contract("v1", MCChartClients,
    {Forensic("ledger", MCChartClients, {}, LedgerDurable)}, {Revocation})

Unknown == [Current EXCEPT !.version = "v2"]

MCContracts == {Current, Moved, Dropped, Unknown}

MCHandGrants == {<<">">>, <<"$KV", "revocation", ">">>}

\* What the templates render, and their drifts: a client left out of the
\* broker rule, a rule with its clients split, a rule narrowed to a namespace,
\* demo-mint on the monitor port, a Deployment with another inbox prefix or
\* certificate or no broker URL.
Rule(port, from) == [port |-> port, from |-> from]
Deployment(n) == [natsUrl |-> TRUE, inbox |-> <<"_INBOX", "clavenar", n>>, cert |-> n]
NoBroker(inbox) == [natsUrl |-> FALSE, inbox |-> inbox, cert |-> "none"]

Deployments ==
    [n \in {"identity", "ledger", "console"} |->
        IF n = "console" THEN NoBroker(<<>>) ELSE Deployment(n)]

Manifest(ingress, deployments) ==
    [ingress |-> ingress, deployments |-> deployments, claims |-> {"nats-js"}]

Bare(components) == {[component |-> c, narrowed |-> FALSE] : c \in components}
Narrowed(components) == {[component |-> c, narrowed |-> TRUE] : c \in components}
MCDemoPeers == Narrowed({"none"})

Core == Rule(4222, Bare(MCChartClients))
DemoMint == Rule(4222, MCDemoPeers)
Monitor == Rule(8222, Bare(MCChartClients))

Rendered == Manifest(<<Core, DemoMint, Monitor>>, Deployments)

MCManifests ==
    {Rendered,
     Manifest(<<DemoMint, Monitor>>, Deployments),
     Manifest(<<Rule(4222, Bare({"ledger"})), DemoMint, Monitor>>, Deployments),
     Manifest(<<Rule(4222, Narrowed(MCChartClients)), DemoMint, Monitor>>, Deployments),
     Manifest(<<Core, DemoMint, Monitor, Rule(8222, MCDemoPeers)>>, Deployments),
     Manifest(<<Core, DemoMint, Monitor>>,
              [Deployments EXCEPT !["ledger"].inbox = <<"_INBOX", "ledger">>]),
     Manifest(<<Core, DemoMint, Monitor>>,
              [Deployments EXCEPT !["ledger"].cert = "identity"]),
     Manifest(<<Core, DemoMint, Monitor>>,
              [Deployments EXCEPT !["ledger"].natsUrl = FALSE]),
     Manifest(<<Core, DemoMint, Monitor>>,
              [Deployments EXCEPT !["console"].inbox = <<"_INBOX", "clavenar", "console">>]),
     [Rendered EXCEPT !.claims = {}]}

\* A contract that gives a client another inbox prefix than the Deployments
\* carry.
Renamed == [Current EXCEPT !.clients =
    {[c EXCEPT !.inbox = IF c.service = "ledger" THEN <<"_INBOX", "ledger">> ELSE @] :
        c \in Current.clients}]

MCRenamed == {Current, Renamed}
============================================================================

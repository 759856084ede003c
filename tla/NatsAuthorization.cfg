CONSTANTS
  Contracts <- MCContracts
  ChartClients <- MCChartClients
  HandGrants <- MCHandGrants
  Manifests <- MCManifests
  DemoPeers <- MCDemoPeers
  NoStream <- MCNoStream
  MaxEdits = 2
SPECIFICATION Spec
INVARIANTS
  TypeOK
  BrokerRunsGenerated
  LeastAuthority
  InboxesPrivate
  PassMeansServed

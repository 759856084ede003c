CONSTANTS
  Applications <- MCApplications
  Infrastructure <- MCInfrastructure
  Contract0 <- MCContract0
  Templates0 <- MCTemplates0
  Cases <- MCCases
  Bundled <- MCBundled
  GovernedPorts <- MCGovernedPorts
  GovernedCallers <- MCGovernedCallers
  GovernedNotReady <- MCGovernedNotReady
  NewEdges <- MCNoEdges
  Editable <- MCEditable
  OtherEndpoint <- MCOtherEndpoint
  Begins <- MCBegins
  MaxEdits = 2
  Checks <- MCChecks
  Enrolling <- MCApplications
  EnrollPort <- MCEnrollPort
  BackoffLimit = 2
  MaxFaults = 2
  MaxRevisions = 2
SPECIFICATION Spec
INVARIANTS
  TypeOK
  InstalledServes
PROPERTIES
  StartedInOrder
  OutageDoesNotRestart
  HelmFinishes
  Recovers
CHECK_DEADLOCK FALSE
